---------------------------- MODULE UploadQueueProofs ----------------------------
(***************************************************************************)
(* Proofs about UploadQueue, for any numbers of photos, screens and faults. *)
(***************************************************************************)
EXTENDS UploadQueue, SequenceTheorems, TLAPS

-----------------------------------------------------------------------------
\* Lists

Unique(q) == \A m, n \in DOMAIN q : q[m].id = q[n].id => m = n

\* Marking changes no id.
LEMMA Marked ==
  ASSUME NEW q \in Seq(QueueEntry), NEW i, NEW busy \in BOOLEAN
  PROVE  /\ Mark(q, i, busy) \in Seq(QueueEntry)
         /\ Ids(Mark(q, i, busy)) = Ids(q)
         /\ Unique(q) => Unique(Mark(q, i, busy))
<1>. DEFINE r == Mark(q, i, busy)
<1>1. Len(q) \in Nat /\ DOMAIN q = 1..Len(q) /\ \A n \in 1..Len(q) : q[n] \in QueueEntry
  BY LenProperties, ElementOfSeq
<1>2. DOMAIN r = DOMAIN q
  BY DEF Mark
<1>3. \A n \in DOMAIN q : r[n] \in QueueEntry /\ r[n].id = q[n].id
  BY <1>1 DEF Mark, QueueEntry
<1>4. r \in Seq(QueueEntry)
  <2>1. r \in [1..Len(q) -> QueueEntry]
    BY <1>1, <1>3 DEF Mark
  <2>. QED BY <1>1, <2>1
<1>5. Ids(r) = Ids(q)
  BY <1>2, <1>3 DEF Ids
<1>6. Unique(q) => Unique(r)
  BY <1>2, <1>3 DEF Unique
<1>. QED BY <1>4, <1>5, <1>6

\* Without takes one entry out of the list.
LEMMA Removed ==
  ASSUME NEW q \in Seq(QueueEntry), NEW i
  PROVE  /\ Without(q, i) \in Seq(QueueEntry)
         /\ Unique(q) => Unique(Without(q, i)) /\ Ids(Without(q, i)) = Ids(q) \ {i}
         /\ \A m \in DOMAIN q : q[m].id # i
              => \E n \in DOMAIN Without(q, i) : Without(q, i)[n] = q[m]
<1>1. Len(q) \in Nat /\ DOMAIN q = 1..Len(q) /\ \A n \in 1..Len(q) : q[n] \in QueueEntry
  BY LenProperties, ElementOfSeq
<1>2. CASE i \notin Ids(q)
  BY <1>2 DEF Without
<1>3. CASE i \in Ids(q)
  <2>. DEFINE k == CHOOSE n \in DOMAIN q : q[n].id = i
              left == SubSeq(q, 1, k - 1)
              right == SubSeq(q, k + 1, Len(q))
              r == left \o right
  <2>1. k \in 1..Len(q) /\ q[k].id = i
    BY <1>1, <1>3 DEF Ids
  <2>. HIDE DEF k
  <2>2. /\ left \in Seq(QueueEntry) /\ Len(left) = k - 1
        /\ \A n \in 1..(k - 1) : left[n] = q[n]
    <3>1. \A n \in 1..(k - 1) : q[n] \in QueueEntry
      BY <1>1, <2>1
    <3>2. /\ left \in Seq(QueueEntry) /\ Len(left) = (IF 1 <= k - 1 THEN (k - 1) - 1 + 1 ELSE 0)
          /\ \A n \in 1..((k - 1) - 1 + 1) : left[n] = q[1 + n - 1]
      BY <2>1, <3>1, SubSeqProperties
    <3>. QED BY <1>1, <2>1, <3>2
  <2>3. /\ right \in Seq(QueueEntry) /\ Len(right) = Len(q) - k
        /\ \A n \in 1..(Len(q) - k) : right[n] = q[k + n]
    <3>1. \A n \in (k + 1)..Len(q) : q[n] \in QueueEntry
      BY <1>1, <2>1
    <3>2. /\ right \in Seq(QueueEntry)
          /\ Len(right) = (IF k + 1 <= Len(q) THEN Len(q) - (k + 1) + 1 ELSE 0)
          /\ \A n \in 1..(Len(q) - (k + 1) + 1) : right[n] = q[k + 1 + n - 1]
      BY <1>1, <2>1, <3>1, SubSeqProperties
    <3>3. Len(q) - (k + 1) + 1 = Len(q) - k
      BY <1>1, <2>1
    <3>. HIDE DEF right
    <3>4. Len(right) = Len(q) - k
      <4>1. CASE k + 1 <= Len(q)
        BY <3>2, <3>3, <4>1
      <4>2. CASE k = Len(q)
        BY <1>1, <3>2, <4>2
      <4>3. k \in Nat /\ Len(q) \in Nat /\ k <= Len(q)
        BY <1>1, <2>1
      <4>. QED BY <4>1, <4>2, <4>3
    <3>5. ASSUME NEW n \in 1..(Len(q) - k) PROVE right[n] = q[k + n]
      <4>1. k + 1 + n - 1 = k + n
        BY <2>1
      <4>. QED BY <3>2, <3>3, <4>1
    <3>. QED BY <3>2, <3>4, <3>5
  <2>4. /\ r \in Seq(QueueEntry) /\ Len(r) = Len(q) - 1 /\ DOMAIN r = 1..(Len(q) - 1)
        /\ \A n \in 1..(Len(q) - 1) : r[n] = IF n < k THEN q[n] ELSE q[n + 1]
    <3>1. /\ r \in Seq(QueueEntry) /\ Len(r) = Len(left) + Len(right)
          /\ \A n \in 1..(Len(left) + Len(right)) :
               r[n] = IF n <= Len(left) THEN left[n] ELSE right[n - Len(left)]
      BY <2>2, <2>3, ConcatProperties
    <3>. HIDE DEF left, right, r
    <3>2. Len(r) = Len(q) - 1 /\ DOMAIN r = 1..(Len(q) - 1)
      BY <1>1, <2>1, <2>2, <2>3, <3>1, LenProperties
    <3>3. ASSUME NEW n \in 1..(Len(q) - 1)
          PROVE  r[n] = IF n < k THEN q[n] ELSE q[n + 1]
      <4>0. n \in 1..(Len(left) + Len(right)) /\ (n <= Len(left) <=> n < k)
        BY <1>1, <2>1, <2>2, <2>3
      <4>1. CASE n < k
        <5>1. n \in 1..(k - 1) /\ r[n] = left[n]
          BY <1>1, <2>1, <3>1, <4>0, <4>1
        <5>. QED BY <2>2, <4>1, <5>1
      <4>2. CASE ~(n < k)
        <5>1. n - (k - 1) \in 1..(Len(q) - k) /\ k + (n - (k - 1)) = n + 1
          BY <1>1, <2>1, <4>2
        <5>2. r[n] = right[n - (k - 1)]
          BY <2>2, <3>1, <4>0, <4>2
        <5>. QED BY <1>1, <2>1, <2>3, <4>2, <5>1, <5>2
      <4>. QED BY <4>1, <4>2
    <3>. QED BY <3>1, <3>2, <3>3
  <2>5. Without(q, i) = r
    BY <1>3 DEF Without, RemoveAt, k
  <2>. HIDE DEF r
  <2>7. ASSUME NEW m \in DOMAIN q, q[m].id # i PROVE \E n \in DOMAIN r : r[n] = q[m]
    <3>1. m # k
      BY <2>1, <2>7
    <3>2. CASE m < k
      <4>1. m \in DOMAIN r /\ r[m] = q[m]
        BY <1>1, <2>1, <2>4, <3>2
      <4>. QED BY <4>1
    <3>3. CASE m > k
      <4>1. m - 1 \in DOMAIN r /\ r[m - 1] = q[m]
        BY <1>1, <2>1, <2>4, <3>3
      <4>. QED BY <4>1
    <3>. QED BY <1>1, <2>1, <3>1, <3>2, <3>3
  <2>6. ASSUME Unique(q) PROVE Unique(r) /\ Ids(r) = Ids(q) \ {i}
    <3>1. Unique(r)
      <4>. SUFFICES ASSUME NEW m \in DOMAIN r, NEW n \in DOMAIN r, r[m].id = r[n].id
                    PROVE  m = n
        BY DEF Unique
      <4>. DEFINE from(x) == IF x < k THEN x ELSE x + 1
      <4>1. \A x \in DOMAIN r : from(x) \in DOMAIN q /\ r[x] = q[from(x)]
        BY <1>1, <2>1, <2>4
      <4>2. from(m) = from(n)
        BY <2>6, <4>1 DEF Unique
      <4>. QED BY <1>1, <2>1, <2>4, <4>2
    <3>2. ASSUME NEW n \in DOMAIN r PROVE r[n].id \in Ids(q) \ {i}
      <4>1. PICK m \in DOMAIN q : m # k /\ r[n] = q[m]
        BY <1>1, <2>1, <2>4
      <4>. QED BY <1>1, <2>1, <2>6, <4>1 DEF Unique, Ids
    <3>3. ASSUME NEW m \in DOMAIN q, q[m].id # i PROVE q[m].id \in Ids(r)
      BY <2>7, <3>3 DEF Ids
    <3>4. Ids(r) = {r[n].id : n \in DOMAIN r} /\ Ids(q) = {q[m].id : m \in DOMAIN q}
      BY DEF Ids
    <3>. QED BY <3>1, <3>2, <3>3, <3>4
  <2>. QED BY <2>4, <2>5, <2>6, <2>7
<1>. QED BY <1>2, <1>3

\* A new entry comes last.
LEMMA Appended ==
  ASSUME NEW q \in Seq(QueueEntry), NEW i \in Items
  PROVE  LET r == Append(q, [id |-> i, busy |-> FALSE])
         IN  /\ r \in Seq(QueueEntry) /\ Ids(r) = Ids(q) \cup {i}
             /\ Unique(q) /\ i \notin Ids(q) => Unique(r)
<1>. DEFINE e == [id |-> i, busy |-> FALSE]
            r == Append(q, e)
<1>1. Len(q) \in Nat /\ DOMAIN q = 1..Len(q)
  BY LenProperties
<1>2. e \in QueueEntry /\ e.id = i
  BY DEF QueueEntry
<1>. HIDE DEF e
<1>3. /\ r \in Seq(QueueEntry) /\ DOMAIN r = 1..(Len(q) + 1)
      /\ r[Len(q) + 1] = e /\ \A n \in 1..Len(q) : r[n] = q[n]
  BY <1>1, <1>2
<1>. HIDE DEF r
<1>4. Ids(r) = Ids(q) \cup {i}
  <2>1. \A n \in DOMAIN r : r[n].id \in Ids(q) \cup {i}
    BY <1>1, <1>2, <1>3 DEF Ids
  <2>2. \A n \in DOMAIN q : n \in DOMAIN r /\ r[n] = q[n]
    BY <1>1, <1>3
  <2>3. Len(q) + 1 \in DOMAIN r
    BY <1>1, <1>3
  <2>. QED BY <1>2, <1>3, <2>1, <2>2, <2>3 DEF Ids
<1>5. ASSUME Unique(q), i \notin Ids(q) PROVE Unique(r)
  BY <1>1, <1>2, <1>3, <1>5 DEF Unique, Ids
<1>. QED BY <1>3, <1>4, <1>5 DEF r, e

-----------------------------------------------------------------------------
USE DEF server

\* What is on its way is a photo.
LEMMA SentItems == ASSUME QueueTypeOK PROVE OnTheWay \in SUBSET Items
BY DEF OnTheWay, QueueTypeOK, QueueRowsOK

\* The screen in front has a queue object.
ShownOK == shown \in Screens => step[shown] # "gone"

\* As long as only one queue object has been at work at a time: it is the one that
\* is alive, its list is the saved one, each entry has its file, and no file that is
\* about to be deleted, by a removal or at the end of an upload, belongs to an entry.
Alone ==
  /\ \A s, t \in Screens : Alive(s) /\ Alive(t) => s = t
  /\ \A s \in Screens : Alive(s) => queue[s] = saved
  /\ Unique(saved) /\ Ids(saved) \subseteq files \cap captured
  /\ unlinking \subseteq captured \ Ids(saved)
  /\ captured \subseteq Ids(saved) \cup delivered \cup discarded
  /\ \A s \in Screens :
       /\ adding[s] # NoItem => adding[s] \in files \ captured
       /\ work[s] # NoItem => work[s] \in captured
       /\ step[s] = "unlink" => work[s] \notin Ids(saved)
       /\ step[s] = "answered" => work[s] \in delivered

IInv == QueueTypeOK /\ ShownOK /\ (overlapped \/ Alone)

\* What may follow when s alone is alive or becomes so: what Alone says of s.
AloneAt(s) ==
  /\ queue[s] = saved
  /\ Unique(saved) /\ Ids(saved) \subseteq files \cap captured
  /\ unlinking \subseteq captured \ Ids(saved)
  /\ captured \subseteq Ids(saved) \cup delivered \cup discarded
  /\ adding[s] # NoItem => adding[s] \in files \ captured
  /\ work[s] # NoItem => work[s] \in captured
  /\ step[s] = "unlink" => work[s] \notin Ids(saved)
  /\ step[s] = "answered" => work[s] \in delivered

LEMMA AloneStep ==
  ASSUME QueueTypeOK', NEW s \in Screens, AloneAt(s)',
         \A t \in Screens : t # s => ~Alive(t) /\ adding'[t] = adding[t] /\ step'[t] = step[t]
  PROVE  Alone'
<1>1. \A t \in Screens : t # s => ~Alive(t)' /\ adding'[t] = NoItem /\ step'[t] = "gone" /\ work'[t] = NoItem
  BY DEF QueueTypeOK, Alive
<1>. QED BY <1>1 DEF Alone, AloneAt

LEMMA AloneOf ==
  ASSUME Alone, NEW s \in Screens, Alive(s)
  PROVE  /\ AloneAt(s) /\ \A t \in Screens : t # s => ~Alive(t)
BY DEF Alone, AloneAt

LEMMA Counted == ASSUME QueueRowsOK, Fault PROVE faults' \in 0..MaxFaults
BY UploadQueueAssumption DEF UploadQueueAssumption, QueueRowsOK, Fault

LEMMA InitOK == QueueInit => IInv
<1>. SUFFICES ASSUME QueueInit PROVE IInv
  OBVIOUS
<1>1. Ids(<<>>) = {} /\ Unique(<<>>)
  BY DEF Ids, Unique
<1>2. <<>> \in Seq(QueueEntry)
  BY EmptySeq
<1>3. QueueTypeOK /\ ShownOK
  <2>1. QueueRowsOK
    <3>1. queue \in [Screens -> Seq(QueueEntry)] /\ saved \in Seq(QueueEntry)
      BY <1>2 DEF QueueInit
    <3>2. step \in [Screens -> DrainSteps]
      BY DEF QueueInit, DrainSteps
    <3>3. faults \in 0..MaxFaults
      BY UploadQueueAssumption DEF UploadQueueAssumption, QueueInit
    <3>. QED BY <3>1, <3>2, <3>3 DEF QueueInit, QueueRowsOK
  <2>. QED BY <2>1, UploadQueueAssumption DEF UploadQueueAssumption, QueueInit, QueueTypeOK, ShownOK
<1>4. Alone
  BY <1>1 DEF QueueInit, Alone, Alive
<1>. QED BY <1>3, <1>4 DEF IInv

\* Only these four change a list, and where its drain is.
Moves(s, q) ==
  /\ saved' \in Seq(QueueEntry) /\ Ids(saved') = Ids(q) /\ (Unique(q) => Unique(saved'))
  /\ queue' = [queue EXCEPT ![s] = saved']
  /\ step' \in [Screens -> DrainSteps] /\ work' \in [Screens -> Items \cup {NoItem}]
  /\ \A t \in Screens : t # s => step'[t] = step[t] /\ work'[t] = work[t]
  /\ \/ step'[s] = "rest" /\ work'[s] = NoItem
     \/ step'[s] = "gone" /\ work'[s] = NoItem /\ s # shown
     \/ step'[s] = "send" /\ work'[s] \in Ids(q) \ {NoItem}

LEMMA Begins ==
  ASSUME QueueTypeOK, NEW s \in Screens, NEW q \in Seq(QueueEntry), BeginDrain(s, q)
  PROVE  Moves(s, q)
<1>. USE DEF QueueTypeOK, QueueRowsOK
<1>1. CASE q = <<>>
  <2>1. saved' = q /\ queue' = [queue EXCEPT ![s] = q]
        /\ step' = [step EXCEPT ![s] = "rest"] /\ work' = [work EXCEPT ![s] = NoItem]
    BY <1>1 DEF BeginDrain, Store
  <2>. QED BY <2>1 DEF Moves, DrainSteps
<1>2. CASE q # <<>>
  <2>1. Head(q) \in QueueEntry /\ Head(q) = q[1] /\ 1 \in DOMAIN q
    BY <1>2, HeadTailProperties, LenProperties, EmptySeq
  <2>2. Head(q).id \in Items /\ Head(q).id \in Ids(q)
    BY <2>1 DEF QueueEntry, Ids
  <2>. DEFINE i == Head(q).id
  <2>3. saved' = Mark(q, i, TRUE) /\ queue' = [queue EXCEPT ![s] = saved']
        /\ step' = [step EXCEPT ![s] = "send"] /\ work' = [work EXCEPT ![s] = i]
    BY <1>2 DEF BeginDrain, Store
  <2>4. saved' \in Seq(QueueEntry) /\ Ids(saved') = Ids(q) /\ (Unique(q) => Unique(saved'))
    BY <2>3, Marked
  <2>. QED BY <2>2, <2>3, <2>4, UploadQueueAssumption DEF Moves, DrainSteps, UploadQueueAssumption
<1>. QED BY <1>1, <1>2

LEMMA Fails ==
  ASSUME QueueTypeOK, NEW s \in Screens, Fail(s)
  PROVE  Moves(s, queue[s])
<1>. USE DEF QueueTypeOK, QueueRowsOK
<1>1. saved' = Mark(queue[s], work[s], FALSE) /\ queue' = [queue EXCEPT ![s] = saved']
      /\ step' = [step EXCEPT ![s] = IF s = shown THEN "rest" ELSE "gone"]
      /\ work' = [work EXCEPT ![s] = NoItem]
  BY DEF Fail, Store, Rest
<1>2. queue[s] \in Seq(QueueEntry)
  OBVIOUS
<1>3. saved' \in Seq(QueueEntry) /\ Ids(saved') = Ids(queue[s]) /\ (Unique(queue[s]) => Unique(saved'))
  BY <1>1, <1>2, Marked
<1>. QED BY <1>1, <1>3 DEF Moves, DrainSteps

\* A drain that begins, or fails, of a list that is the saved one.
LEMMA DrainMoves ==
  ASSUME IInv, NEW s \in Screens, Alive(s), Moves(s, queue[s]), shown' = shown, faults' \in 0..MaxFaults,
         online' \in BOOLEAN, late' \in SUBSET Items,
         UNCHANGED <<adding, files, unlinking, delivered, history>>
  PROVE  IInv'
<1>. USE DEF IInv
<1>1. QueueTypeOK'
  <2>1. QueueRowsOK'
    BY DEF QueueTypeOK, QueueRowsOK, Moves, history
  <2>2. \A t \in Screens : work'[t] = NoItem <=> step'[t] \in {"gone", "rest"}
    BY DEF QueueTypeOK, Moves
  <2>. QED BY <2>1, <2>2 DEF QueueTypeOK
<1>2. ShownOK'
  BY DEF ShownOK, Moves
<1>3. ASSUME ~overlapped PROVE Alone'
  <2>1. AloneAt(s) /\ \A t \in Screens : t # s => ~Alive(t)
    BY <1>3, AloneOf
  <2>2. queue'[s] = saved' /\ Ids(saved') = Ids(saved) /\ Unique(saved')
    BY <2>1 DEF AloneAt, Moves, QueueTypeOK, QueueRowsOK
  <2>3. AloneAt(s)'
    BY <2>1, <2>2 DEF AloneAt, Moves, history
  <2>. QED BY <1>1, <2>1, <2>3, AloneStep DEF Moves
<1>. QED BY <1>1, <1>2, <1>3 DEF history

-----------------------------------------------------------------------------
\* The screens

LEMMA OpenScreenOK == ASSUME IInv, NEW s \in Screens, OpenScreen(s) PROVE IInv'
<1>. USE DEF IInv
<1>1. Moves(s, saved)
  BY Begins DEF OpenScreen, QueueTypeOK, QueueRowsOK
<1>2. QueueRowsOK'
  BY <1>1 DEF OpenScreen, QueueTypeOK, QueueRowsOK, Moves
<1>3. QueueTypeOK'
  BY <1>1, <1>2 DEF OpenScreen, QueueTypeOK, Moves
<1>4. ShownOK'
  <2>1. step'[s] # "gone"
    <3>1. BeginDrain(s, saved) /\ step \in [Screens -> DrainSteps]
      BY DEF OpenScreen, QueueTypeOK, QueueRowsOK
    <3>. QED BY <3>1 DEF BeginDrain, Store
  <2>. QED BY <2>1 DEF ShownOK, OpenScreen
<1>5. ASSUME ~overlapped' PROVE Alone'
  <2>1. ~overlapped /\ Alone /\ \A t \in Screens : ~Alive(t)
    BY <1>5 DEF OpenScreen
  <2>2. queue'[s] = saved' /\ Ids(saved') = Ids(saved) /\ Unique(saved')
    BY <1>1, <2>1 DEF Alone, Moves, QueueTypeOK, QueueRowsOK
  <2>3. AloneAt(s)'
    BY <1>1, <2>1, <2>2 DEF Alone, AloneAt, Moves, OpenScreen, Alive
  <2>. QED BY <1>1, <1>3, <2>1, <2>3, AloneStep DEF Moves, OpenScreen
<1>. QED BY <1>3, <1>4, <1>5

\* Nothing but screens and drains ends.
LEMMA Ends ==
  ASSUME IInv, QueueTypeOK', ShownOK',
         \A t \in Screens : /\ Alive(t)' => Alive(t) /\ queue'[t] = queue[t]
                            /\ adding'[t] \in {adding[t], NoItem} /\ work'[t] \in {work[t], NoItem}
                            /\ step'[t] \in {step[t], "gone", "lost"},
         unlinking' \subseteq unlinking, delivered \subseteq delivered',
         UNCHANGED <<saved, files, history>>
  PROVE  IInv'
<1>. SUFFICES ASSUME ~overlapped PROVE Alone'
  BY DEF IInv, history
<1>1. Alone
  BY DEF IInv
<1>2. /\ \A s, t \in Screens : Alive(s)' /\ Alive(t)' => s = t
      /\ \A s \in Screens : Alive(s)' => queue'[s] = saved'
  BY <1>1 DEF Alone
<1>3. /\ Unique(saved)' /\ Ids(saved)' \subseteq files' \cap captured'
      /\ unlinking' \subseteq captured' \ Ids(saved)'
      /\ captured' \subseteq Ids(saved)' \cup delivered' \cup discarded'
  BY <1>1 DEF Alone, history
<1>4. \A s \in Screens :
        /\ adding'[s] # NoItem => adding'[s] \in files' \ captured'
        /\ work'[s] # NoItem => work'[s] \in captured'
        /\ step'[s] = "unlink" => work'[s] \notin Ids(saved)'
        /\ step'[s] = "answered" => work'[s] \in delivered'
  <2>. TAKE s \in Screens
  <2>1. /\ adding'[s] \in {adding[s], NoItem} /\ work'[s] \in {work[s], NoItem}
        /\ step'[s] \in {"unlink", "answered"} => step'[s] = step[s] /\ work'[s] # NoItem
    BY DEF QueueTypeOK
  <2>. QED BY <1>1, <2>1 DEF Alone, history
<1>. QED BY <1>2, <1>3, <1>4 DEF Alone

LEMMA LogoutOK == ASSUME IInv, Logout PROVE IInv'
<1>. USE DEF IInv
<1>1. QueueTypeOK' /\ ShownOK'
  BY UploadQueueAssumption
     DEF UploadQueueAssumption, Logout, Leave, QueueTypeOK, QueueRowsOK, ShownOK, history, DrainSteps
<1>. QED BY <1>1, Ends DEF Logout, Leave, QueueTypeOK, QueueRowsOK, Alive

LEMMA KillOK == ASSUME IInv, Kill PROVE IInv'
<1>. USE DEF IInv
<1>0. <<>> \in Seq(QueueEntry) /\ OnTheWay \in SUBSET Items
  BY EmptySeq, SentItems
<1>1. QueueRowsOK'
  BY <1>0, UploadQueueAssumption
     DEF UploadQueueAssumption, Kill, Fault, QueueTypeOK, QueueRowsOK, history, DrainSteps
<1>2. QueueTypeOK' /\ ShownOK'
  BY <1>1, UploadQueueAssumption DEF UploadQueueAssumption, Kill, QueueTypeOK, ShownOK
<1>. QED BY <1>2, Ends DEF Kill, Alive

LEMMA NetDownOK == ASSUME IInv, NetDown PROVE IInv'
<1>. USE DEF IInv
<1>1. QueueTypeOK' /\ ShownOK'
  <2>1. faults' \in 0..MaxFaults
    BY Counted DEF NetDown, QueueTypeOK
  <2>2. step' \in [Screens -> DrainSteps]
    BY DEF NetDown, QueueTypeOK, QueueRowsOK, DrainSteps
  <2>3. QueueRowsOK'
    BY <2>1, <2>2, SentItems DEF NetDown, QueueTypeOK, QueueRowsOK, history
  <2>4. \A s \in Screens : step'[s] \in {"gone", "rest"} <=> step[s] \in {"gone", "rest"}
    BY DEF NetDown
  <2>. QED BY <2>3, <2>4 DEF NetDown, QueueTypeOK, ShownOK
<1>. QED BY <1>1, Ends DEF NetDown, Alive

-----------------------------------------------------------------------------
\* What the user does

LEMMA EnqueueCopyOK ==
  ASSUME IInv, NEW s \in Screens, NEW i \in Items, EnqueueCopy(s, i)
  PROVE  IInv'
<1>. USE DEF IInv
<1>1. QueueTypeOK' /\ ShownOK'
  BY DEF EnqueueCopy, QueueTypeOK, QueueRowsOK, ShownOK, history
<1>2. ASSUME ~overlapped PROVE Alone'
  <2>1. Alive(s)
    BY DEF EnqueueCopy, ShownOK, Alive
  <2>2. AloneAt(s) /\ \A t \in Screens : t # s => ~Alive(t)
    BY <1>2, <2>1, AloneOf
  <2>3. AloneAt(s)'
    BY <2>2 DEF AloneAt, EnqueueCopy, QueueTypeOK, QueueRowsOK, history
  <2>. QED BY <1>1, <2>2, <2>3, AloneStep DEF EnqueueCopy, QueueTypeOK, QueueRowsOK
<1>. QED BY <1>1, <1>2 DEF EnqueueCopy, history

LEMMA EnqueueAddOK == ASSUME IInv, NEW s \in Screens, EnqueueAdd(s) PROVE IInv'
<1>. USE DEF IInv
<1>. DEFINE q == Append(queue[s], [id |-> adding[s], busy |-> FALSE])
<1>0. adding[s] \in Items /\ Alive(s) /\ queue[s] \in Seq(QueueEntry)
  BY DEF EnqueueAdd, QueueTypeOK, QueueRowsOK, Alive
<1>1. /\ q \in Seq(QueueEntry) /\ Ids(q) = Ids(queue[s]) \cup {adding[s]}
      /\ Unique(queue[s]) /\ adding[s] \notin Ids(queue[s]) => Unique(q)
  BY <1>0, Appended
<1>. HIDE DEF q
<1>2. BeginDrain(s, q) \/ (Store(s, q) /\ UNCHANGED <<step, work>>)
  BY DEF EnqueueAdd, q
<1>3. /\ saved' \in Seq(QueueEntry) /\ Ids(saved') = Ids(q) /\ (Unique(q) => Unique(saved'))
      /\ queue' = [queue EXCEPT ![s] = saved']
      /\ step' \in [Screens -> DrainSteps] /\ work' \in [Screens -> Items \cup {NoItem}]
      /\ \A t \in Screens : t # s => step'[t] = step[t] /\ work'[t] = work[t]
      /\ \/ step'[s] = "rest" /\ work'[s] = NoItem
         \/ step'[s] = "send" /\ work'[s] \in Ids(q) \ {NoItem}
         \/ step'[s] = step[s] /\ work'[s] = work[s]
  <2>1. CASE BeginDrain(s, q)
    <3>1. Moves(s, q) /\ step'[s] # "gone"
      BY <1>1, <2>1, Begins DEF BeginDrain, QueueTypeOK, QueueRowsOK
    <3>. QED BY <3>1 DEF Moves
  <2>2. CASE Store(s, q) /\ UNCHANGED <<step, work>>
    BY <1>1, <2>2 DEF Store, QueueTypeOK, QueueRowsOK
  <2>. QED BY <1>2, <2>1, <2>2
<1>4. QueueRowsOK'
  BY <1>0, <1>3 DEF EnqueueAdd, QueueTypeOK, QueueRowsOK
<1>5. QueueTypeOK'
  BY <1>3, <1>4 DEF QueueTypeOK
<1>6. ShownOK'
  BY <1>3 DEF ShownOK, EnqueueAdd
<1>7. ASSUME ~overlapped PROVE Alone'
  <2>1. AloneAt(s) /\ \A t \in Screens : t # s => ~Alive(t)
    BY <1>0, <1>7, AloneOf
  <2>2. /\ queue[s] = saved /\ adding[s] \in files \ captured /\ adding[s] \notin Ids(saved)
        /\ adding'[s] = NoItem /\ captured' = captured \cup {adding[s]}
    BY <2>1 DEF AloneAt, EnqueueAdd, QueueTypeOK, QueueRowsOK
  <2>3. queue'[s] = saved' /\ Ids(saved') = Ids(saved) \cup {adding[s]} /\ Unique(saved')
    BY <1>1, <1>3, <2>1, <2>2 DEF AloneAt, QueueTypeOK, QueueRowsOK
  <2>4. step'[s] = "unlink" => work'[s] \notin Ids(saved')
    BY <1>3, <2>1, <2>2, <2>3 DEF AloneAt, QueueTypeOK
  <2>5. work'[s] # NoItem => work'[s] \in captured'
    BY <1>1, <1>3, <2>1, <2>2 DEF AloneAt
  <2>6. AloneAt(s)'
    BY <1>3, <2>1, <2>2, <2>3, <2>4, <2>5 DEF AloneAt, EnqueueAdd
  <2>. QED BY <1>3, <1>5, <2>1, <2>6, AloneStep DEF EnqueueAdd, QueueTypeOK, QueueRowsOK
<1>. QED BY <1>5, <1>6, <1>7 DEF EnqueueAdd

LEMMA RemoveEntryOK ==
  ASSUME IInv, NEW s \in Screens, NEW i \in Items, RemoveEntry(s, i)
  PROVE  IInv'
<1>. USE DEF IInv
<1>1. /\ saved' = Without(queue[s], i) /\ queue' = [queue EXCEPT ![s] = saved']
      /\ queue[s] \in Seq(QueueEntry) /\ i \in Ids(queue[s])
  BY DEF RemoveEntry, Store, Ids, QueueTypeOK, QueueRowsOK
<1>2. saved' \in Seq(QueueEntry) /\ (Unique(queue[s]) => Unique(saved') /\ Ids(saved') = Ids(queue[s]) \ {i})
  BY <1>1, Removed
<1>3. QueueTypeOK' /\ ShownOK'
  BY <1>1, <1>2 DEF RemoveEntry, QueueTypeOK, QueueRowsOK, ShownOK
<1>4. ASSUME ~overlapped PROVE Alone'
  <2>1. Alive(s)
    BY DEF RemoveEntry, ShownOK, Alive
  <2>2. AloneAt(s) /\ \A t \in Screens : t # s => ~Alive(t)
    BY <1>4, <2>1, AloneOf
  <2>3. queue'[s] = saved' /\ Unique(saved') /\ Ids(saved') = Ids(saved) \ {i} /\ i \in Ids(saved)
    BY <1>1, <1>2, <2>2 DEF AloneAt, QueueTypeOK, QueueRowsOK
  <2>4. AloneAt(s)'
    BY <2>2, <2>3 DEF AloneAt, RemoveEntry
  <2>. QED BY <1>3, <2>2, <2>4, AloneStep DEF RemoveEntry
<1>. QED BY <1>3, <1>4 DEF RemoveEntry

LEMMA RemoveFileOK == ASSUME IInv, NEW i \in Items, RemoveFile(i) PROVE IInv'
<1>. USE DEF IInv
<1>1. QueueTypeOK' /\ ShownOK'
  BY DEF RemoveFile, QueueTypeOK, QueueRowsOK, ShownOK, history
<1>2. Alone => Alone'
  BY DEF Alone, Alive, RemoveFile, history
<1>. QED BY <1>1, <1>2 DEF RemoveFile, history

LEMMA TriggerOK == ASSUME IInv, NEW s \in Screens, Trigger(s) PROVE IInv'
<1>1. Alive(s) /\ Moves(s, queue[s])
  BY Begins DEF Trigger, Alive, IInv, QueueTypeOK, QueueRowsOK
<1>. QED BY <1>1, DrainMoves DEF Trigger, IInv, QueueTypeOK, QueueRowsOK

LEMMA NetUpOK == ASSUME IInv, NetUp PROVE IInv'
<1>1. CASE shown # NoScreen /\ step[shown] = "rest" /\ queue[shown] # <<>>
  <2>1. shown \in Screens /\ Alive(shown) /\ Moves(shown, queue[shown])
    BY <1>1, Begins DEF NetUp, Alive, IInv, QueueTypeOK, QueueRowsOK
  <2>. QED BY <2>1, DrainMoves DEF NetUp, IInv, QueueTypeOK, QueueRowsOK
<1>2. CASE ~(shown # NoScreen /\ step[shown] = "rest" /\ queue[shown] # <<>>)
  <2>1. UNCHANGED <<queue, step, work, saved, adding, files, unlinking, shown, server, faults, history>>
        /\ online' = TRUE
    BY <1>2 DEF NetUp
  <2>2. QueueTypeOK' /\ ShownOK'
    BY <2>1 DEF IInv, QueueTypeOK, QueueRowsOK, ShownOK, history
  <2>. QED BY <2>1, <2>2, Ends DEF Alive
<1>. QED BY <1>1, <1>2

-----------------------------------------------------------------------------
\* The drain

LEMMA SendOK == ASSUME IInv, NEW s \in Screens, Send(s) PROVE IInv'
<1>. USE DEF IInv
<1>1. CASE Fail(s)
  <2>1. Alive(s) /\ Moves(s, queue[s])
    BY <1>1, Fails DEF Send, Alive
  <2>. QED BY <2>1, DrainMoves DEF Send, QueueTypeOK, QueueRowsOK
<1>2. CASE ~Fail(s)
  <2>1. step' = [step EXCEPT ![s] = "sent"] /\ UNCHANGED <<queue, work, saved>> /\ step[s] = "send"
    BY <1>2 DEF Send
  <2>2. QueueTypeOK' /\ ShownOK'
    BY <2>1 DEF Send, QueueTypeOK, QueueRowsOK, ShownOK, history, DrainSteps
  <2>3. Alone => Alone'
    BY <2>1 DEF Send, Alone, Alive, QueueTypeOK, QueueRowsOK, history
  <2>. QED BY <2>2, <2>3 DEF Send, history
<1>. QED BY <1>1, <1>2

LEMMA AcceptOK ==
  ASSUME IInv, NEW s \in Screens, Accept(s)
  PROVE  IInv'
<1>. USE DEF IInv
<1>0. work[s] \in Items
  BY DEF Accept, QueueTypeOK, QueueRowsOK
<1>1. QueueTypeOK' /\ ShownOK'
  BY <1>0 DEF Accept, QueueTypeOK, QueueRowsOK, ShownOK, history, DrainSteps
<1>2. Alone => Alone'
  BY DEF Accept, Alone, Alive, QueueTypeOK, QueueRowsOK, history
<1>. QED BY <1>1, <1>2 DEF Accept, history

LEMMA AcceptLateOK ==
  ASSUME IInv, NEW i \in Items, AcceptLate(i)
  PROVE  IInv'
<1>. USE DEF IInv
<1>1. QueueTypeOK' /\ ShownOK'
  BY DEF AcceptLate, QueueTypeOK, QueueRowsOK, ShownOK, history, phone
<1>2. Alone => Alone'
  BY DEF AcceptLate, Alone, Alive, history, phone
<1>. QED BY <1>1, <1>2 DEF AcceptLate, history

LEMMA RefusedOK ==
  ASSUME IInv, NEW s \in Screens, Refuse(s) \/ Timeout(s)
  PROVE  IInv'
<1>1. Alive(s) /\ Moves(s, queue[s])
  BY Fails DEF Refuse, Timeout, Alive, IInv
<1>2. faults' \in 0..MaxFaults /\ online' \in BOOLEAN
  BY Counted DEF Refuse, Timeout, IInv, QueueTypeOK, QueueRowsOK
<1>3. shown' = shown /\ UNCHANGED <<adding, files, unlinking, delivered, history>>
      /\ late' \in SUBSET Items
  BY DEF Refuse, Timeout, IInv, QueueTypeOK, QueueRowsOK
<1>. QED BY <1>1, <1>2, <1>3, DrainMoves

LEMMA UnauthorizedOK == ASSUME IInv, NEW s \in Screens, Unauthorized(s) PROVE IInv'
<1>. USE DEF IInv
<1>1. /\ saved' = Mark(queue[s], work[s], FALSE) /\ queue' = [queue EXCEPT ![s] = saved']
      /\ queue[s] \in Seq(QueueEntry)
  BY DEF Unauthorized, Store, QueueTypeOK, QueueRowsOK
<1>2. saved' \in Seq(QueueEntry) /\ Ids(saved') = Ids(queue[s]) /\ (Unique(queue[s]) => Unique(saved'))
  BY <1>1, Marked
<1>3. QueueRowsOK'
  <2>1. faults' \in 0..MaxFaults
    BY Counted DEF Unauthorized, QueueTypeOK
  <2>2. step' \in [Screens -> DrainSteps] /\ work' \in [Screens -> Items \cup {NoItem}]
    BY DEF Unauthorized, QueueTypeOK, QueueRowsOK, DrainSteps
  <2>. QED BY <1>1, <1>2, <2>1, <2>2 DEF Unauthorized, QueueTypeOK, QueueRowsOK, history
<1>4. QueueTypeOK' /\ ShownOK'
  BY <1>3, UploadQueueAssumption DEF UploadQueueAssumption, Unauthorized, QueueTypeOK, QueueRowsOK, ShownOK
<1>5. ASSUME ~overlapped PROVE Alone'
  <2>1. AloneAt(s) /\ \A t \in Screens : t # s => ~Alive(t)
    BY <1>5, AloneOf DEF Unauthorized, Alive
  <2>2. queue'[s] = saved' /\ Ids(saved') = Ids(saved) /\ Unique(saved')
    BY <1>1, <1>2, <2>1 DEF AloneAt, QueueTypeOK, QueueRowsOK
  <2>3. step'[s] = "gone" /\ work'[s] = NoItem
    BY DEF Unauthorized, QueueTypeOK, QueueRowsOK
  <2>4. AloneAt(s)'
    BY <2>1, <2>2, <2>3 DEF AloneAt, Unauthorized, history
  <2>5. \A t \in Screens : t # s => step'[t] = step[t]
    BY <2>1 DEF Unauthorized, Alive
  <2>. QED BY <1>4, <2>1, <2>4, <2>5, AloneStep DEF Unauthorized
<1>. QED BY <1>4, <1>5 DEF Unauthorized, history

LEMMA ConfirmOK == ASSUME IInv, NEW s \in Screens, Confirm(s) PROVE IInv'
<1>. USE DEF IInv
<1>1. /\ saved' = Without(queue[s], work[s]) /\ queue' = [queue EXCEPT ![s] = saved']
      /\ queue[s] \in Seq(QueueEntry) /\ step' = [step EXCEPT ![s] = "unlink"]
  BY DEF Confirm, Store, QueueTypeOK, QueueRowsOK
<1>2. saved' \in Seq(QueueEntry)
      /\ (Unique(queue[s]) => Unique(saved') /\ Ids(saved') = Ids(queue[s]) \ {work[s]})
  BY <1>1, Removed
<1>3. QueueTypeOK' /\ ShownOK'
  BY <1>1, <1>2 DEF Confirm, QueueTypeOK, QueueRowsOK, ShownOK, history, DrainSteps
<1>4. ASSUME ~overlapped PROVE Alone'
  <2>1. AloneAt(s) /\ \A t \in Screens : t # s => ~Alive(t)
    BY <1>4, AloneOf DEF Confirm, Alive
  <2>2. queue'[s] = saved' /\ Unique(saved') /\ Ids(saved') = Ids(saved) \ {work[s]}
    BY <1>1, <1>2, <2>1 DEF AloneAt, QueueTypeOK, QueueRowsOK
  <2>3. work[s] \in delivered /\ step'[s] = "unlink"
    BY <1>1, <2>1 DEF AloneAt, Confirm, QueueTypeOK, QueueRowsOK
  <2>4. AloneAt(s)'
    BY <2>1, <2>2, <2>3 DEF AloneAt, Confirm, history
  <2>. QED BY <1>1, <1>3, <2>1, <2>4, AloneStep DEF Confirm, QueueTypeOK, QueueRowsOK
<1>. QED BY <1>3, <1>4 DEF Confirm, history

LEMMA UnlinkOK == ASSUME IInv, NEW s \in Screens, Unlink(s) PROVE IInv'
<1>. USE DEF IInv
<1>1. /\ queue' = [queue EXCEPT ![s] = queue'[s]] /\ queue'[s] \in Seq(QueueEntry) /\ saved' \in Seq(QueueEntry)
      /\ \/ UNCHANGED <<queue, saved>>
         \/ /\ queue'[s] = saved' /\ Ids(saved') = Ids(queue[s])
            /\ Unique(queue[s]) => Unique(saved')
      /\ step' \in [Screens -> DrainSteps] /\ work' \in [Screens -> Items \cup {NoItem}]
      /\ \A t \in Screens : t # s => step'[t] = step[t] /\ work'[t] = work[t]
      /\ \/ step'[s] = "rest" /\ work'[s] = NoItem
         \/ step'[s] = "gone" /\ work'[s] = NoItem /\ s # shown
         \/ step'[s] = "send" /\ work'[s] \in Ids(queue[s]) \ {NoItem}
  <2>1. CASE queue[s] = <<>>
    BY <2>1 DEF Unlink, Rest, QueueTypeOK, QueueRowsOK, DrainSteps
  <2>2. CASE queue[s] # <<>>
    <3>1. Moves(s, queue[s])
      BY <2>2, Begins DEF Unlink, QueueTypeOK, QueueRowsOK
    <3>. QED BY <3>1 DEF Moves, QueueTypeOK, QueueRowsOK
  <2>. QED BY <2>1, <2>2
<1>2. QueueRowsOK'
  BY <1>1 DEF Unlink, QueueTypeOK, QueueRowsOK, history
<1>3. QueueTypeOK' /\ ShownOK'
  BY <1>1, <1>2 DEF Unlink, QueueTypeOK, ShownOK
<1>4. ASSUME ~overlapped PROVE Alone'
  <2>1. AloneAt(s) /\ \A t \in Screens : t # s => ~Alive(t)
    BY <1>4, AloneOf DEF Unlink, Alive
  <2>2. queue'[s] = saved' /\ Ids(saved') = Ids(saved) /\ Unique(saved')
    BY <1>1, <2>1 DEF AloneAt
  <2>3. work[s] \notin Ids(saved) /\ work[s] \in captured /\ files' = files \ {work[s]}
    BY <2>1 DEF AloneAt, Unlink, QueueTypeOK
  <2>4. AloneAt(s)'
    BY <1>1, <2>1, <2>2, <2>3 DEF AloneAt, Unlink, history
  <2>. QED BY <1>1, <1>3, <2>1, <2>4, AloneStep DEF Unlink
<1>. QED BY <1>3, <1>4 DEF Unlink, history

-----------------------------------------------------------------------------
LEMMA NextOK == ASSUME IInv, [QueueNext]_queueVars PROVE IInv'
<1>1. CASE UNCHANGED queueVars
  BY <1>1 DEF queueVars, phone, history, IInv, QueueTypeOK, QueueRowsOK, ShownOK, Alone, Alive
<1>2. CASE QueueNext
  BY <1>2, OpenScreenOK, LogoutOK, KillOK, NetDownOK, NetUpOK, EnqueueCopyOK, EnqueueAddOK,
     RemoveEntryOK, RemoveFileOK, TriggerOK, SendOK, AcceptOK, AcceptLateOK, RefusedOK, UnauthorizedOK,
     ConfirmOK, UnlinkOK DEF QueueNext
<1>. QED BY <1>1, <1>2

LEMMA Invariance == QueueSpec => []IInv
BY InitOK, NextOK, PTL DEF QueueSpec

\* The types of the lists, and that a drain has an entry exactly while it runs.
THEOREM TypeCorrect == QueueSpec => []QueueTypeOK
BY Invariance, PTL DEF IInv

\* No photo the user was told is queued is lost before the server has it or he
\* removes it, through kills, lost answers, refusals and expired sessions, and no
\* entry without its file.
THEOREM QueuedIsKept == QueueSpec => []NothingLost
<1>1. IInv => NothingLost
  BY DEF IInv, Alone, NothingLost, NoDeadEntry, Kept
<1>. QED BY <1>1, Invariance, PTL

\* Every saved entry has its file, so that it can be sent and holds up no other.
THEOREM EntriesCanBeSent == QueueSpec => []NoDeadEntry
<1>1. IInv => NoDeadEntry
  BY DEF IInv, Alone, NoDeadEntry
<1>. QED BY <1>1, Invariance, PTL

-----------------------------------------------------------------------------
(***************************************************************************)
(* The queue implements Outbox.  What is missing for it: that the photo a   *)
(* drain works on is still in the list, for else it would send one that the *)
(* user has removed.  He cannot, because it is shown as "uploading" from    *)
(* the moment its drain turns to it until that ends; what the drain has     *)
(* given up waiting for he can, and the server may store it all the same.   *)
(***************************************************************************)

Sending     == {"send", "sent", "lost", "answered"}
BusyIn(q, i) == \E n \in DOMAIN q : q[n] = [id |-> i, busy |-> TRUE]
InWork       == \A s \in Screens : step[s] \in Sending => BusyIn(saved, work[s])

\* Where the other queue objects send nothing.
LEMMA SentOf ==
  ASSUME NEW s \in Screens,
         \A t \in Screens : t # s => step[t] # "sent" /\ step'[t] # "sent"
  PROVE  /\ OnTheWay = IF step[s] = "sent" THEN {work[s]} ELSE {}
         /\ OnTheWay' = IF step'[s] = "sent" THEN {work'[s]} ELSE {}
BY DEF OnTheWay

\* The lists of the outbox stay, or one of its steps is taken.
BoxMoves == Box!Next \/ UNCHANGED Box!vars

LEMMA BusyIsIn == ASSUME NEW q, NEW i, BusyIn(q, i) PROVE i \in Ids(q)
BY DEF BusyIn, Ids

LEMMA BeginsBusy ==
  ASSUME NEW s \in Screens, NEW q \in Seq(QueueEntry), QueueTypeOK, BeginDrain(s, q), step'[s] \in Sending
  PROVE  BusyIn(saved', work'[s])
<1>1. q # <<>>
  BY DEF BeginDrain, QueueTypeOK, QueueRowsOK, Sending
<1>2. Head(q) \in QueueEntry /\ Head(q) = q[1] /\ 1 \in DOMAIN q
  BY <1>1, HeadTailProperties, LenProperties, EmptySeq
<1>3. saved' = Mark(q, Head(q).id, TRUE) /\ work'[s] = Head(q).id
  BY <1>1 DEF BeginDrain, Store, QueueTypeOK, QueueRowsOK
<1>4. 1 \in DOMAIN saved' /\ saved'[1] = [id |-> Head(q).id, busy |-> TRUE]
  BY <1>2, <1>3 DEF Mark, QueueEntry
<1>. QED BY <1>3, <1>4 DEF BusyIn

\* Where no other queue object is alive, only that of s can be sending.
LEMMA InWorkOf ==
  ASSUME NEW s \in Screens, \A t \in Screens : t # s => ~Alive(t) /\ step'[t] = step[t],
         step'[s] \in Sending => BusyIn(saved', work'[s])
  PROVE  InWork'
BY DEF InWork, Alive, Sending

\* A drain of s begins, fails or goes on; the user sees nothing of it.
LEMMA MovesInBox ==
  ASSUME IInv, ~overlapped, NEW s \in Screens, Moves(s, queue[s]), Alive(s),
         BeginDrain(s, queue[s]) \/ step'[s] \notin Sending,
         late' \in {late, late \cup OnTheWay}, UNCHANGED <<delivered, history>>
  PROVE  InWork' /\ BoxMoves
<1>1. AloneAt(s) /\ \A t \in Screens : t # s => ~Alive(t)
  BY AloneOf DEF IInv
<1>2. Ids(saved') = Ids(saved)
  BY <1>1 DEF AloneAt, Moves
<1>3. BoxMoves
  <2>1. OnTheWay' = {} /\ OnTheWay = IF step[s] = "sent" THEN {work[s]} ELSE {}
    BY <1>1, SentOf DEF Moves, Alive
  <2>2. CASE late' \cup OnTheWay' = late \cup OnTheWay
    BY <1>2, <2>2 DEF BoxMoves, Box!vars, history
  <2>3. CASE late' \cup OnTheWay' # late \cup OnTheWay
    <3>1. late' = late /\ step[s] = "sent" /\ work[s] \notin late /\ OnTheWay = {work[s]}
      BY <2>1, <2>3
    <3>2. work[s] \in Items
      BY <3>1 DEF IInv, QueueTypeOK, QueueRowsOK
    <3>3. late' \cup OnTheWay' = (late \cup OnTheWay) \ {work[s]}
      BY <2>1, <3>1
    <3>4. Box!Refuse(work[s])
      BY <1>2, <3>3 DEF Box!Refuse, history
    <3>. QED BY <3>2, <3>4 DEF BoxMoves, Box!Next
  <2>. QED BY <2>2, <2>3
<1>4. queue[s] \in Seq(QueueEntry) /\ QueueTypeOK
  BY DEF IInv, QueueTypeOK, QueueRowsOK
<1>5. step'[s] \in Sending => BusyIn(saved', work'[s])
  BY <1>4, BeginsBusy
<1>. QED BY <1>1, <1>3, <1>5, InWorkOf DEF Moves

\* The lists stay, and no drain is further than it was.
LEMMA StaysInBox ==
  ASSUME InWork, UNCHANGED <<saved, delivered, history>>, late' \cup OnTheWay' = late \cup OnTheWay,
         \A s \in Screens : step'[s] \in Sending => step[s] \in Sending /\ work'[s] = work[s]
  PROVE  InWork' /\ BoxMoves
BY DEF InWork, BoxMoves, Box!vars, history, BusyIn, Ids

LEMMA OpenInBox ==
  ASSUME IInv, ~overlapped', NEW s \in Screens, OpenScreen(s)
  PROVE  InWork' /\ BoxMoves
<1>1. QueueTypeOK /\ saved \in Seq(QueueEntry) /\ BeginDrain(s, saved)
  BY DEF IInv, QueueTypeOK, QueueRowsOK, OpenScreen
<1>2. Moves(s, saved)
  BY <1>1, Begins
<1>3. step'[s] \in Sending => BusyIn(saved', work'[s])
  BY <1>1, BeginsBusy
<1>4. InWork'
  BY <1>2, <1>3, InWorkOf DEF OpenScreen, Moves
<1>5. UNCHANGED <<delivered, late, captured, discarded, overlapped>>
  BY DEF OpenScreen, IInv, QueueTypeOK, QueueRowsOK
<1>6. OnTheWay' = OnTheWay
  BY <1>2, SentOf DEF OpenScreen, Moves, Alive
<1>. QED BY <1>2, <1>4, <1>5, <1>6 DEF Moves, BoxMoves, Box!vars

LEMMA EnqueueInBox ==
  ASSUME IInv, ~overlapped, InWork, NEW s \in Screens, EnqueueAdd(s)
  PROVE  InWork' /\ BoxMoves
<1>. DEFINE e == [id |-> adding[s], busy |-> FALSE]
            q == Append(queue[s], e)
<1>0. adding[s] \in Items /\ Alive(s) /\ queue[s] \in Seq(QueueEntry) /\ QueueTypeOK
  BY DEF EnqueueAdd, QueueTypeOK, QueueRowsOK, Alive, IInv
<1>1. q \in Seq(QueueEntry) /\ Ids(q) = Ids(queue[s]) \cup {adding[s]}
  BY <1>0, Appended
<1>2. AloneAt(s) /\ \A t \in Screens : t # s => ~Alive(t)
  BY <1>0, AloneOf DEF IInv
<1>3. \A n \in DOMAIN saved : n \in DOMAIN q /\ q[n] = saved[n]
  <2>1. e \in QueueEntry /\ queue[s] = saved
    BY <1>0, <1>2 DEF QueueEntry, AloneAt
  <2>. HIDE DEF e
  <2>. QED BY <1>0, <2>1
<1>4. BeginDrain(s, q) \/ (Store(s, q) /\ UNCHANGED <<step, work>>)
  BY DEF EnqueueAdd
<1>. HIDE DEF q
<1>5. Ids(saved') = Ids(saved) \cup {adding[s]} /\ InWork'
  <2>1. CASE BeginDrain(s, q)
    <3>1. Moves(s, q) /\ (step'[s] \in Sending => BusyIn(saved', work'[s]))
      BY <1>0, <1>1, <2>1, Begins, BeginsBusy
    <3>. QED BY <1>1, <1>2, <3>1, InWorkOf DEF Moves, AloneAt
  <2>2. CASE Store(s, q) /\ UNCHANGED <<step, work>>
    <3>1. saved' = q
      BY <2>2 DEF Store
    <3>2. step'[s] \in Sending => BusyIn(saved', work'[s])
      BY <1>3, <2>2, <3>1 DEF InWork, BusyIn
    <3>. QED BY <1>1, <1>2, <2>2, <3>1, <3>2, InWorkOf DEF AloneAt
  <2>. QED BY <1>4, <2>1, <2>2
<1>6. OnTheWay' = OnTheWay
  <2>1. CASE BeginDrain(s, q)
    <3>1. (Moves(s, q) /\ step[s] = "rest") \/ UNCHANGED <<step, work>>
      BY <1>0, <1>1, <2>1, Begins DEF EnqueueAdd, q
    <3>. QED BY <1>2, <3>1, SentOf DEF Moves, Alive, OnTheWay
  <2>2. CASE UNCHANGED <<step, work>>
    BY <2>2 DEF OnTheWay
  <2>. QED BY <1>4, <2>1, <2>2
<1>7. Box!Capture(adding[s])
  BY <1>2, <1>5, <1>6 DEF EnqueueAdd, AloneAt, Box!Capture
<1>. QED BY <1>0, <1>5, <1>7 DEF BoxMoves, Box!Next

LEMMA RemoveInBox ==
  ASSUME IInv, ~overlapped, InWork, NEW s \in Screens, NEW i \in Items, RemoveEntry(s, i)
  PROVE  InWork' /\ BoxMoves
<1>1. Alive(s) /\ queue[s] \in Seq(QueueEntry)
  BY DEF RemoveEntry, ShownOK, Alive, IInv, QueueTypeOK, QueueRowsOK
<1>2. AloneAt(s) /\ \A t \in Screens : t # s => ~Alive(t)
  BY <1>1, AloneOf DEF IInv
<1>3. saved \in Seq(QueueEntry) /\ Unique(saved) /\ saved' = Without(saved, i)
      /\ UNCHANGED <<step, work>>
  BY <1>1, <1>2 DEF RemoveEntry, Store, AloneAt
<1>4. PICK m \in DOMAIN saved : saved[m] = [id |-> i, busy |-> FALSE]
  BY <1>2 DEF RemoveEntry, AloneAt
<1>5. Ids(saved') = Ids(saved) \ {i}
      /\ \A n \in DOMAIN saved : saved[n].id # i => \E k \in DOMAIN saved' : saved'[k] = saved[n]
  BY <1>3, Removed
<1>6. ASSUME step'[s] \in Sending PROVE BusyIn(saved', work'[s])
  <2>1. PICK n \in DOMAIN saved : saved[n] = [id |-> work[s], busy |-> TRUE]
    BY <1>3, <1>6 DEF InWork, BusyIn
  <2>2. saved[n].busy # saved[m].busy
    BY <1>4, <2>1
  <2>3. saved[n].id # i
    <3>1. saved[m].id = i
      BY <1>4
    <3>2. n # m
      BY <2>2, Zenon
    <3>. QED BY <1>3, <1>4, <2>1, <3>1, <3>2 DEF Unique
  <2>. QED BY <1>3, <1>5, <2>1, <2>3 DEF BusyIn
<1>7. InWork'
  BY <1>2, <1>3, <1>6, InWorkOf
<1>8. OnTheWay' = OnTheWay
  BY <1>3 DEF OnTheWay
<1>9. i \in Ids(saved)
  BY <1>4 DEF Ids
<1>10. Box!Remove(i)
  BY <1>5, <1>8, <1>9 DEF RemoveEntry, Box!Remove
<1>. QED BY <1>7, <1>10 DEF BoxMoves, Box!Next

\* What the server takes was on its way.
LEMMA AcceptInBox ==
  ASSUME IInv, ~overlapped, InWork, NEW s \in Screens, Accept(s)
  PROVE  InWork' /\ BoxMoves
<1>1. Alive(s) /\ work[s] \in Items /\ step' = [step EXCEPT ![s] = "answered"] /\ UNCHANGED <<work, late>>
  BY DEF Accept, Alive, IInv, QueueTypeOK, QueueRowsOK
<1>2. \A t \in Screens : t # s => ~Alive(t)
  BY <1>1, AloneOf DEF IInv
<1>3. InWork'
  BY DEF Accept, InWork, Sending, IInv, QueueTypeOK, QueueRowsOK
<1>4. OnTheWay = {work[s]} /\ OnTheWay' = {}
  BY <1>1, <1>2, SentOf DEF Accept, Alive, IInv, QueueTypeOK, QueueRowsOK
<1>5. work[s] \in late \cup OnTheWay
      /\ late' \cup OnTheWay' \in {late \cup OnTheWay, (late \cup OnTheWay) \ {work[s]}}
  BY <1>1, <1>4
<1>6. Box!Store(work[s])
  BY <1>5 DEF Accept, Box!Store, history
<1>. QED BY <1>1, <1>3, <1>6 DEF BoxMoves, Box!Next

LEMMA AcceptLateInBox ==
  ASSUME InWork, NEW i \in Items, AcceptLate(i)
  PROVE  InWork' /\ BoxMoves
<1>1. UNCHANGED <<saved, step, work>>
  BY DEF AcceptLate, phone
<1>2. InWork' /\ OnTheWay' = OnTheWay
  BY <1>1 DEF InWork, OnTheWay
<1>3. late' \cup OnTheWay' \in {late \cup OnTheWay, (late \cup OnTheWay) \ {i}}
  BY <1>2 DEF AcceptLate
<1>4. Box!Store(i)
  BY <1>1, <1>3 DEF AcceptLate, Box!Store, history
<1>. QED BY <1>2, <1>4 DEF BoxMoves, Box!Next

\* What is let go is in the archive.
LEMMA ConfirmInBox ==
  ASSUME IInv, ~overlapped, InWork, NEW s \in Screens, Confirm(s)
  PROVE  InWork' /\ BoxMoves
<1>1. Alive(s) /\ queue[s] \in Seq(QueueEntry) /\ work[s] \in Items
  BY DEF Confirm, Alive, IInv, QueueTypeOK, QueueRowsOK
<1>2. AloneAt(s) /\ \A t \in Screens : t # s => ~Alive(t)
  BY <1>1, AloneOf DEF IInv
<1>3. Ids(saved') = Ids(saved) \ {work[s]}
  BY <1>1, <1>2, Removed DEF Confirm, Store, AloneAt
<1>4. work[s] \in Ids(saved) \cap delivered
  BY <1>2, BusyIsIn DEF Confirm, AloneAt, InWork, Sending
<1>5. InWork'
  BY <1>2, InWorkOf DEF Confirm, IInv, QueueTypeOK, QueueRowsOK, Sending
<1>6. OnTheWay' = OnTheWay
  BY <1>2, SentOf DEF Confirm, Alive, IInv, QueueTypeOK, QueueRowsOK
<1>7. Box!Release(work[s])
  BY <1>3, <1>4, <1>6 DEF Confirm, Box!Release, history
<1>. QED BY <1>1, <1>5, <1>7 DEF BoxMoves, Box!Next

LEMMA UnauthorizedInBox ==
  ASSUME IInv, ~overlapped, NEW s \in Screens, Unauthorized(s)
  PROVE  InWork' /\ BoxMoves
<1>1. AloneAt(s) /\ \A t \in Screens : t # s => ~Alive(t)
  BY AloneOf DEF Unauthorized, Alive, IInv
<1>2. Ids(saved') = Ids(saved)
  BY <1>1, Marked DEF Unauthorized, Store, AloneAt, IInv, QueueTypeOK, QueueRowsOK
<1>3. InWork'
  BY <1>1 DEF Unauthorized, InWork, Alive, Sending, IInv, QueueTypeOK, QueueRowsOK
<1>4. OnTheWay = {work[s]} /\ OnTheWay' = {} /\ work[s] \in Items
  BY <1>1, SentOf DEF Unauthorized, Alive, IInv, QueueTypeOK, QueueRowsOK
<1>5. CASE work[s] \in late
  <2>1. late' \cup OnTheWay' = late \cup OnTheWay
    BY <1>4, <1>5 DEF Unauthorized
  <2>. QED BY <1>2, <1>3, <2>1 DEF BoxMoves, Box!vars, Unauthorized, history
<1>6. CASE work[s] \notin late
  <2>1. late' \cup OnTheWay' = (late \cup OnTheWay) \ {work[s]}
    BY <1>4, <1>6 DEF Unauthorized
  <2>2. Box!Refuse(work[s])
    BY <1>2, <2>1 DEF Box!Refuse, Unauthorized, history
  <2>. QED BY <1>3, <1>4, <2>2 DEF BoxMoves, Box!Next
<1>. QED BY <1>5, <1>6

LEMMA DrainInBox ==
  ASSUME IInv, ~overlapped, InWork, NEW s \in Screens,
         Trigger(s) \/ Send(s) \/ Refuse(s) \/ Timeout(s) \/ Unlink(s)
  PROVE  InWork' /\ BoxMoves
<1>. USE DEF IInv
<1>0. queue[s] \in Seq(QueueEntry) /\ QueueTypeOK /\ step \in [Screens -> DrainSteps]
  BY DEF QueueTypeOK, QueueRowsOK
<1>1. Alive(s) /\ UNCHANGED <<delivered, history>> /\ late' \in {late, late \cup OnTheWay}
  <2>1. step[s] = "sent" /\ late' = late \cup {work[s]} => late' = late \cup OnTheWay
    <3>1. ASSUME step[s] = "sent" PROVE \A t \in Screens : t # s => step[t] # "sent"
      BY <3>1, AloneOf DEF Alive
    <3>. QED BY <3>1 DEF OnTheWay
  <2>. QED BY <2>1 DEF Trigger, Send, Refuse, Timeout, Unlink, Alive
<1>2. CASE BeginDrain(s, queue[s])
  BY <1>0, <1>1, <1>2, Begins, MovesInBox
<1>3. CASE Fail(s)
  <2>1. step'[s] \notin Sending
    BY <1>0, <1>3 DEF Fail, Rest, Sending
  <2>. QED BY <1>0, <1>1, <1>3, <2>1, Fails, MovesInBox
<1>6. \A t \in Screens : t # s => ~Alive(t)
  BY <1>1, AloneOf
<1>4. CASE Send(s) /\ step' = [step EXCEPT ![s] = "sent"] /\ UNCHANGED <<work, saved>>
  <2>1. OnTheWay = {} /\ OnTheWay' = {work[s]} /\ late' = late /\ work[s] \in Items
    BY <1>0, <1>4, <1>6, SentOf DEF Send, Alive, QueueTypeOK, QueueRowsOK
  <2>2. BusyIn(saved, work[s])
    BY <1>4 DEF Send, InWork, Sending
  <2>3. InWork'
    BY <1>0, <1>4 DEF InWork, Send, Sending
  <2>4. Box!Send(work[s])
    BY <1>1, <1>4, <2>1, <2>2, BusyIsIn DEF Box!Send, history
  <2>. QED BY <2>1, <2>3, <2>4 DEF BoxMoves, Box!Next
<1>5. CASE Unlink(s) /\ Rest(s) /\ UNCHANGED <<queue, saved>>
  <2>1. OnTheWay' = OnTheWay /\ late' = late
    BY <1>0, <1>5, <1>6, SentOf DEF Unlink, Rest, Alive, QueueTypeOK, QueueRowsOK
  <2>. QED BY <1>0, <1>1, <1>5, <2>1, StaysInBox DEF Rest, Sending
<1>. QED BY <1>2, <1>3, <1>4, <1>5 DEF Trigger, Send, Refuse, Timeout, Unlink

LEMMA NetUpInBox ==
  ASSUME IInv, ~overlapped, InWork, NetUp
  PROVE  InWork' /\ BoxMoves
<1>1. CASE shown # NoScreen /\ step[shown] = "rest" /\ queue[shown] # <<>>
  <2>1. /\ shown \in Screens /\ Alive(shown) /\ QueueTypeOK /\ queue[shown] \in Seq(QueueEntry)
        /\ BeginDrain(shown, queue[shown]) /\ UNCHANGED <<delivered, late, history>>
    BY <1>1 DEF NetUp, Alive, IInv, QueueTypeOK, QueueRowsOK
  <2>. QED BY <2>1, Begins, MovesInBox
<1>2. CASE ~(shown # NoScreen /\ step[shown] = "rest" /\ queue[shown] # <<>>)
  <2>1. OnTheWay' = OnTheWay /\ late' = late
    BY <1>2 DEF NetUp, OnTheWay
  <2>. QED BY <1>2, <2>1, StaysInBox DEF NetUp
<1>. QED BY <1>1, <1>2

\* What the network or the app drops is still on its way.
LEMMA DropInBox ==
  ASSUME IInv, Kill \/ NetDown
  PROVE  late' \cup OnTheWay' = late \cup OnTheWay
<1>1. \A s \in Screens : step'[s] # "sent"
  BY DEF Kill, NetDown
<1>2. OnTheWay' = {}
  BY <1>1 DEF OnTheWay
<1>3. late' = late \cup OnTheWay
  BY DEF Kill, NetDown
<1>. QED BY <1>2, <1>3

LEMMA BoxStep ==
  ASSUME IInv, overlapped \/ InWork, [QueueNext]_queueVars
  PROVE  (overlapped' \/ InWork') /\ BoxMoves
<1>1. CASE overlapped'
  BY <1>1 DEF BoxMoves, Box!Next
<1>2. CASE ~overlapped'
  <2>1. ~overlapped /\ InWork
    <3>1. ASSUME NEW s \in Screens, OpenScreen(s) PROVE ~overlapped
      BY <1>2, <3>1 DEF OpenScreen
    <3>2. ASSUME NEW s \in Screens, \/ EnqueueAdd(s) \/ Trigger(s) \/ Send(s)
                 \/ Accept(s) \/ Refuse(s) \/ Unauthorized(s) \/ Timeout(s)
                 \/ Confirm(s) \/ Unlink(s)
                 \/ \E i \in Items : RemoveEntry(s, i) \/ EnqueueCopy(s, i)
          PROVE  overlapped' = overlapped
      BY <3>2 DEF history, EnqueueAdd, Trigger, Send, Accept, Refuse,
         Unauthorized, Timeout, Confirm, Unlink, RemoveEntry, EnqueueCopy
    <3>3. CASE \/ UNCHANGED queueVars \/ Logout \/ Kill \/ NetDown \/ NetUp
               \/ \E i \in Items : RemoveFile(i) \/ AcceptLate(i)
      BY <1>2, <3>3 DEF queueVars, history, Logout, Kill, NetDown, NetUp, RemoveFile, AcceptLate
    <3>. QED BY <1>2, <3>1, <3>2, <3>3 DEF QueueNext
  <2>2. CASE \/ UNCHANGED queueVars \/ Logout \/ Kill \/ NetDown
             \/ \E i \in Items : RemoveFile(i) \/ \E s \in Screens : EnqueueCopy(s, i)
    <3>1. step \in [Screens -> DrainSteps]
      BY DEF IInv, QueueTypeOK, QueueRowsOK
    <3>2. UNCHANGED <<saved, delivered, history>>
      BY <2>2 DEF queueVars, phone, history, Logout, Kill, NetDown, RemoveFile, EnqueueCopy
    <3>3. \A s \in Screens : step'[s] \in Sending => step[s] \in Sending /\ work'[s] = work[s]
      BY <2>2, <3>1 DEF queueVars, phone, Logout, Leave, Kill, NetDown, RemoveFile, EnqueueCopy, Sending
    <3>4. late' \cup OnTheWay' = late \cup OnTheWay
      <4>1. CASE Kill \/ NetDown
        BY <4>1, DropInBox
      <4>2. CASE Logout
        BY <3>1, <4>2 DEF Logout, Leave, OnTheWay, IInv, QueueTypeOK, QueueRowsOK
      <4>3. CASE \/ UNCHANGED queueVars \/ \E i \in Items : RemoveFile(i) \/ \E s \in Screens : EnqueueCopy(s, i)
        BY <4>3 DEF queueVars, phone, RemoveFile, EnqueueCopy, OnTheWay
      <4>. QED BY <2>2, <4>1, <4>2, <4>3
    <3>. QED BY <2>1, <3>2, <3>3, <3>4, StaysInBox
  <2>3. ASSUME NEW s \in Screens, \/ OpenScreen(s) \/ EnqueueAdd(s) \/ Trigger(s) \/ Send(s)
               \/ Accept(s) \/ Refuse(s) \/ Unauthorized(s) \/ Timeout(s)
               \/ Confirm(s) \/ Unlink(s) \/ \E i \in Items : RemoveEntry(s, i)
        PROVE  InWork' /\ BoxMoves
    BY <1>2, <2>1, <2>3, OpenInBox, EnqueueInBox, RemoveInBox, AcceptInBox, ConfirmInBox,
       UnauthorizedInBox, DrainInBox
  <2>4. CASE NetUp
    BY <2>1, <2>4, NetUpInBox
  <2>5. ASSUME NEW i \in Items, AcceptLate(i) PROVE InWork' /\ BoxMoves
    BY <2>1, <2>5, AcceptLateInBox
  <2>. QED BY <2>2, <2>3, <2>4, <2>5 DEF QueueNext
<1>. QED BY <1>1, <1>2

\* The queue keeps the promises of an outbox: nothing leaves it but what the server
\* has or the user removes, nothing comes back, and only what is in it is sent.
THEOREM ImplementsOutbox == QueueSpec => OutboxSpec
<1>1. QueueInit => Box!Init /\ InWork
  BY DEF QueueInit, Box!Init, InWork, Sending, OnTheWay, Ids
<1>2. IInv /\ (overlapped \/ InWork) /\ [QueueNext]_queueVars
      => (overlapped' \/ InWork') /\ [Box!Next]_(Box!vars)
  BY BoxStep DEF BoxMoves
<1>. QED BY <1>1, <1>2, Invariance, PTL DEF QueueSpec, OutboxSpec, Box!Spec
================================================================================
