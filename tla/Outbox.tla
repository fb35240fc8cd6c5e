-------------------------------- MODULE Outbox --------------------------------
(***************************************************************************)
(* What the phone's upload queue promises the user, whatever becomes of the *)
(* app, the network and the answers: a photo he was told is in the outbox   *)
(* stays there until the archive has it or he removes it himself; only what *)
(* is in the outbox is sent, and what has left it never comes back.  What   *)
(* is on its way when he removes it may still arrive.  Where two queue      *)
(* objects write the same list nothing is promised any more.                *)
(***************************************************************************)
CONSTANT Items

VARIABLES
  captured,   \* photos the user was told are in the outbox
  waiting,    \* the outbox
  underway,   \* photos sent of which the archive may take what it has got
  stored,     \* photos the archive has
  removed,    \* photos the user took out himself
  mixed       \* two queue objects have been at work at once

vars == <<captured, waiting, underway, stored, removed, mixed>>

Init ==
  /\ captured = {} /\ waiting = {} /\ underway = {} /\ stored = {} /\ removed = {}
  /\ mixed = FALSE

Capture(i) ==
  /\ i \notin captured
  /\ captured' = captured \cup {i}
  /\ waiting' = waiting \cup {i}
  /\ UNCHANGED <<underway, stored, removed, mixed>>

Send(i) ==
  /\ i \in waiting
  /\ underway' = underway \cup {i}
  /\ UNCHANGED <<captured, waiting, stored, removed, mixed>>

\* The archive takes the photo; the phone may not know of it, and send it again.
Store(i) ==
  /\ i \in underway
  /\ stored' = stored \cup {i}
  /\ underway' \in {underway, underway \ {i}}
  /\ UNCHANGED <<captured, waiting, removed, mixed>>

\* It does not take it.
Refuse(i) ==
  /\ underway' = underway \ {i}
  /\ UNCHANGED <<captured, waiting, stored, removed, mixed>>

\* An answer has told that it is there.
Release(i) ==
  /\ i \in waiting \cap stored
  /\ waiting' = waiting \ {i}
  /\ UNCHANGED <<captured, underway, stored, removed, mixed>>

Remove(i) ==
  /\ i \in waiting
  /\ waiting' = waiting \ {i}
  /\ removed' = removed \cup {i}
  /\ UNCHANGED <<captured, underway, stored, mixed>>

\* Capture asks for more than waiting: a photo enters the outbox once.
Next ==
  \/ mixed'
  \/ \E i \in Items : Capture(i) \/ Send(i) \/ Store(i) \/ Refuse(i) \/ Release(i) \/ Remove(i)

Spec == Init /\ [][Next]_vars
===============================================================================
