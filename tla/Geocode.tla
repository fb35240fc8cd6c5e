-------------------------------- MODULE Geocode --------------------------------
(***************************************************************************)
(* Addresses of positions: internal/httpapi/geocode.go.  One request per    *)
(* second goes to the external service; whoever needs one reserves the next *)
(* free second under a lock and waits for it outside, and keeps it reserved *)
(* when he leaves.  The address found last is used again within five        *)
(* metres; that cache is looked at, and written, under a lock of its own.   *)
(* An address is named by the place it was found or given for.              *)
(***************************************************************************)
EXTENDS Naturals, FiniteSets

CONSTANTS
  Places,
  Near,        \* pairs of places that haversineMeters puts within five metres
  Callers,     \* requests that may need an address together
  MinGap,      \* geocodeMinGap, in ticks
  MaxWait,     \* bound: ticks that slots are reserved ahead
  NoPlace

ASSUME GeocodeAssumption ==
  /\ IsFiniteSet(Callers)
  /\ MinGap \in Nat \ {0} /\ MaxWait \in Nat
  /\ NoPlace \notin Places
  /\ Near \subseteq Places \X Places
  /\ \A p \in Places : <<p, p>> \in Near
  /\ \A p, q \in Places : <<p, q>> \in Near => <<q, p>> \in Near

VARIABLES
  ahead,       \* ticks until the next slot that is not reserved: lastGeocode
  cache,       \* addrCache with addrCacheLat and addrCacheLon
  lookup       \* what each caller is doing

geoVars == <<ahead, cache, lookup>>

Address == Places \cup {NoPlace}
Cached  == [at: Address, address: Address]
\* "wait": for its slot; "ask": for the answer of the service; "done": has gone
\* on, with the address or without; "keeps": what is found goes to the cache.
Lookup  == [step: {"idle", "wait", "ask", "done"}, place: Address, left: Nat,
            keeps: BOOLEAN, address: Address]

NoLookup == [step |-> "idle", place |-> NoPlace, left |-> 0, keeps |-> FALSE,
             address |-> NoPlace]

GeoInit ==
  /\ ahead = 0
  /\ cache = [at |-> NoPlace, address |-> NoPlace]
  /\ lookup = [q \in Callers |-> NoLookup]

\* Mutant: the next slot is counted from now and not from the one given last
waitGeocodeSlotNow(q, r) ==
  /\ ahead <= MaxWait
  /\ ahead' = MinGap
  /\ lookup' = [lookup EXCEPT
       ![q] = [r EXCEPT !.step = IF ahead = 0 THEN "ask" ELSE "wait", !.left = ahead]]

\* The slot to come is taken, and at once where it has come already.
waitGeocodeSlot(q, r) ==
  /\ ahead <= MaxWait
  /\ ahead' = ahead + MinGap
  /\ lookup' = [lookup EXCEPT
       ![q] = [r EXCEPT !.step = IF ahead = 0 THEN "ask" ELSE "wait", !.left = ahead]]

cachedAddressNear(p) == IF <<cache.at, p>> \in Near THEN cache.address ELSE NoPlace

rememberResolvedAddress(p, address) == cache' = [at |-> p, address |-> address]

\* Mutant.
ReuseRemembers(q, p) ==
  /\ lookup' = [lookup EXCEPT
       ![q] = [NoLookup EXCEPT !.step = "done", !.place = p, !.address = cachedAddressNear(p)]]
  /\ rememberResolvedAddress(p, cachedAddressNear(p))
  /\ UNCHANGED ahead

\* What is used again is not remembered for the place it is used at.
Reuse(q, p) ==
  /\ lookup' = [lookup EXCEPT
       ![q] = [NoLookup EXCEPT !.step = "done", !.place = p, !.address = cachedAddressNear(p)]]
  /\ UNCHANGED <<ahead, cache>>

lookupAddress(q, p) ==
  /\ lookup[q].step = "idle"
  /\ IF cachedAddressNear(p) # NoPlace THEN Reuse(q, p)
     ELSE /\ waitGeocodeSlot(q, [NoLookup EXCEPT !.place = p, !.keeps = TRUE])
          /\ UNCHANGED cache

\* The handlers geocode and reverseGeocode use a slot and only show what they find.
ShowAddress(q) ==
  /\ lookup[q].step = "idle"
  /\ waitGeocodeSlot(q, NoLookup)
  /\ UNCHANGED cache

\* The client leaves or two minutes are over.
SlotCancelled(q) ==
  /\ lookup[q].step = "wait"
  /\ lookup' = [lookup EXCEPT ![q].step = "done", ![q].left = 0]
  /\ UNCHANGED <<ahead, cache>>

\* fetchNominatimHit and what lookupAddress does with the answer: an address, or
\* none when there is none, the service fails or five seconds have passed.
fetchNominatimHit(q, found) ==
  /\ lookup[q].step = "ask"
  /\ found \in {lookup[q].place, NoPlace}
  /\ lookup' = [lookup EXCEPT ![q].step = "done", ![q].address = found]
  /\ IF lookup[q].keeps /\ found # NoPlace THEN rememberResolvedAddress(lookup[q].place, found)
     ELSE UNCHANGED cache
  /\ UNCHANGED ahead

\* savePhoto and patchRecord remember an address that comes with the position.
Supplied(p) == rememberResolvedAddress(p, p) /\ UNCHANGED <<ahead, lookup>>

LookupEnds(q) ==
  /\ lookup[q].step = "done"
  /\ lookup' = [lookup EXCEPT ![q] = NoLookup]
  /\ UNCHANGED <<ahead, cache>>

\* Time passes, and the timers of those whose slot has come fire.
GeoTick ==
  /\ ahead > 0
  /\ ahead' = ahead - 1
  /\ lookup' = [q \in Callers |->
       IF lookup[q].left > 1 THEN [lookup[q] EXCEPT !.left = @ - 1]
       ELSE IF lookup[q].left = 1 THEN [lookup[q] EXCEPT !.left = 0, !.step = "ask"]
       ELSE lookup[q]]
  /\ UNCHANGED cache

-----------------------------------------------------------------------------
\* Properties

\* The type invariant.
GeoTypeOK ==
  /\ ahead \in Nat
  /\ cache \in Cached
  /\ lookup \in [Callers -> Lookup]

Waiting == {q \in Callers : lookup[q].step = "wait"}

\* The slots that are waited for lie a second apart, none of them is one that
\* will be given to the next caller, and nobody can take one at once while
\* another still waits, whoever leaves his slot unused.
SlotsApart ==
  \A q \in Waiting :
    /\ lookup[q].left + MinGap <= ahead
    /\ \A o \in Waiting \ {q} :
         \/ lookup[q].left >= lookup[o].left + MinGap
         \/ lookup[o].left >= lookup[q].left + MinGap

\* The address a caller gets was found or given for a place within five metres
\* of his own: a series of photos, each taken close to the one before, does not
\* carry an address away.
AddressNear ==
  \A q \in Callers :
    lookup[q].address # NoPlace => <<lookup[q].address, lookup[q].place>> \in Near
================================================================================
