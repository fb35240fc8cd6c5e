------------------------------ MODULE ServerProofs ------------------------------
(***************************************************************************)
(* Proofs about what the server keeps in memory: LoginLimit, for any        *)
(* numbers of machines, names, requests and failures, and any sizes of the  *)
(* maps; and Engine, for any set of users of the search.                    *)
(***************************************************************************)
EXTENDS LoginLimit, Engine, FiniteSetTheorems, TLAPS

-----------------------------------------------------------------------------
\* The limit on logins

\* A bucket is locked if and only if it has counted enough.
BucketOK ==
  \A k \in Keys : bucket[k] # NoBucket => (bucket[k].locked <=> bucket[k].fails >= MaxFails)

IInv == LoginTypeOK /\ BucketOK /\ AttemptsBounded

Assumed ==
  /\ IsFiniteSet(Hosts) /\ IsFiniteSet(Names) /\ IsFiniteSet(Logins) /\ Names \cap Hosts = {}
  /\ Proxy \in Hosts
  /\ MaxFails \in Nat \ {0} /\ LockFor \in Nat \ {0} /\ NoBucket \notin Bucket
  /\ NoLogin \notin Login

LEMMA AssumedOK == Assumed
<1>1. \A b \in Bucket : b \in [fails: Nat, left: Nat, locked: BOOLEAN]
  BY LoginAssumption DEF LoginAssumption, Bucket
<1>. QED BY <1>1, LoginAssumption DEF LoginAssumption, Assumed, Login, Keys

-----------------------------------------------------------------------------
\* Buckets

BucketsType == [Keys -> Bucket \cup {NoBucket}]

LEMMA BumpedType ==
  ASSUME NEW n \in Nat \ {0}
  PROVE  /\ Bumped(n) \in Bucket /\ Bumped(n) # NoBucket
         /\ Bumped(n).fails = n /\ (Bumped(n).locked <=> n >= MaxFails)
         /\ n >= MaxFails => Bumped(n).left > 0
<1>1. Bumped(n) = [fails |-> n, locked |-> n >= MaxFails, left |-> IF n >= MaxFails THEN LockFor ELSE 0]
  BY DEF Bumped
<1>2. /\ (IF n >= MaxFails THEN LockFor ELSE 0) \in 0..LockFor /\ n \in Nat
      /\ (n >= MaxFails) \in BOOLEAN /\ LockFor > 0 /\ MaxFails \in Nat
  BY AssumedOK DEF Assumed
<1>3. Bumped(n) \in Bucket /\ Bumped(n).fails = n
  BY <1>1, <1>2 DEF Bucket
<1>4. Bumped(n).locked <=> n >= MaxFails
  <2>1. ASSUME NEW r, NEW l, NEW m \in Nat, r = [fails |-> n, locked |-> n >= m, left |-> l]
        PROVE  r.locked <=> n >= m
    BY <2>1
  <2>. QED BY <1>1, <1>2, <2>1
<1>5. n >= MaxFails => Bumped(n).left > 0
  BY <1>1, <1>2
<1>. QED BY <1>3, <1>4, <1>5, AssumedOK DEF Assumed

\* What sweeping and looking leave of a map: each bucket as it was or none, and one
\* that is locked unless the map is too large.
LEMMA Swept ==
  ASSUME NEW b \in BucketsType, NEW K \in {Hosts, Names}
  PROVE  /\ gcBuckets(b, K) \in BucketsType
         /\ \A k \in Keys : gcBuckets(b, K)[k] \in {b[k], NoBucket}
         /\ \A k \in Keys \ K : gcBuckets(b, K)[k] = b[k]
         /\ \A k \in K : Locked(b, k) /\ gcBuckets(b, K)[k] = NoBucket => SizeOf(b, K) > ClearAt
<1>. DEFINE kept == Without(b, {k \in K : Expired(b, k)})
<1>0. K \subseteq Keys /\ IsFiniteSet(K)
  BY AssumedOK DEF Keys, Assumed
<1>1. /\ kept \in BucketsType /\ Without(b, K) \in BucketsType
      /\ \A k \in Keys : kept[k] \in {b[k], NoBucket} /\ Without(b, K)[k] \in {b[k], NoBucket}
      /\ \A k \in Keys \ K : kept[k] = b[k] /\ Without(b, K)[k] = b[k]
      /\ \A k \in Keys : Locked(b, k) => kept[k] = b[k]
  BY DEF Without, BucketsType, Locked, Expired, Bucket
<1>2. SizeOf(kept, K) > ClearAt => SizeOf(b, K) > ClearAt
  <2>1. {k \in K : kept[k] # NoBucket} \subseteq {k \in K : b[k] # NoBucket}
    BY <1>0, <1>1
  <2>2. IsFiniteSet({k \in K : b[k] # NoBucket})
    BY <1>0, FS_Subset
  <2>3. /\ Cardinality({k \in K : kept[k] # NoBucket}) \in Nat
        /\ Cardinality({k \in K : b[k] # NoBucket}) \in Nat
        /\ Cardinality({k \in K : kept[k] # NoBucket}) <= Cardinality({k \in K : b[k] # NoBucket})
    BY <2>1, <2>2, FS_Subset, FS_CardinalityType
  <2>4. ClearAt \in Nat
    BY LoginAssumption DEF LoginAssumption
  <2>. QED BY <2>3, <2>4 DEF SizeOf
<1>3. gcBuckets(b, K) \in {b, kept, Without(b, K)}
      /\ (gcBuckets(b, K) = Without(b, K) =>
            gcBuckets(b, K) \in {b, kept} \/ SizeOf(kept, K) > ClearAt)
  BY DEF gcBuckets
<1>4. \A k \in K : Locked(b, k) => b[k] # NoBucket
  BY DEF Locked
<1>. QED BY <1>0, <1>1, <1>2, <1>3, <1>4

LEMMA LookedAt ==
  ASSUME NEW b \in BucketsType, NEW k \in Keys
  PROVE  /\ Looked(b, k) \in BucketsType
         /\ \A j \in Keys : Looked(b, k)[j] \in {b[j], NoBucket}
         /\ \A j \in Keys : Locked(b, j) => Looked(b, k)[j] = b[j]
         /\ ~Locked(b, k) => Looked(b, k)[k] = NoBucket \/ ~Looked(b, k)[k].locked
BY DEF Looked, Without, BucketsType, Locked, Expired, Bucket

\* The address of a client is one of a machine.
LEMMA AddressIsHost == ASSUME NEW h \in Hosts, NEW a \in AddressesOf(h) PROVE a \in Hosts
BY AssumedOK DEF AddressesOf, ClientAddr, forwardedClientIP, Assumed

-----------------------------------------------------------------------------
\* What is counted for k and what is compared
Fails(k) == IF bucket[k] = NoBucket THEN 0 ELSE bucket[k].fails

LEMMA ComparedType ==
  ASSUME NEW k
  PROVE  /\ IsFiniteSet(ComparedFor(k)) /\ Cardinality(ComparedFor(k)) \in Nat
         /\ Cardinality(ComparedFor(k)) <= Cardinality(Logins) /\ Cardinality(Logins) \in Nat
BY AssumedOK, FS_Subset, FS_CardinalityType DEF ComparedFor, Assumed

LEMMA ComparedType2 ==
  ASSUME NEW k
  PROVE  /\ IsFiniteSet(ComparedFor(k)') /\ Cardinality(ComparedFor(k)') \in Nat
         /\ Cardinality(ComparedFor(k)') <= Cardinality(Logins)
BY AssumedOK, FS_Subset, FS_CardinalityType DEF ComparedFor, Assumed

LEMMA LoginInitOK == LoginInit => IInv
<1>. SUFFICES ASSUME LoginInit PROVE IInv
  OBVIOUS
<1>1. LoginTypeOK /\ BucketOK
  BY AssumedOK DEF LoginInit, LoginTypeOK, BucketOK, Assumed
<1>2. AttemptsBounded
  BY AssumedOK, ComparedType DEF LoginInit, AttemptsBounded, Assumed
<1>. QED BY <1>1, <1>2 DEF IInv

\* An attempt leaves of the buckets what sweeping and looking leave, and where it
\* is let in, the two buckets it has looked at are not locked.
LEMMA AttemptBuckets ==
  ASSUME IInv, NEW q \in Logins, NEW h \in Hosts, NEW u \in Names, NEW a \in AddressesOf(h),
         Attempt(q, h, a, u)
  PROVE  /\ bucket' \in BucketsType
         /\ \A k \in Keys : bucket'[k] \in {bucket[k], NoBucket}
         /\ \A K \in {Hosts, Names} : \A k \in K :
              Locked(bucket, k) /\ bucket'[k] = NoBucket => SizeOf(bucket, K) > ClearAt
         /\ \/ UNCHANGED login
            \/ /\ login' = [login EXCEPT ![q] = [host |-> h, keys |-> {a, u}, name |-> u]]
               /\ \A k \in {a, u} : bucket'[k] = NoBucket \/ ~bucket'[k].locked
<1>. DEFINE first == gcBuckets(bucket, Hosts)
            swept == gcBuckets(first, Names)
            seen  == Looked(swept, a)
            both  == Looked(seen, u)
<1>0. a \in Keys /\ u \in Keys /\ a \in Hosts /\ Hosts \cup Names = Keys /\ Hosts \cap Names = {}
  BY AddressIsHost, AssumedOK DEF Keys, Assumed
<1>1. bucket \in BucketsType
  BY DEF IInv, LoginTypeOK, BucketsType
<1>2. /\ first \in BucketsType
      /\ \A k \in Keys : first[k] \in {bucket[k], NoBucket}
      /\ \A k \in Names : first[k] = bucket[k]
      /\ \A k \in Hosts : Locked(bucket, k) /\ first[k] = NoBucket => SizeOf(bucket, Hosts) > ClearAt
  BY <1>0, <1>1, Swept
<1>3. SizeOf(first, Names) = SizeOf(bucket, Names)
  BY <1>2 DEF SizeOf
<1>4. /\ swept \in BucketsType
      /\ \A k \in Keys : swept[k] \in {bucket[k], NoBucket}
      /\ \A k \in Hosts : Locked(bucket, k) /\ swept[k] = NoBucket => SizeOf(bucket, Hosts) > ClearAt
      /\ \A k \in Names : Locked(bucket, k) /\ swept[k] = NoBucket => SizeOf(bucket, Names) > ClearAt
  <2>1. /\ swept \in BucketsType
        /\ \A k \in Keys : swept[k] \in {first[k], NoBucket}
        /\ \A k \in Hosts : swept[k] = first[k]
        /\ \A k \in Names : Locked(first, k) /\ swept[k] = NoBucket => SizeOf(first, Names) > ClearAt
    BY <1>0, <1>2, Swept
  <2>2. \A k \in Names : Locked(bucket, k) => Locked(first, k)
    BY <1>2 DEF Locked
  <2>. QED BY <1>0, <1>2, <1>3, <2>1, <2>2
<1>5. /\ seen \in BucketsType /\ \A k \in Keys : seen[k] \in {swept[k], NoBucket}
      /\ \A k \in Keys : Locked(swept, k) => seen[k] = swept[k]
      /\ ~Locked(swept, a) => seen[a] = NoBucket \/ ~seen[a].locked
  BY <1>0, <1>4, LookedAt
<1>6. /\ both \in BucketsType /\ \A k \in Keys : both[k] \in {seen[k], NoBucket}
      /\ \A k \in Keys : Locked(seen, k) => both[k] = seen[k]
      /\ ~Locked(seen, u) => both[u] = NoBucket \/ ~both[u].locked
  BY <1>0, <1>5, LookedAt
<1>7. \A k \in Keys : Locked(bucket, k) /\ swept[k] # NoBucket =>
        seen[k] = swept[k] /\ both[k] = swept[k]
  BY <1>4, <1>5, <1>6 DEF Locked
<1>8. bucket' \in {swept, seen, both}
  BY DEF Attempt
<1>9. \/ UNCHANGED login
      \/ /\ login' = [login EXCEPT ![q] = [host |-> h, keys |-> {a, u}, name |-> u]]
         /\ bucket' = both /\ ~Locked(swept, a) /\ ~Locked(seen, u)
  BY DEF Attempt
<1>10. \A k \in Keys : Locked(bucket, k) => bucket[k] # NoBucket
  BY DEF Locked
<1>. QED BY <1>0, <1>4, <1>5, <1>6, <1>7, <1>8, <1>9, <1>10

LEMMA AttemptOK ==
  ASSUME IInv, NEW q \in Logins, NEW h \in Hosts, NEW u \in Names, NEW a \in AddressesOf(h),
         Attempt(q, h, a, u)
  PROVE  IInv'
<1>. USE DEF IInv
<1>1. /\ bucket' \in BucketsType
      /\ \A k \in Keys : bucket'[k] \in {bucket[k], NoBucket}
      /\ \/ UNCHANGED login
         \/ /\ login' = [login EXCEPT ![q] = [host |-> h, keys |-> {a, u}, name |-> u]]
            /\ \A k \in {a, u} : bucket'[k] = NoBucket \/ ~bucket'[k].locked
  BY AttemptBuckets
<1>2. [host |-> h, keys |-> {a, u}, name |-> u] \in Login
  BY AddressIsHost DEF Login, Keys
<1>3. LoginTypeOK'
  BY <1>1, <1>2 DEF LoginTypeOK, BucketsType, Attempt
<1>4. BucketOK'
  BY <1>1 DEF BucketOK
<1>5. \A k \in Keys : Fails(k)' \in Nat /\ Fails(k) \in Nat /\ Fails(k)' <= Fails(k)
  BY <1>1, <1>3 DEF Fails, LoginTypeOK, Bucket
<1>6. ASSUME NEW k \in Keys PROVE Fails(k)' + Cardinality(ComparedFor(k)') <= MaxFails - 1 + Cardinality(Logins)
  <2>1. CASE ComparedFor(k)' = ComparedFor(k)
    BY <1>5, <2>1, ComparedType, AssumedOK DEF AttemptsBounded, Fails, Assumed
  <2>2. CASE ComparedFor(k)' # ComparedFor(k)
    <3>1. k \in {a, u}
      <4>1. ASSUME k \notin {a, u} PROVE ComparedFor(k)' = ComparedFor(k)
        <5>1. login[q] = NoLogin
          BY DEF Attempt
        <5>2. \A p \in Logins : login'[p] = login[p] \/ (p = q /\ login'[p].keys = {a, u})
          BY <1>1 DEF LoginTypeOK
        <5>. QED BY <4>1, <5>1, <5>2 DEF ComparedFor
      <4>. QED BY <2>2, <4>1
    <3>2. bucket'[k] = NoBucket \/ ~bucket'[k].locked
      BY <1>1, <2>2, <3>1 DEF ComparedFor
    <3>3. Fails(k)' <= MaxFails - 1
      BY <1>3, <1>4, <3>2, AssumedOK DEF Fails, BucketOK, LoginTypeOK, Bucket, Assumed
    <3>4. /\ Cardinality(ComparedFor(k)') \in Nat /\ Cardinality(Logins) \in Nat
          /\ Cardinality(ComparedFor(k)') <= Cardinality(Logins)
      BY ComparedType, ComparedType2
    <3>. QED BY <1>5, <3>3, <3>4, AssumedOK DEF Assumed
  <2>. QED BY <2>1, <2>2
<1>7. AttemptsBounded'
  BY <1>6 DEF AttemptsBounded, Fails
<1>. QED BY <1>3, <1>4, <1>7

LEMMA AnswerOK ==
  ASSUME IInv, NEW q \in Logins, NEW answer, Answer(q, answer)
  PROVE  IInv'
<1>. USE DEF IInv
<1>1. login[q] \in Login /\ login' = [login EXCEPT ![q] = NoLogin] /\ login[q].keys \subseteq Keys
  BY DEF Answer, LoginTypeOK, Login
<1>2. ASSUME NEW k \in Keys
      PROVE  \/ bucket'[k] \in {bucket[k], NoBucket}
             \/ k \in login[q].keys /\ bucket'[k] = Bumped(Fails(k) + 1)
  <2>1. \/ bucket'[k] \in {bucket[k], NoBucket}
        \/ k \in login[q].keys /\ bucket'[k] = bumpBucket(bucket, k)
    BY DEF Answer, Failed, Without, LoginTypeOK
  <2>2. bumpBucket(bucket, k) = Bumped(Fails(k) + 1)
    BY AssumedOK DEF bumpBucket, Fails, LoginTypeOK, Bucket, Assumed
  <2>. QED BY <2>1, <2>2
<1>3. \A k \in Keys : Fails(k) \in Nat
  BY DEF Fails, LoginTypeOK, Bucket
<1>4. \A k \in Keys : bucket'[k] \in Bucket \cup {NoBucket}
  BY <1>2, <1>3, BumpedType DEF LoginTypeOK
<1>5. bucket' \in BucketsType
  <2>1. bucket' = [k \in Keys |-> bucket'[k]]
    BY DEF Answer, Failed, Without, LoginTypeOK
  <2>. QED BY <1>4, <2>1 DEF BucketsType
<1>6. failedFrom' \in [Hosts -> 0..MaxFails]
  BY <1>1, AssumedOK DEF Answer, LoginTypeOK, Login, Assumed
<1>7. LoginTypeOK'
  BY <1>1, <1>5, <1>6 DEF LoginTypeOK, BucketsType
<1>8. BucketOK'
  BY <1>2, <1>3, BumpedType DEF BucketOK
<1>9. ASSUME NEW k \in Keys PROVE Fails(k)' + Cardinality(ComparedFor(k)') <= MaxFails - 1 + Cardinality(Logins)
  <2>1. ComparedFor(k)' = ComparedFor(k) \ {q}
    BY <1>1 DEF ComparedFor, LoginTypeOK
  <2>2. IF q \in ComparedFor(k) THEN Cardinality(ComparedFor(k)') = Cardinality(ComparedFor(k)) - 1
        ELSE Cardinality(ComparedFor(k)') = Cardinality(ComparedFor(k))
    BY <2>1, ComparedType, FS_RemoveElement
  <2>3. k \in login[q].keys => q \in ComparedFor(k)
    BY DEF ComparedFor, Answer
  <2>4. \/ Fails(k)' <= Fails(k)
        \/ k \in login[q].keys /\ Fails(k)' = Fails(k) + 1
    BY <1>2, <1>3, BumpedType DEF Fails
  <2>5. Fails(k)' \in Nat
    BY <1>7 DEF Fails, LoginTypeOK, Bucket
  <2>6. Fails(k) + Cardinality(ComparedFor(k)) <= MaxFails - 1 + Cardinality(Logins)
    BY DEF AttemptsBounded, Fails
  <2>. QED BY <1>3, <2>2, <2>3, <2>4, <2>5, <2>6, ComparedType, ComparedType2, AssumedOK DEF Assumed
<1>10. AttemptsBounded'
  BY <1>9 DEF AttemptsBounded, Fails
<1>. QED BY <1>7, <1>8, <1>10

LEMMA TickOK == ASSUME IInv, LoginTick PROVE IInv'
<1>. USE DEF IInv
<1>1. \A k \in Keys :
        \/ bucket'[k] = bucket[k]
        \/ /\ bucket[k] \in Bucket /\ bucket[k].left \in 1..LockFor
           /\ bucket'[k] = [bucket[k] EXCEPT !.left = @ - 1]
  BY AssumedOK DEF LoginTick, Locked, LoginTypeOK, Bucket, Assumed
<1>2. \A k \in Keys :
        /\ bucket'[k] \in Bucket \cup {NoBucket}
        /\ bucket'[k] = NoBucket <=> bucket[k] = NoBucket
        /\ bucket[k] # NoBucket => bucket'[k].fails = bucket[k].fails /\ bucket'[k].locked = bucket[k].locked
  <2>. SUFFICES ASSUME NEW k \in Keys
                PROVE  /\ bucket'[k] \in Bucket \cup {NoBucket}
                       /\ bucket'[k] = NoBucket <=> bucket[k] = NoBucket
                       /\ bucket[k] # NoBucket =>
                            bucket'[k].fails = bucket[k].fails /\ bucket'[k].locked = bucket[k].locked
    OBVIOUS
  <2>1. CASE bucket'[k] = bucket[k]
    BY <2>1 DEF LoginTypeOK
  <2>2. CASE bucket'[k] # bucket[k]
    <3>1. /\ bucket[k] \in Bucket /\ bucket[k].left - 1 \in 0..LockFor
          /\ bucket'[k] = [bucket[k] EXCEPT !.left = bucket[k].left - 1]
      BY <1>1, <2>2, AssumedOK DEF Assumed
    <3>2. /\ bucket'[k] \in Bucket
          /\ bucket'[k].fails = bucket[k].fails /\ bucket'[k].locked = bucket[k].locked
      BY <3>1 DEF Bucket
    <3>. QED BY <3>1, <3>2, AssumedOK DEF Assumed
  <2>. QED BY <2>1, <2>2
<1>3. LoginTypeOK'
  BY <1>2 DEF LoginTypeOK, LoginTick
<1>4. BucketOK' /\ AttemptsBounded'
  BY <1>2 DEF BucketOK, AttemptsBounded, ComparedFor, LoginTick
<1>. QED BY <1>3, <1>4

LEMMA LoginNextOK == ASSUME IInv, [LoginNext]_loginVars PROVE IInv'
<1>1. CASE UNCHANGED loginVars
  BY <1>1 DEF loginVars, IInv, LoginTypeOK, BucketOK, AttemptsBounded, ComparedFor
<1>2. CASE LoginNext
  BY <1>2, AttemptOK, AnswerOK, TickOK DEF LoginNext
<1>. QED BY <1>1, <1>2

LEMMA Invariance == LoginSpec => []IInv
BY LoginInitOK, LoginNextOK, PTL DEF LoginSpec

\* The types of the buckets and of the logins in progress.
THEOREM TypeCorrect == LoginSpec => []LoginTypeOK
BY Invariance, PTL DEF IInv

\* However logins are compared at the same time, no more of them are tried in a row
\* for an address or a name than the limit and what may be compared together.
THEOREM AttemptsAreBounded == LoginSpec => []AttemptsBounded
BY Invariance, PTL DEF IInv

-----------------------------------------------------------------------------
\* What an answer leaves of a bucket, for the two properties of locks
LEMMA AnswerBuckets ==
  ASSUME IInv, NEW q \in Logins, NEW answer, Answer(q, answer), NEW k \in Keys
  PROVE  \/ bucket'[k] = bucket[k]
         \/ k \in login[q].keys /\ q \in ComparedFor(k) /\ bucket'[k] = NoBucket
         \/ k \in login[q].keys /\ answer = "invalid" /\ bucket'[k] = Bumped(Fails(k) + 1)
<1>1. \/ bucket'[k] = bucket[k]
      \/ k \in login[q].keys /\ bucket'[k] = NoBucket
      \/ k \in login[q].keys /\ answer = "invalid" /\ bucket'[k] = bumpBucket(bucket, k)
  BY DEF Answer, Failed, Without, IInv, LoginTypeOK
<1>2. bumpBucket(bucket, k) = Bumped(Fails(k) + 1)
  BY AssumedOK DEF bumpBucket, Fails, IInv, LoginTypeOK, Bucket, Assumed
<1>. QED BY <1>1, <1>2 DEF Answer, ComparedFor

\* A lock ends before its time only by a success let in before it or by clearing.
THEOREM LocksAreKept == LoginSpec => LockKept
<1>. DEFINE Ended(k) ==
       \/ bucket[k].left = 1 /\ bucket'[k] # NoBucket
       \/ \E q \in ComparedFor(k) : login'[q] = NoLogin
       \/ \E K \in {Hosts, Names} : k \in K /\ SizeOf(bucket, K) > ClearAt
<1>1. ASSUME IInv, [LoginNext]_loginVars, NEW k \in Keys, Locked(bucket, k), ~Locked(bucket', k)
      PROVE  Ended(k)
  <2>. USE <1>1
  <2>1. bucket[k] \in Bucket /\ bucket[k].fails >= MaxFails /\ Fails(k) = bucket[k].fails
    BY DEF IInv, LoginTypeOK, BucketOK, Locked, Fails
  <2>2. ASSUME NEW q \in Logins, NEW h \in Hosts, NEW u \in Names, NEW a \in AddressesOf(h),
               Attempt(q, h, a, u)
        PROVE  Ended(k)
    <3>1. PICK K \in {Hosts, Names} : k \in K
      BY DEF Keys
    <3>2. bucket'[k] = NoBucket
      BY <2>2, AttemptBuckets DEF Locked
    <3>. QED BY <2>2, <3>1, <3>2, AttemptBuckets
  <2>3. ASSUME NEW q \in Logins, NEW answer, Answer(q, answer)
        PROVE  Ended(k)
    <3>1. CASE bucket'[k] = bucket[k]
      BY <3>1 DEF Locked
    <3>2. CASE q \in ComparedFor(k)
      <4>1. login'[q] = NoLogin
        BY <2>3 DEF Answer, IInv, LoginTypeOK
      <4>. QED BY <3>2, <4>1
    <3>3. CASE bucket'[k] = Bumped(Fails(k) + 1)
      <4>1. Fails(k) + 1 \in Nat \ {0} /\ Fails(k) + 1 >= MaxFails
        BY <2>1, AssumedOK DEF Bucket, Assumed
      <4>2. Locked(bucket', k)
        BY <3>3, <4>1, BumpedType DEF Locked
      <4>. QED BY <4>2
    <3>. QED BY <2>3, <3>1, <3>2, <3>3, AnswerBuckets
  <2>4. ASSUME LoginTick PROVE Ended(k)
    <3>1. bucket'[k] = [bucket[k] EXCEPT !.left = bucket[k].left - 1]
      BY <2>4 DEF LoginTick
    <3>2. bucket'[k] # NoBucket
      <4>1. bucket'[k] \in [fails: Nat, left: {bucket[k].left - 1}, locked: BOOLEAN]
        BY <2>1, <3>1 DEF Bucket
      <4>2. bucket[k].left \in 1..LockFor
        BY <2>1, AssumedOK DEF Locked, Bucket, Assumed
      <4>3. bucket'[k] \in Bucket
        BY <4>1, <4>2, AssumedOK DEF Bucket, Assumed
      <4>. QED BY <4>3, AssumedOK DEF Assumed
    <3>3. bucket'[k].left = bucket[k].left - 1 /\ bucket'[k].locked = bucket[k].locked
      BY <2>1, <3>1 DEF Bucket
    <3>4. bucket[k].left \in Nat /\ bucket[k].left > 0 /\ ~(bucket[k].left - 1 > 0)
      BY <2>1, <3>2, <3>3, AssumedOK DEF Locked, Bucket, Assumed
    <3>. QED BY <3>2, <3>4
  <2>5. CASE UNCHANGED loginVars
    BY <2>5 DEF loginVars, Locked
  <2>. QED BY <2>2, <2>3, <2>4, <2>5 DEF LoginNext
<1>2. IInv /\ [LoginNext]_loginVars =>
        [\A k \in Keys : Locked(bucket, k) /\ ~Locked(bucket', k) => Ended(k)]_loginVars
  BY <1>1
<1>. QED BY <1>2, Invariance, PTL DEF LoginSpec, LockKept

-----------------------------------------------------------------------------
\* Where the proxy is trusted, a login counts for no machine but its own, and a
\* bucket of a machine has counted no more than that machine's failures.
OwnOK ==
  /\ \A q \in Logins : login[q] # NoLogin => login[q].keys \cap Hosts \subseteq {login[q].host}
  /\ \A h \in Hosts : bucket[h] # NoBucket /\ failedFrom[h] < MaxFails
                        => bucket[h].fails <= failedFrom[h]

LEMMA OwnAddress ==
  ASSUME trustProxy(Proxy), NEW h \in Hosts, NEW a \in AddressesOf(h)
  PROVE  a = h
BY LoginAssumption DEF AddressesOf, ClientAddr, forwardedClientIP, LoginAssumption

LEMMA OwnAttempt ==
  ASSUME trustProxy(Proxy), IInv, OwnOK,
         NEW q \in Logins, NEW h \in Hosts, NEW u \in Names, NEW a \in AddressesOf(h),
         Attempt(q, h, a, u)
  PROVE  OwnOK'
<1>1. a = h /\ u \notin Hosts /\ Hosts \subseteq Keys
  BY OwnAddress, AssumedOK DEF Assumed, Keys
<1>2. \A k \in Keys : bucket'[k] \in {bucket[k], NoBucket}
  BY AttemptBuckets
<1>3. \A p \in Logins : login'[p] = login[p] \/ login'[p] = [host |-> h, keys |-> {a, u}, name |-> u]
  <2>1. UNCHANGED login \/ login' = [login EXCEPT ![q] = [host |-> h, keys |-> {a, u}, name |-> u]]
    BY AttemptBuckets
  <2>. QED BY <2>1 DEF IInv, LoginTypeOK
<1>. QED BY <1>1, <1>2, <1>3 DEF OwnOK, Attempt

LEMMA OwnAnswer ==
  ASSUME IInv, OwnOK, NEW q \in Logins, NEW answer, Answer(q, answer)
  PROVE  OwnOK'
<1>1. login[q] \in Login /\ login' = [login EXCEPT ![q] = NoLogin]
  BY DEF Answer, IInv, LoginTypeOK
<1>2. ASSUME NEW h \in Hosts, bucket'[h] # NoBucket, failedFrom'[h] < MaxFails
      PROVE  bucket'[h].fails <= failedFrom'[h]
  <2>1. h \in Keys /\ Fails(h) \in Nat /\ failedFrom[h] \in 0..MaxFails
    BY DEF Keys, Fails, IInv, LoginTypeOK, Bucket
  <2>2. failedFrom'[h] \in {failedFrom[h], failedFrom[h] + 1}
    BY <2>1 DEF Answer, IInv, LoginTypeOK
  <2>3. failedFrom[h] < MaxFails
    BY <1>2, <2>1, <2>2, AssumedOK DEF Assumed
  <2>4. Fails(h) <= failedFrom[h]
    BY <2>1, <2>3 DEF OwnOK, Fails
  <2>5. CASE bucket'[h] = bucket[h]
    BY <1>2, <2>1, <2>2, <2>4, <2>5 DEF Fails
  <2>6. CASE h \in login[q].keys /\ answer = "invalid" /\ bucket'[h] = Bumped(Fails(h) + 1)
    <3>1. login[q].host = h
      BY <2>6 DEF OwnOK, Answer
    <3>2. failedFrom'[h] = failedFrom[h] + 1
      BY <2>3, <2>6, <3>1 DEF Answer, IInv, LoginTypeOK
    <3>3. bucket'[h].fails = Fails(h) + 1
      BY <2>1, <2>6, BumpedType
    <3>. QED BY <2>1, <2>4, <3>2, <3>3
  <2>. QED BY <1>2, <2>1, <2>5, <2>6, AnswerBuckets
<1>3. \A p \in Logins : login'[p] # NoLogin => login'[p] = login[p]
  BY <1>1 DEF IInv, LoginTypeOK
<1>. QED BY <1>2, <1>3 DEF OwnOK

LEMMA OwnTick == ASSUME IInv, OwnOK, LoginTick PROVE OwnOK'
<1>1. ASSUME NEW h \in Hosts, bucket'[h] # NoBucket
      PROVE  bucket[h] # NoBucket /\ bucket'[h].fails = bucket[h].fails
  <2>1. h \in Keys
    BY DEF Keys
  <2>2. CASE Locked(bucket, h)
    BY <2>1, <2>2 DEF LoginTick, Locked, IInv, LoginTypeOK, Bucket
  <2>3. CASE ~Locked(bucket, h)
    BY <1>1, <2>1, <2>3 DEF LoginTick
  <2>. QED BY <2>2, <2>3
<1>. QED BY <1>1 DEF OwnOK, LoginTick

\* A machine is locked only after as many failures of its own as the limit says,
\* if the server trusts the proxy it stands behind.
THEOREM OwnFailuresLock ==
  ASSUME trustProxy(Proxy)
  PROVE  LoginSpec => []LockedForOwnFailures
<1>1. LoginInit => OwnOK
  BY DEF LoginInit, OwnOK, Keys
<1>2. IInv /\ OwnOK /\ [LoginNext]_loginVars => OwnOK'
  <2>1. ASSUME IInv, OwnOK, UNCHANGED loginVars PROVE OwnOK'
    BY <2>1 DEF loginVars, OwnOK
  <2>. QED BY <2>1, OwnAttempt, OwnAnswer, OwnTick DEF LoginNext
<1>3. IInv /\ OwnOK => LockedForOwnFailures
  BY AssumedOK DEF IInv, OwnOK, LockedForOwnFailures, Locked, BucketOK, LoginTypeOK, Bucket, Keys, Assumed
<1>. QED BY <1>1, <1>2, <1>3, Invariance, PTL DEF LoginSpec

-----------------------------------------------------------------------------
(***************************************************************************)
(* The engine.  Until Close takes the embedder away, whoever asked Ready or *)
(* took the embedder can count on it, and on the runtime the loader needs   *)
(* from its first step on.                                                  *)
(***************************************************************************)

\* Close has not yet taken the embedder away.
Open == main \in {"serving", "stopping", "engineClosing"}

EngineIInv ==
  /\ EngineTypeOK
  /\ Open => /\ loader \in {"download", "pause", "open", "publish"} \/ inner => runtime
             /\ \A u \in Users : user[u] \in {"ready", "using"} => inner
             /\ \A u \in Users : user[u] # "refused"

LEMMA EngineInitOK == EngineInit => EngineIInv
<1>. SUFFICES ASSUME EngineInit PROVE EngineIInv
  OBVIOUS
<1>1. /\ state \in {"off", "loading"} /\ loader \in {"start", "none"}
      /\ inner = FALSE /\ runtime = FALSE /\ cancelled = FALSE /\ pause = 1
      /\ main = "serving" /\ user = [u \in Users |-> "idle"] /\ conn = {}
  BY DEF EngineInit, Started, New
<1>2. pause \in 1..MaxPause
  BY <1>1, EngineAssumption DEF EngineAssumption
<1>3. EngineTypeOK
  BY <1>1, <1>2 DEF EngineTypeOK, Loader, Main, User
<1>. QED BY <1>1, <1>3 DEF EngineIInv

\* The loader never takes back what it or a user rests on.
LEMMA LoadOK == ASSUME EngineIInv, load, UNCHANGED <<main, user, conn>> PROVE EngineIInv'
<1>1. EngineTypeOK'
  <2>1. /\ state' \in {"off", "loading", "error", "ready"}
        /\ inner' \in BOOLEAN /\ runtime' \in BOOLEAN /\ cancelled' = cancelled
        /\ loader' \in Loader
    BY DEF EngineIInv, EngineTypeOK, load, initORT, Downloaded, DownloadFails, DownloadAgain,
       DownloadCancelled, NewEmbedder, Publish, fail, Loader
  <2>2. pause' \in 1..MaxPause
    <3>1. pause' = pause \/ (pause < MaxPause /\ pause' = pause + 1)
      BY DEF load, initORT, Downloaded, DownloadFails, DownloadAgain, DownloadCancelled,
         NewEmbedder, Publish
    <3>. QED BY <3>1, EngineAssumption DEF EngineAssumption, EngineIInv, EngineTypeOK
  <2>. QED BY <2>1, <2>2 DEF EngineIInv, EngineTypeOK
<1>2. /\ inner => inner'
      /\ loader' \in {"download", "pause", "open", "publish"} \/ inner'
           => runtime' \/ (runtime' = runtime
                           /\ (loader \in {"download", "pause", "open", "publish"} \/ inner))
      /\ runtime => runtime'
  BY DEF EngineIInv, EngineTypeOK, load, initORT, Downloaded, DownloadFails, DownloadAgain,
     DownloadCancelled, NewEmbedder, Publish, fail
<1>. QED BY <1>1, <1>2 DEF EngineIInv, Open

LEMMA UserOK ==
  ASSUME EngineIInv, NEW u \in Users, AskReady(u) \/ embedder(u) \/ Query(u) \/ EndUse(u)
  PROVE  EngineIInv'
<1>1. /\ UNCHANGED <<engineVars, main>>
      /\ conn' \subseteq Users
      /\ user' \in [Users -> User] /\ \A v \in Users \ {u} : user'[v] = user[v]
      /\ user'[u] \in {"ready", "using"} => inner \/ user'[u] = user[u]
      /\ user'[u] = "refused" => user[u] = "refused" \/ (user[u] = "ready" /\ ~inner)
  BY DEF AskReady, embedder, Query, EndUse, Ready, EngineIInv, EngineTypeOK, User
<1>2. EngineTypeOK'
  BY <1>1 DEF EngineIInv, EngineTypeOK, engineVars
<1>. QED BY <1>1, <1>2 DEF EngineIInv, Open, engineVars

LEMMA MainOK ==
  ASSUME EngineIInv, Signal \/ ListenFails \/ Cancel \/ CloseInner \/ ClosePool
  PROVE  EngineIInv'
<1>1. /\ UNCHANGED <<state, loader, pause, user, conn>>
      /\ main' \in Main /\ inner' \in BOOLEAN /\ runtime' \in BOOLEAN /\ cancelled' \in BOOLEAN
      /\ Open' => Open /\ UNCHANGED <<inner, runtime>>
  BY DEF Signal, ListenFails, Cancel, CloseInner, ClosePool, EngineIInv, EngineTypeOK, Main, Open,
     engineVars
<1>. QED BY <1>1 DEF EngineIInv, EngineTypeOK

LEMMA EngineInvariance == EngineSpec => []EngineIInv
<1>1. EngineIInv /\ [EngineNext]_processVars => EngineIInv'
  <2>1. ASSUME EngineIInv, UNCHANGED processVars PROVE EngineIInv'
    BY <2>1 DEF processVars, engineVars, EngineIInv, EngineTypeOK, Open
  <2>2. ASSUME EngineIInv, EngineNext PROVE EngineIInv'
    BY <2>2, LoadOK, UserOK, MainOK DEF EngineNext
  <2>. QED BY <2>1, <2>2
<1>. QED BY <1>1, EngineInitOK, PTL DEF EngineSpec

\* The state of the process, its engine and their users has its type.
THEOREM EngineTypeCorrect == EngineSpec => []EngineTypeOK
<1>1. EngineIInv => EngineTypeOK
  BY DEF EngineIInv
<1>. QED BY <1>1, EngineInvariance, PTL

\* Readiness, once reported, lasts until the process closes the engine, and nobody
\* works with a runtime that is gone before that (Engine.load, Ready, embedder,
\* Close; main).
THEOREM ReadinessIsKept == EngineSpec => []ReadyUntilClose
<1>1. EngineIInv => ReadyUntilClose
  BY DEF EngineIInv, EngineTypeOK, Open, Main, ReadyUntilClose
<1>. QED BY <1>1, EngineInvariance, PTL
================================================================================
