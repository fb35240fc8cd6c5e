------------------------------ MODULE LoginLimit ------------------------------
(***************************************************************************)
(* The limit on failed logins: internal/httpapi/loginlimit.go, the handler  *)
(* login (auth.go), what auth.Service.Login answers, and the address that   *)
(* withClientAddr (proxy.go) finds for a client.                            *)
(*                                                                          *)
(* allow, fail and ok each hold the lock, the comparison of the password    *)
(* between them does not: logins run between the check and the count of     *)
(* others.  Time is what is left of a lock, and passes in ticks.            *)
(***************************************************************************)
EXTENDS Naturals, FiniteSets

CONSTANTS
  Hosts,        \* machines that clients run on
  Proxy,        \* the one with the reverse proxy, a client as well
  TrustMode,    \* configuration TRUST_PROXY: "always", "never" or "auto"
  Loopback,     \* addresses that net.IP.IsLoopback accepts
  Names,        \* user names, normalised
  LocalUsers, LdapUsers,   \* those with an account, by auth_provider
  Logins,       \* requests that may be in progress together
  MaxFails,     \* loginMaxFails
  LockFor,      \* loginLockFor, in ticks
  GcAt, ClearAt,           \* sizes of a map: expired buckets, or all of them, go
  NoHeader, NoBucket, NoLogin

ASSUME LoginAssumption ==
  /\ IsFiniteSet(Hosts) /\ Proxy \in Hosts /\ NoHeader \notin Hosts
  /\ IsFiniteSet(Names) /\ Names \cap Hosts = {}
  /\ LocalUsers \cup LdapUsers \subseteq Names
  /\ LocalUsers \cap LdapUsers = {}
  /\ IsFiniteSet(Logins)
  /\ MaxFails \in Nat \ {0} /\ LockFor \in Nat \ {0}
  /\ GcAt \in Nat /\ ClearAt \in Nat
  /\ NoBucket \notin [fails: Nat, left: Nat, locked: BOOLEAN]
  /\ NoLogin \notin [host: Hosts, keys: SUBSET (Hosts \cup Names), name: Names]

VARIABLES
  bucket,       \* loginLimiter: byIP and byUser, by address and by name
  login,        \* requests between allow and the end of Auth.Login
  failedFrom    \* history: failures counted for a machine, up to MaxFails

loginVars == <<bucket, login, failedFrom>>

Keys   == Hosts \cup Names
Bucket == [fails: Nat, left: 0..LockFor, locked: BOOLEAN]
Login  == [host: Hosts, keys: SUBSET Keys, name: Names]

LoginInit ==
  /\ bucket = [k \in Keys |-> NoBucket]
  /\ login = [q \in Logins |-> NoLogin]
  /\ failedFrom = [h \in Hosts |-> 0]

-----------------------------------------------------------------------------
\* The address of a client

trustProxy(peer) ==
  TrustMode = "always" \/ (TrustMode = "auto" /\ peer \in Loopback)

\* X-Real-IP wins even where it is no address and so says nothing.
forwardedClientIP(realIP, forwardedFor) ==
  LET said == IF realIP # NoHeader THEN realIP ELSE forwardedFor
  IN  IF said \in Hosts THEN said ELSE NoHeader

\* Mutant: the peer is taken for the client
ClientAddrPeer(peer, realIP, forwardedFor) == peer

ClientAddr(peer, realIP, forwardedFor) ==
  LET said == forwardedClientIP(realIP, forwardedFor)
  IN  IF trustProxy(peer) /\ said # NoHeader THEN said ELSE peer

\* A client on h talks to the server itself, or through the proxy, which names it.
AddressesOf(h) ==
  {ClientAddr(h, NoHeader, NoHeader), ClientAddr(Proxy, h, NoHeader),
   ClientAddr(Proxy, NoHeader, h)}

-----------------------------------------------------------------------------
\* The buckets

Locked(b, k)  == b[k] # NoBucket /\ b[k].locked /\ b[k].left > 0
Expired(b, k) == b[k] # NoBucket /\ b[k].locked /\ b[k].left = 0
Without(b, K) == [k \in Keys |-> IF k \in K THEN NoBucket ELSE b[k]]
SizeOf(b, K)  == Cardinality({k \in K : b[k] # NoBucket})

gcBuckets(b, K) ==
  LET kept == Without(b, {k \in K : Expired(b, k)})
  IN  IF SizeOf(b, K) < GcAt THEN b
      ELSE IF SizeOf(kept, K) > ClearAt THEN Without(b, K)
      ELSE kept

\* What looking at k leaves: an expired bucket goes, a counting one stays.
Looked(b, k) == IF Expired(b, k) THEN Without(b, {k}) ELSE b

\* Mutant.
BumpedLate(n) == [fails |-> n, locked |-> n > MaxFails,
                  left |-> IF n > MaxFails THEN LockFor ELSE 0]

Bumped(n) == [fails |-> n, locked |-> n >= MaxFails,
              left |-> IF n >= MaxFails THEN LockFor ELSE 0]

\* Counting does not look at the lock: a login let in before it prolongs it.
bumpBucket(b, k) == Bumped(IF b[k] = NoBucket THEN 1 ELSE b[k].fails + 1)

-----------------------------------------------------------------------------
\* login: the check, the comparison, the count

\* Mutant: a refused attempt counts as well
AttemptCounted(q, h, a, u) ==
  /\ login[q] = NoLogin
  /\ UNCHANGED failedFrom
  /\ IF Locked(bucket, a) \/ Locked(bucket, u)
     THEN /\ bucket' = [bucket EXCEPT ![u] = Bumped(MaxFails)]
          /\ UNCHANGED login
     ELSE /\ bucket' = Looked(Looked(bucket, a), u)
          /\ login' = [login EXCEPT ![q] = [host |-> h, keys |-> {a, u}, name |-> u]]

\* The bucket of the name is looked at only where that of the address is free.
Attempt(q, h, a, u) ==
  LET swept == gcBuckets(gcBuckets(bucket, Hosts), Names)
      seen  == Looked(swept, a)
  IN  /\ login[q] = NoLogin
      /\ IF Locked(swept, a) THEN bucket' = swept /\ UNCHANGED login
         ELSE IF Locked(seen, u) THEN bucket' = seen /\ UNCHANGED login
         ELSE /\ bucket' = Looked(seen, u)
              /\ login' = [login EXCEPT ![q] = [host |-> h, keys |-> {a, u}, name |-> u]]
      /\ UNCHANGED failedFrom

\* LDAP.Authenticate: no connection is an error, any failure of Bind a wrong
\* password, be it technical.
Authenticate == {"ok", "invalid", "error"}

\* Service.Login: a disabled account and a directory that is not set up are said
\* before any password is compared.
LoginAnswers(u) ==
  CASE u \in LocalUsers -> {"ok", "invalid", "disabled", "error"}
    [] u \in LdapUsers  -> Authenticate \cup {"disabled", "unavailable"}
    [] OTHER            -> {"invalid", "error"}

Failed(q, b) == [k \in Keys |-> IF k \in login[q].keys THEN bumpBucket(b, k) ELSE b[k]]

\* Everything but a wrong password and a success leaves the buckets alone; a
\* client that leaves makes it an error.
Answer(q, answer) ==
  /\ login[q] # NoLogin
  /\ answer \in LoginAnswers(login[q].name)
  /\ login' = [login EXCEPT ![q] = NoLogin]
  /\ bucket' = CASE answer = "invalid" -> Failed(q, bucket)
                 [] answer = "ok"      -> Without(bucket, login[q].keys)
                 [] OTHER              -> bucket
  /\ LET h == login[q].host
     IN  failedFrom' =
           IF answer = "invalid" /\ failedFrom[h] < MaxFails
             THEN [failedFrom EXCEPT ![h] = @ + 1] ELSE failedFrom

LoginTick ==
  /\ \E k \in Keys : Locked(bucket, k)
  /\ bucket' = [k \in Keys |-> IF Locked(bucket, k) THEN [bucket[k] EXCEPT !.left = @ - 1]
                               ELSE bucket[k]]
  /\ UNCHANGED <<login, failedFrom>>

LoginNext ==
  \/ \E q \in Logins, h \in Hosts, u \in Names : \E a \in AddressesOf(h) : Attempt(q, h, a, u)
  \/ \E q \in Logins : \E answer \in {"ok", "invalid", "disabled", "unavailable", "error"} :
       Answer(q, answer)
  \/ LoginTick

LoginSpec == LoginInit /\ [][LoginNext]_loginVars /\ WF_loginVars(LoginTick)

-----------------------------------------------------------------------------
\* Properties

ComparedFor(k) == {q \in Logins : login[q] # NoLogin /\ k \in login[q].keys}

\* The type invariant.
LoginTypeOK ==
  /\ bucket \in [Keys -> Bucket \cup {NoBucket}]
  /\ login \in [Logins -> Login \cup {NoLogin}]
  /\ failedFrom \in [Hosts -> 0..MaxFails]

\* Passwords tried for one address or name in a row: those counted and those
\* under comparison are never more than the limit less one and what may be
\* compared at the same time, though allow and fail are apart, a lock can be
\* prolonged and buckets of others come and go.
AttemptsBounded ==
  \A k \in Keys :
    (IF bucket[k] = NoBucket THEN 0 ELSE bucket[k].fails) + Cardinality(ComparedFor(k))
      <= MaxFails - 1 + Cardinality(Logins)

\* A machine is locked out only for failures of its own, also behind the proxy;
\* not so behind a proxy that is not trusted, whose clients share one bucket.
LockedForOwnFailures ==
  \A h \in Hosts : Locked(bucket, h) => failedFrom[h] = MaxFails

\* Every lock ends, however many refused attempts go on meanwhile.
LockEnds == \A k \in Keys : Locked(bucket, k) ~> ~Locked(bucket, k)

\* A lock that runs ends before its time only by a success that was let in before
\* it, or where the map outgrows the limit and is cleared for everybody.
LockKept ==
  [][\A k \in Keys :
       Locked(bucket, k) /\ ~Locked(bucket', k) =>
         \/ bucket[k].left = 1 /\ bucket'[k] # NoBucket
         \/ \E q \in ComparedFor(k) : login'[q] = NoLogin
         \/ \E K \in {Hosts, Names} : k \in K /\ SizeOf(bucket, K) > ClearAt]_loginVars
================================================================================
