------------------------------- MODULE Accounts -------------------------------
(***************************************************************************)
(* Accounts, sessions and API tokens: internal/auth and the handlers of     *)
(* internal/httpapi/auth.go, apitoken.go and provision.go that call it.     *)
(*                                                                          *)
(* No handler of this package opens a transaction: each statement is a step *)
(* and other requests run in between, all the more since hashing and        *)
(* comparing a password takes long; only the lookup of the session is taken *)
(* together with the first statement after it, where that one reads or      *)
(* concerns the user's own tokens.  Any request may end between two steps   *)
(* (an error, a client that leaves and so cancels the context, a crash).    *)
(*                                                                          *)
(* An epoch of a user begins whenever the password is written or the        *)
(* account is disabled: what was granted in an earlier one is to end.       *)
(***************************************************************************)
EXTENDS Naturals, FiniteSets

CONSTANTS
  UserNames,     \* user names
  Admin,         \* the one that the first start of the server creates
  Roles,         \* those that clients ask for
  Calls,         \* HTTP requests that may be in progress together
  MaxActive,     \* APITokenMaxActive
  MaxEpoch,      \* bound: epochs of a user
  TokenIds,      \* ids that an active token may have, so a bound on their number
  MaxSessions,   \* bound: sessions at a time
  MaxGrants,     \* bound: sessions and active tokens at a time
  NoAccount, NoRow, NoAttr

\* The right to execute deletions is written with these two and left out.
Attr    == [role: Roles, disabled: BOOLEAN]

\* A user changes the password that somebody else has set before anything else;
\* the directory keeps those of its own users.
Passwords == {"own", "temporary", "directory"}
UserRow == [attr: Attr, password: Passwords]
Epoch   == 0..MaxEpoch

\* "born" is the epoch of the INSERT.
Session == [user: UserNames, born: Epoch]
Token   == [id: TokenIds, user: UserNames, born: Epoch]
Steps   == {"idle", "session", "pwWrite", "resetWrite", "tokInsert", "count", "write",
            "dropSessions", "dropTokens", "renew"}

\* "own": the request is about the account of the user who sent it.  "drops": by
\* what it has read, the update disables an account that was enabled.
Call == [step: Steps, own: BOOLEAN, target: UserNames \cup {NoAccount},
         drops: BOOLEAN, next: Attr \cup {NoAttr},
         alone: BOOLEAN]

ASSUME AccountsAssumption ==
  /\ "admin" \in Roles /\ Roles \subseteq {"admin", "user", "searcher"}
  /\ Admin \in UserNames /\ NoAccount \notin UserNames
  /\ MaxActive \in Nat \ {0} /\ {MaxEpoch, MaxSessions, MaxGrants} \subseteq Nat
  /\ IsFiniteSet(Calls)
  /\ NoRow \notin UserRow /\ NoAttr \notin Attr

VARIABLES
  user,        \* table users
  sessions,    \* table sessions
  tokens,      \* table api_tokens, those not revoked and not expired
  calls,        \* requests in progress, each between two of its statements
  epoch,       \* history: the epoch of each user
  missed       \* history: users whose sessions and tokens were not dropped for good

accountsVars == <<user, sessions, tokens, calls, epoch, missed>>

Known(u)   == user[u] # NoRow
Enabled(u) == Known(u) /\ ~user[u].attr.disabled
Admins     == {u \in UserNames : Enabled(u) /\ user[u].attr.role = "admin"}

TokensOf(u) == {t \in tokens : t.user = u}
Active(u)   == Cardinality(TokensOf(u))

MayGrant == Cardinality(sessions) + Cardinality(tokens) < MaxGrants

\* The type invariant: rows and requests have their types, an id names one token, a
\* request that writes a row has found it, and only who has changed his own password is given a session
\* without showing one.
AccountsTypeOK ==
  /\ user \in [UserNames -> UserRow \cup {NoRow}]
  /\ sessions \in SUBSET Session
  /\ tokens \in SUBSET Token /\ \A s, t \in tokens : s.id = t.id => s = t
  /\ calls \in [Calls -> Call]
  /\ \A q \in Calls : /\ calls[q].step # "idle" => Known(calls[q].target)
                      /\ calls[q].step = "renew" => calls[q].own
  /\ epoch \in [UserNames -> Epoch]
  /\ missed \in SUBSET UserNames

NoCall == [step |-> "idle", own |-> FALSE, target |-> NoAccount, drops |-> FALSE,
           next |-> NoAttr, alone |-> TRUE]

\* The first start creates an administrator, whose password may be a weak one.
AccountsInit ==
  /\ \E password \in {"own", "temporary"} :
       user = [u \in UserNames |->
                 IF u # Admin THEN NoRow
                 ELSE [attr |-> [role |-> "admin", disabled |-> FALSE],
                       password |-> password]]
  /\ sessions = {}
  /\ tokens = {}
  /\ calls = [q \in Calls |-> NoCall]
  /\ epoch = [u \in UserNames |-> 0]
  /\ missed = {}

-----------------------------------------------------------------------------
\* Requests

CallGoto(q, step) == calls' = [calls EXCEPT ![q].step = step]
Finish(q) == calls' = [calls EXCEPT ![q] = NoCall]

\* r is what the first statement of q leaves in memory.
BeginCall(q, r) == calls[q].step = "idle" /\ calls' = [calls EXCEPT ![q] = r]

\* A row of users has been written: what the updates in progress have read of
\* the table is old now.
CallsOvertaken(r) ==
  [x \in Calls |->
     IF r[x].step \in {"count", "write"} THEN [r[x] EXCEPT !.alone = FALSE] ELSE r[x]]

\* q goes on after it has written such a row itself.
Overtake(q, next) == calls' = CallsOvertaken([calls EXCEPT ![q] = next])

\* requireAuth: somebody holds a session of u, who is enabled; while the password
\* has to be changed nothing else is served.
Served(u) ==
  /\ \E s \in sessions : s.user = u
  /\ Enabled(u)
ServedFully(u) == Served(u) /\ user[u].password # "temporary"

\* requireAdmin
Administers(u) == ServedFully(u) /\ u \in Admins

DropSteps == {"dropSessions", "dropTokens"}

\* A request ends early.  If it was about to drop the sessions and tokens of
\* its target, nothing makes up for it.
AbortCall(q) ==
  /\ calls[q].step # "idle"
  /\ Finish(q)
  /\ missed' = IF calls[q].step \in DropSteps THEN missed \cup {calls[q].target} ELSE missed
  /\ UNCHANGED <<user, sessions, tokens, epoch>>

-----------------------------------------------------------------------------
\* Sessions

\* Login reads the row; the password is compared with the hash that was read.
LoginRead(q, u) ==
  /\ Enabled(u)
  /\ BeginCall(q, [NoCall EXCEPT !.step = "session", !.target = u])
  /\ UNCHANGED <<user, sessions, tokens, epoch, missed>>

\* createSession, for a login and for a request that has changed its password.
CreateSession(q) ==
  /\ calls[q].step \in {"session", "renew"}
  /\ Cardinality(sessions) < MaxSessions /\ MayGrant
  /\ LET u == calls[q].target IN sessions' = sessions \cup {[user |-> u, born |-> epoch[u]]}
  /\ Finish(q)
  /\ UNCHANGED <<user, tokens, epoch, missed>>

\* Logout, and the end of a session's seven days.
EndSession(s) ==
  /\ s \in sessions
  /\ sessions' = sessions \ {s}
  /\ UNCHANGED <<user, tokens, calls, epoch, missed>>

-----------------------------------------------------------------------------
\* Passwords

\* The writes of a password, and of a row that disables its user, open an epoch.
NextEpoch(u) == epoch[u] < MaxEpoch /\ epoch' = [epoch EXCEPT ![u] = @ + 1]

\* ChangePassword reads the hash; the directory's users and a wrong password are
\* turned away.
ReadPassword(q, u) ==
  /\ Served(u)
  /\ user[u].password # "directory"
  /\ BeginCall(q, [NoCall EXCEPT !.step = "pwWrite", !.own = TRUE, !.target = u])
  /\ UNCHANGED <<user, sessions, tokens, epoch, missed>>

\* ResetPassword of an administrator's request, not for himself.
ReadReset(q, u, t) ==
  /\ Administers(u) /\ u # t
  /\ Known(t) /\ user[t].password # "directory"
  /\ BeginCall(q, [NoCall EXCEPT !.step = "resetWrite", !.target = t])
  /\ UNCHANGED <<user, sessions, tokens, epoch, missed>>

\* Mutant of WritePassword: the sessions of the user are not dropped.
WritePasswordOnly(q) ==
  /\ calls[q].step \in {"pwWrite", "resetWrite"}
  /\ LET t == calls[q].target IN
       /\ user' = [user EXCEPT ![t].password = IF calls[q].own THEN "own" ELSE "temporary"]
       /\ NextEpoch(t)
       /\ Overtake(q, [calls[q] EXCEPT !.step = "dropTokens"])
  /\ UNCHANGED <<sessions, tokens, missed>>

\* The new hash is written, without another look at the old one.
WritePassword(q) ==
  /\ calls[q].step \in {"pwWrite", "resetWrite"}
  /\ LET t == calls[q].target IN
       /\ user' = [user EXCEPT ![t].password = IF calls[q].own THEN "own" ELSE "temporary"]
       /\ NextEpoch(t)
       /\ Overtake(q, [calls[q] EXCEPT !.step = "dropSessions"])
  /\ UNCHANGED <<sessions, tokens, missed>>

\* dropSessions, first statement.
DropSessions(q) ==
  /\ calls[q].step = "dropSessions"
  /\ sessions' = {s \in sessions : s.user # calls[q].target}
  /\ CallGoto(q, "dropTokens")
  /\ UNCHANGED <<user, tokens, epoch, missed>>

\* Mutant of DropTokens: a change of one's own password leaves the tokens alone.
DropTokensOfOthers(q) ==
  /\ calls[q].step = "dropTokens"
  /\ tokens' = IF calls[q].own THEN tokens ELSE tokens \ TokensOf(calls[q].target)
  /\ IF calls[q].own THEN CallGoto(q, "renew") ELSE Finish(q)
  /\ UNCHANGED <<user, sessions, epoch, missed>>

\* revokeAPITokens.  Only a change of one's own password goes on, with a new
\* session; nobody may reset or disable himself.
DropTokens(q) ==
  /\ calls[q].step = "dropTokens"
  /\ tokens' = tokens \ TokensOf(calls[q].target)
  /\ IF calls[q].own THEN CallGoto(q, "renew") ELSE Finish(q)
  /\ UNCHANGED <<user, sessions, epoch, missed>>

-----------------------------------------------------------------------------
\* API tokens

\* CreateAPIToken counts ...
CountTokens(q, u) ==
  /\ ServedFully(u)
  /\ Active(u) < MaxActive
  /\ BeginCall(q, [NoCall EXCEPT !.step = "tokInsert", !.target = u])
  /\ UNCHANGED <<user, sessions, tokens, epoch, missed>>

\* ... and inserts.
InsertToken(q) ==
  /\ calls[q].step = "tokInsert" /\ MayGrant
  /\ \E id \in TokenIds \ {t.id : t \in tokens} :
       LET u == calls[q].target IN tokens' = tokens \cup {[id |-> id, user |-> u, born |-> epoch[u]]}
  /\ Finish(q)
  /\ UNCHANGED <<user, sessions, epoch, missed>>

\* RevokeAPIToken, on one's own; and the day a token expires.
RevokeToken(t) ==
  /\ t \in tokens
  /\ ServedFully(t.user)
  /\ tokens' = tokens \ {t}
  /\ UNCHANGED <<user, sessions, calls, epoch, missed>>

ExpireToken(t) ==
  /\ t \in tokens
  /\ tokens' = tokens \ {t}
  /\ UNCHANGED <<user, sessions, calls, epoch, missed>>

-----------------------------------------------------------------------------
\* Accounts

\* CreateUser of an administrator's request, ProvisionUser of one or of the
\* directory, which has a token of its own: one INSERT, which the unique name may
\* refuse and which leaves the request with nothing to do.
CreateUser(t) ==
  /\ ~Known(t)
  /\ \E role \in Roles, password \in {"temporary", "directory"} :
       user' = [user EXCEPT ![t] =
         [attr |-> [role |-> role, disabled |-> FALSE], password |-> password]]
  /\ calls' = CallsOvertaken(calls)
  /\ UNCHANGED <<sessions, tokens, epoch, missed>>

\* What UpdateUser makes of the row it has read: the client names some of the
\* two attributes, but not for his own account that it be disabled.
Asked(own, seen) ==
  {a \in Attr : own /\ a.disabled => seen.disabled} \ {seen}

LosingAdmin(seen, next) ==
  seen.role = "admin" /\ ~seen.disabled /\ (next.disabled \/ next.role # "admin")

\* UpdateUser reads the row of t, for an administrator or for the directory;
\* with nothing to change the request ends here.
LoadUser(q, t) ==
  /\ Known(t)
  /\ \E own \in BOOLEAN : \E next \in Asked(own, user[t].attr) :
       /\ own => Administers(t)
       /\ BeginCall(q, [NoCall EXCEPT !.target = t, !.next = next,
                          !.drops = next.disabled /\ ~user[t].attr.disabled,
                          !.step = IF LosingAdmin(user[t].attr, next) THEN "count" ELSE "write"])
  /\ UNCHANGED <<user, sessions, tokens, epoch, missed>>

\* enabledAdminCount: somebody else is left.
CountAdmins(q) ==
  /\ calls[q].step = "count"
  /\ Admins \ {calls[q].target} # {}
  /\ CallGoto(q, "write")
  /\ UNCHANGED <<user, sessions, tokens, epoch, missed>>

\* All columns are written, as they were read or as they were asked for.
\* Whether sessions are dropped depends on what was read: an update that was
\* overtaken may disable a user without knowing.
WriteUser(q) ==
  /\ calls[q].step = "write"
  /\ LET t == calls[q].target
         drops == calls[q].drops
         disables == ~user[t].attr.disabled /\ calls[q].next.disabled IN
       /\ user' = [user EXCEPT ![t].attr = calls[q].next]
       /\ IF disables THEN NextEpoch(t) ELSE UNCHANGED epoch
       /\ missed' = IF disables /\ ~drops /\ ~calls[q].alone THEN missed \cup {t} ELSE missed
       /\ Overtake(q, IF drops THEN [NoCall EXCEPT !.step = "dropSessions", !.target = t]
                      ELSE NoCall)
  /\ UNCHANGED <<sessions, tokens>>

-----------------------------------------------------------------------------
CallStep(q) ==
  \/ \E u \in UserNames : LoginRead(q, u) \/ ReadPassword(q, u) \/ CountTokens(q, u)
                          \/ LoadUser(q, u)
                          \/ \E t \in UserNames : ReadReset(q, u, t)
  \/ CreateSession(q) \/ WritePassword(q) \/ DropSessions(q) \/ DropTokens(q) \/ InsertToken(q)
  \/ CountAdmins(q) \/ WriteUser(q)
  \/ AbortCall(q)

AccountsNext ==
  \/ \E q \in Calls : CallStep(q)
  \/ \E u \in UserNames : CreateUser(u)
  \/ \E s \in sessions : EndSession(s)
  \/ \E t \in tokens : RevokeToken(t) \/ ExpireToken(t)

AccountsSpec == AccountsInit /\ [][AccountsNext]_accountsVars

-----------------------------------------------------------------------------
\* Safety

\* A request is between the write that begins an epoch of u and its last drop.
Dropping(u, steps) == \E q \in Calls : calls[q].step \in steps /\ calls[q].target = u

\* Changing or resetting a password and disabling an account end every session
\* that was there before; excepted are those whose request ended in between,
\* and the disabling by an update that did not know it.
NoOldSession ==
  \A s \in sessions : s.born = epoch[s.user] \/ Dropping(s.user, {"dropSessions"})
                        \/ s.user \in missed

\* The same for API tokens, which are revoked after the sessions are gone.
NoOldToken ==
  \A t \in tokens : t.born = epoch[t.user] \/ Dropping(t.user, DropSteps) \/ t.user \in missed

\* Help.tsx:607 and doc/Anforderungen.md:166: an account has at most so many active tokens.
TenTokens == \A u \in UserNames : Active(u) <= MaxActive

\* CreateAPIToken counts and inserts apart: a user may come to have more active
\* tokens than allowed, but no more than the requests that counted together.
Inserting(u) == {q \in Calls : calls[q].step = "tokInsert" /\ calls[q].target = u}

TokenLimit ==
  \A u \in UserNames : Active(u) + Cardinality(Inserting(u)) < MaxActive + Cardinality(Calls)

\* Help.tsx:559: the last active administrator can be neither disabled nor demoted.
LastAdminStays == Admins # {}

\* The last enabled administrator is only lost to an update which another write
\* overtook between its own read and write.
AdminKept ==
  [][Admins # {} /\ Admins' = {} =>
       \E q \in Calls : calls[q].step = "write" /\ calls'[q].step # "write" /\ ~calls[q].alone]_accountsVars
===============================================================================
