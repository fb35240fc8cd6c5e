----------------------------- MODULE AccountsProofs -----------------------------
(***************************************************************************)
(* Proofs about Accounts, for any numbers of users, requests, tokens and    *)
(* sessions.                                                                *)
(***************************************************************************)
EXTENDS Accounts, Integers, FiniteSetTheorems, TLAPS

\* As long as no write of users has come between, an update knows the row it has
\* read: whether it disables the user, and whether he is the last administrator.
AloneOK ==
  \A q \in Calls : calls[q].alone /\ calls[q].step \in {"count", "write"} =>
    LET t == calls[q].target
    IN  /\ calls[q].next \in Attr
        /\ calls[q].drops = (calls[q].next.disabled /\ ~user[t].attr.disabled)
        /\ calls[q].step = "write" /\ LosingAdmin(user[t].attr, calls[q].next)
             => Admins \ {t} # {}

\* A request that goes on is about a user, and an update writes a whole row.
RequestOK ==
  \A q \in Calls : /\ calls[q].step # "idle" => calls[q].target \in UserNames
                   /\ calls[q].step \in {"count", "write"} => calls[q].next \in Attr

IInv == AccountsTypeOK /\ RequestOK /\ AloneOK /\ NoOldSession /\ NoOldToken

-----------------------------------------------------------------------------
LEMMA IdleType == /\ NoCall \in Call /\ NoCall.step = "idle" /\ ~NoCall.own /\ NoCall.alone
                  /\ NoCall.target = NoAccount
BY DEF NoCall, Call, Steps

LEMMA Nulls == NoRow \notin UserRow /\ NoAttr \notin Attr /\ NoAccount \notin UserNames
BY AccountsAssumption DEF AccountsAssumption

\* What overtaking changes: "alone" only.
LEMMA OvertakenType ==
  ASSUME NEW r \in [Calls -> Call]
  PROVE  /\ CallsOvertaken(r) \in [Calls -> Call]
         /\ \A q \in Calls :
              /\ CallsOvertaken(r)[q].step = r[q].step /\ CallsOvertaken(r)[q].own = r[q].own
              /\ CallsOvertaken(r)[q].target = r[q].target /\ CallsOvertaken(r)[q].next = r[q].next
              /\ CallsOvertaken(r)[q].drops = r[q].drops
              /\ r[q].step \in {"count", "write"} => ~CallsOvertaken(r)[q].alone
<1>1. \A q \in Calls : r[q] \in Call /\ CallsOvertaken(r)[q] \in {r[q], [r[q] EXCEPT !.alone = FALSE]}
  BY DEF CallsOvertaken
<1>2. \A q \in Calls : r[q].step \in {"count", "write"} => CallsOvertaken(r)[q] = [r[q] EXCEPT !.alone = FALSE]
  BY DEF CallsOvertaken
<1>3. \A x \in Call :
        LET y == [x EXCEPT !.alone = FALSE]
        IN  /\ y \in Call /\ y.step = x.step /\ y.own = x.own /\ y.target = x.target
            /\ y.next = x.next /\ y.drops = x.drops /\ ~y.alone
  BY DEF Call
<1>4. CallsOvertaken(r) = [q \in Calls |-> CallsOvertaken(r)[q]]
  BY DEF CallsOvertaken
<1>5. ASSUME NEW q \in Calls
      PROVE  /\ CallsOvertaken(r)[q] \in Call
             /\ CallsOvertaken(r)[q].step = r[q].step /\ CallsOvertaken(r)[q].own = r[q].own
             /\ CallsOvertaken(r)[q].target = r[q].target /\ CallsOvertaken(r)[q].next = r[q].next
             /\ CallsOvertaken(r)[q].drops = r[q].drops
             /\ r[q].step \in {"count", "write"} => ~CallsOvertaken(r)[q].alone
  <2>1. CASE CallsOvertaken(r)[q] = [r[q] EXCEPT !.alone = FALSE]
    BY <1>1, <1>3, <2>1
  <2>2. CASE CallsOvertaken(r)[q] # [r[q] EXCEPT !.alone = FALSE]
    BY <1>1, <1>2, <2>2
  <2>. QED BY <2>1, <2>2
<1>. QED BY <1>4, <1>5

LEMMA InitOK == AccountsInit => IInv
<1>. SUFFICES ASSUME AccountsInit PROVE IInv
  OBVIOUS
<1>1. user \in [UserNames -> UserRow \cup {NoRow}]
  <2>1. PICK password \in {"own", "temporary"} :
          user = [u \in UserNames |->
                 IF u # Admin THEN NoRow
                 ELSE [attr |-> [role |-> "admin", disabled |-> FALSE], password |-> password]]
    BY DEF AccountsInit
  <2>2. [attr |-> [role |-> "admin", disabled |-> FALSE], password |-> password] \in UserRow
    BY AccountsAssumption DEF AccountsAssumption, UserRow, Attr, Passwords
  <2>. QED BY <2>1, <2>2
<1>2. tokens = {}
  BY DEF AccountsInit
<1>3. epoch \in [UserNames -> Epoch]
  BY AccountsAssumption DEF AccountsInit, Epoch, AccountsAssumption
<1>4. AccountsTypeOK
  BY <1>1, <1>2, <1>3, IdleType DEF AccountsInit, AccountsTypeOK
<1>5. RequestOK /\ AloneOK /\ NoOldSession /\ NoOldToken
  BY <1>2, IdleType DEF AccountsInit, RequestOK, AloneOK, NoOldSession, NoOldToken
<1>. QED BY <1>4, <1>5 DEF IInv

-----------------------------------------------------------------------------
\* Steps that write neither users nor epochs

\* What must hold of the requests afterwards, q being the one that has moved.
LEMMA Moved ==
  ASSUME IInv, UNCHANGED <<user, epoch>>, missed \subseteq missed', missed' \subseteq UserNames,
         sessions' \subseteq Session, tokens' \in SUBSET Token,
         \A s, t \in tokens' : s.id = t.id => s = t,
         NEW q \in Calls, calls' \in [Calls -> Call],
         \A p \in Calls : p # q => calls'[p] = calls[p],
         \/ calls'[q].step \in {"idle", "session", "tokInsert", "dropTokens"}
         \/ calls'[q].step \in {"renew", "pwWrite", "resetWrite"} /\ (calls'[q].step = "renew" => calls'[q].own)
         \/ /\ calls'[q].step \in {"count", "write"} /\ calls'[q].next \in Attr
            /\ calls'[q].alone =>
                 /\ calls'[q].drops = (calls'[q].next.disabled /\ ~user[calls'[q].target].attr.disabled)
                 /\ calls'[q].step = "write" /\ LosingAdmin(user[calls'[q].target].attr, calls'[q].next)
                      => Admins \ {calls'[q].target} # {},
         calls'[q].step # "idle" => calls'[q].target \in UserNames /\ Known(calls'[q].target),
         \A s \in sessions' :
           \/ s.born = epoch[s.user]
           \/ s \in sessions /\ (calls[q].step = "dropSessions" /\ calls[q].target = s.user => s.user \in missed'),
         \A t \in tokens' :
           \/ t.born = epoch[t.user]
           \/ /\ t \in tokens
              /\ calls[q].step \in DropSteps /\ calls[q].target = t.user =>
                   t.user \in missed' \/ (calls'[q].step = "dropTokens" /\ calls'[q].target = t.user)
  PROVE  IInv'
<1>. USE DEF IInv
<1>1. AccountsTypeOK'
  BY DEF AccountsTypeOK, Known
<1>2. RequestOK'
  BY DEF RequestOK
<1>3. AloneOK'
  BY DEF AloneOK, RequestOK, Admins, Enabled, Known
<1>4. NoOldSession'
  BY DEF NoOldSession, Dropping
<1>5. NoOldToken'
  BY DEF NoOldToken, Dropping, DropSteps
<1>. QED BY <1>1, <1>2, <1>3, <1>4, <1>5

\* A request that stays within the requests, or ends.
LEMMA AbortOK == ASSUME IInv, NEW q \in Calls, AbortCall(q) PROVE IInv'
<1>1. calls' = [calls EXCEPT ![q] = NoCall] /\ calls[q].target \in UserNames \cup {NoAccount}
  BY DEF AbortCall, Finish, IInv, AccountsTypeOK, Call
<1>2. calls[q].step \in DropSteps => calls[q].target \in UserNames /\ calls[q].target \in missed'
  BY DEF AbortCall, IInv, RequestOK, DropSteps
<1>3. missed' \subseteq UserNames /\ missed \subseteq missed'
  BY <1>2 DEF AbortCall, IInv, AccountsTypeOK
<1>4. calls' \in [Calls -> Call] /\ calls'[q].step = "idle"
  BY <1>1, IdleType DEF IInv, AccountsTypeOK
<1>. QED BY <1>1, <1>2, <1>3, <1>4, Moved DEF AbortCall, IInv, AccountsTypeOK, NoOldSession, NoOldToken, DropSteps

LEMMA DropSessionsOK == ASSUME IInv, NEW q \in Calls, DropSessions(q) PROVE IInv'
<1>1. /\ calls' \in [Calls -> Call] /\ \A p \in Calls : p # q => calls'[p] = calls[p]
      /\ calls'[q].step = "dropTokens" /\ calls'[q].target = calls[q].target
  BY DEF DropSessions, CallGoto, IInv, AccountsTypeOK, Call, Steps
<1>2. calls[q].step = "dropSessions" /\ sessions' = {s \in sessions : s.user # calls[q].target}
      /\ UNCHANGED <<user, tokens, epoch, missed>>
  BY DEF DropSessions
<1>3. \A s \in sessions' : s \in sessions /\ s.user # calls[q].target
  BY <1>2
<1>. QED BY <1>1, <1>2, <1>3, Moved DEF IInv, AccountsTypeOK, RequestOK

LEMMA DropTokensOK == ASSUME IInv, NEW q \in Calls, DropTokens(q) PROVE IInv'
<1>1. tokens' = {t \in tokens : t.user # calls[q].target}
  BY DEF DropTokens, TokensOf
<1>2. /\ calls' \in [Calls -> Call] /\ \A p \in Calls : p # q => calls'[p] = calls[p]
      /\ \/ calls'[q].step = "renew" /\ calls'[q].own /\ calls'[q].target = calls[q].target
         \/ calls'[q].step = "idle"
  <2>1. \/ calls' = [calls EXCEPT ![q] = [calls[q] EXCEPT !.step = "renew"]] /\ calls[q].own
        \/ calls' = [calls EXCEPT ![q] = NoCall]
    BY DEF DropTokens, CallGoto, Finish, IInv, AccountsTypeOK
  <2>. QED BY <2>1, IdleType DEF IInv, AccountsTypeOK, Call, Steps
<1>3. calls[q].step = "dropTokens" /\ UNCHANGED <<user, sessions, epoch, missed>>
  BY DEF DropTokens
<1>4. \A t \in tokens' : t \in tokens /\ t.user # calls[q].target
  BY <1>1
<1>. QED BY <1>1, <1>2, <1>3, <1>4, Moved DEF IInv, AccountsTypeOK, RequestOK

LEMMA CreateSessionOK == ASSUME IInv, NEW q \in Calls, CreateSession(q) PROVE IInv'
<1>. DEFINE u == calls[q].target
            s == [user |-> u, born |-> epoch[u]]
<1>1. u \in UserNames /\ calls[q].step \in {"session", "renew"} /\ sessions' = sessions \cup {s}
      /\ UNCHANGED <<user, tokens, epoch, missed>>
  BY DEF CreateSession, IInv, RequestOK
<1>2. s \in Session /\ s.user = u /\ s.born = epoch[u]
  BY <1>1 DEF Session, IInv, AccountsTypeOK
<1>. HIDE DEF s
<1>3. calls' \in [Calls -> Call] /\ calls'[q].step = "idle" /\ \A p \in Calls : p # q => calls'[p] = calls[p]
  BY IdleType DEF CreateSession, Finish, IInv, AccountsTypeOK
<1>4. \A x \in sessions' : x.born = epoch[x.user] \/ x \in sessions
  BY <1>1, <1>2
<1>5. sessions' \subseteq Session
  BY <1>1, <1>2 DEF IInv, AccountsTypeOK
<1>. QED BY <1>1, <1>3, <1>4, <1>5, Moved DEF IInv, AccountsTypeOK, DropSteps

LEMMA InsertTokenOK == ASSUME IInv, NEW q \in Calls, InsertToken(q) PROVE IInv'
<1>. DEFINE u == calls[q].target
            Row(id) == [id |-> id, user |-> u, born |-> epoch[u]]
<1>1. u \in UserNames /\ calls[q].step = "tokInsert" /\ UNCHANGED <<user, sessions, epoch, missed>>
  BY DEF InsertToken, IInv, RequestOK
<1>7. PICK id \in TokenIds : tokens' = tokens \cup {Row(id)} /\ \A x \in tokens : x.id # id
  BY DEF InsertToken
<1>. DEFINE t == Row(id)
<1>2. t \in Token /\ t.id = id /\ t.user = u /\ t.born = epoch[u]
  BY <1>1 DEF Token, IInv, AccountsTypeOK
<1>8. tokens' = tokens \cup {t}
  BY <1>7
<1>. HIDE DEF t
<1>3. tokens' = tokens \cup {t} /\ \A x, y \in tokens' : x.id = y.id => x = y
  BY <1>2, <1>7, <1>8 DEF IInv, AccountsTypeOK
<1>4. calls' \in [Calls -> Call] /\ calls'[q].step = "idle" /\ \A p \in Calls : p # q => calls'[p] = calls[p]
  BY IdleType DEF InsertToken, Finish, IInv, AccountsTypeOK
<1>5. \A x \in tokens' : x.born = epoch[x.user] \/ x \in tokens
  BY <1>2, <1>3
<1>6. tokens' \in SUBSET Token
  BY <1>2, <1>3 DEF IInv, AccountsTypeOK
<1>. QED BY <1>1, <1>3, <1>4, <1>5, <1>6, Moved DEF IInv, AccountsTypeOK, DropSteps

\* Sessions and tokens that end by themselves.
LEMMA FewerOK ==
  ASSUME IInv, UNCHANGED <<user, calls, epoch, missed>>, sessions' \subseteq sessions,
         tokens' \subseteq tokens
  PROVE  IInv'
BY DEF IInv, AccountsTypeOK, Known, RequestOK, AloneOK, Admins, Enabled, NoOldSession, NoOldToken, Dropping

LEMMA EndsOK ==
  ASSUME IInv,
         \/ \E s \in sessions : EndSession(s)
         \/ \E t \in tokens : RevokeToken(t) \/ ExpireToken(t)
  PROVE  IInv'
<1>1. ASSUME NEW s \in sessions, EndSession(s) PROVE IInv'
  BY <1>1, FewerOK DEF EndSession, IInv, AccountsTypeOK
<1>2. ASSUME NEW t \in tokens, RevokeToken(t) \/ ExpireToken(t) PROVE IInv'
  BY <1>2, FewerOK DEF RevokeToken, ExpireToken
<1>. QED BY <1>1, <1>2

\* The requests that read and begin.
LEMMA Began ==
  ASSUME IInv, NEW q \in Calls, NEW r \in Call, BeginCall(q, r),
         r.step \in {"session", "pwWrite", "tokInsert", "resetWrite"},
         r.target \in UserNames, Known(r.target),
         UNCHANGED <<user, sessions, tokens, epoch, missed>>
  PROVE  IInv'
<1>1. /\ calls' \in [Calls -> Call] /\ \A p \in Calls : p # q => calls'[p] = calls[p]
      /\ calls'[q] = r /\ calls[q].step = "idle"
  BY DEF BeginCall, IInv, AccountsTypeOK
<1>. QED BY <1>1, Moved DEF IInv, AccountsTypeOK, NoOldSession, NoOldToken, DropSteps

LEMMA LoginReadOK == ASSUME IInv, NEW q \in Calls, NEW u \in UserNames, LoginRead(q, u) PROVE IInv'
<1>. DEFINE r == [NoCall EXCEPT !.step = "session", !.target = u]
<1>1. r \in Call /\ r.step = "session" /\ r.target = u
  BY IdleType DEF Call, Steps
<1>. HIDE DEF r
<1>2. BeginCall(q, r) /\ Known(u) /\ UNCHANGED <<user, sessions, tokens, epoch, missed>>
  BY DEF LoginRead, Enabled, r
<1>. QED BY <1>1, <1>2, Began

LEMMA ReadPasswordOK == ASSUME IInv, NEW q \in Calls, NEW u \in UserNames, ReadPassword(q, u) PROVE IInv'
<1>. DEFINE r == [NoCall EXCEPT !.step = "pwWrite", !.own = TRUE, !.target = u]
<1>1. r \in Call /\ r.step = "pwWrite" /\ r.target = u
  BY IdleType DEF Call, Steps
<1>. HIDE DEF r
<1>2. BeginCall(q, r) /\ Known(u) /\ UNCHANGED <<user, sessions, tokens, epoch, missed>>
  BY DEF ReadPassword, Served, Enabled, r
<1>. QED BY <1>1, <1>2, Began

LEMMA CountTokensOK == ASSUME IInv, NEW q \in Calls, NEW u \in UserNames, CountTokens(q, u) PROVE IInv'
<1>. DEFINE r == [NoCall EXCEPT !.step = "tokInsert", !.target = u]
<1>1. r \in Call /\ r.step = "tokInsert" /\ r.target = u
  BY IdleType DEF Call, Steps
<1>. HIDE DEF r
<1>2. BeginCall(q, r) /\ Known(u) /\ UNCHANGED <<user, sessions, tokens, epoch, missed>>
  BY DEF CountTokens, ServedFully, Served, Enabled, r
<1>. QED BY <1>1, <1>2, Began

LEMMA ReadResetOK ==
  ASSUME IInv, NEW q \in Calls, NEW u \in UserNames, NEW t \in UserNames, ReadReset(q, u, t) PROVE IInv'
<1>. DEFINE r == [NoCall EXCEPT !.step = "resetWrite", !.target = t]
<1>1. r \in Call /\ r.step = "resetWrite" /\ r.target = t
  BY IdleType DEF Call, Steps
<1>. HIDE DEF r
<1>2. BeginCall(q, r) /\ Known(t) /\ UNCHANGED <<user, sessions, tokens, epoch, missed>>
  BY DEF ReadReset, r
<1>. QED BY <1>1, <1>2, Began

\* An update that has read the row knows it.
LEMMA LoadUserOK == ASSUME IInv, NEW q \in Calls, NEW t \in UserNames, LoadUser(q, t) PROVE IInv'
<1>1. PICK own \in BOOLEAN :
        \E next \in Asked(own, user[t].attr) :
          BeginCall(q, [NoCall EXCEPT !.target = t, !.next = next,
                          !.drops = next.disabled /\ ~user[t].attr.disabled,
                          !.step = IF LosingAdmin(user[t].attr, next) THEN "count" ELSE "write"])
  BY DEF LoadUser
<1>10. PICK next \in Asked(own, user[t].attr) :
          BeginCall(q, [NoCall EXCEPT !.target = t, !.next = next,
                          !.drops = next.disabled /\ ~user[t].attr.disabled,
                          !.step = IF LosingAdmin(user[t].attr, next) THEN "count" ELSE "write"])
  BY <1>1
<1>. DEFINE drops == next.disabled /\ ~user[t].attr.disabled
            losing == LosingAdmin(user[t].attr, next)
            step == IF losing THEN "count" ELSE "write"
            r == [NoCall EXCEPT !.target = t, !.next = next, !.drops = drops, !.step = step]
<1>2. next \in Attr /\ Known(t) /\ user[t].attr \in Attr
  BY DEF Asked, LoadUser, Known, IInv, AccountsTypeOK, UserRow
<1>3. drops \in BOOLEAN
  BY <1>2 DEF Attr
<1>4. step \in {"count", "write"} /\ (step = "write" => ~losing)
  OBVIOUS
<1>5. calls[q].step = "idle" /\ calls' = [calls EXCEPT ![q] = r] /\ UNCHANGED <<user, sessions, tokens, epoch, missed>>
  BY <1>10 DEF BeginCall, LoadUser
<1>6. drops = (next.disabled /\ ~user[t].attr.disabled)
  OBVIOUS
<1>. HIDE DEF drops, losing, step
<1>7. r \in Call
  BY <1>2, <1>3, <1>4, IdleType DEF Call, Steps
<1>8. r.target = t /\ r.next = next /\ r.drops = drops /\ r.step = step
  BY IdleType DEF Call
<1>. HIDE DEF r
<1>9. calls' \in [Calls -> Call] /\ (\A p \in Calls : p # q => calls'[p] = calls[p]) /\ calls'[q] = r
  BY <1>5, <1>7 DEF IInv, AccountsTypeOK
<1>11. /\ r.next \in Attr /\ r.step \in {"count", "write"}
       /\ r.drops = (r.next.disabled /\ ~user[r.target].attr.disabled)
       /\ ~(r.step = "write" /\ LosingAdmin(user[r.target].attr, r.next))
  BY <1>2, <1>4, <1>6, <1>8 DEF losing
<1>12. r.target \in UserNames /\ Known(r.target)
  BY <1>2, <1>8
<1>. QED BY <1>5, <1>9, <1>11, <1>12, Moved DEF IInv, AccountsTypeOK, NoOldSession, NoOldToken, DropSteps

\* The count finds somebody else.
LEMMA CountAdminsOK == ASSUME IInv, NEW q \in Calls, CountAdmins(q) PROVE IInv'
<1>1. /\ calls[q].step = "count" /\ Admins \ {calls[q].target} # {}
      /\ calls' = [calls EXCEPT ![q] = [calls[q] EXCEPT !.step = "write"]]
      /\ UNCHANGED <<user, sessions, tokens, epoch, missed>>
  BY DEF CountAdmins, CallGoto, IInv, AccountsTypeOK
<1>2. calls[q] \in Call /\ calls[q].target \in UserNames /\ calls[q].next \in Attr /\ Known(calls[q].target)
  BY <1>1 DEF IInv, AccountsTypeOK, RequestOK
<1>3. /\ calls' \in [Calls -> Call] /\ \A p \in Calls : p # q => calls'[p] = calls[p]
      /\ calls'[q].step = "write" /\ calls'[q].target = calls[q].target /\ calls'[q].next = calls[q].next
      /\ calls'[q].drops = calls[q].drops /\ calls'[q].alone = calls[q].alone
  BY <1>1, <1>2 DEF IInv, AccountsTypeOK, Call, Steps
<1>4. calls[q].alone => calls[q].drops = (calls[q].next.disabled /\ ~user[calls[q].target].attr.disabled)
  BY <1>1 DEF IInv, AloneOK
<1>. QED BY <1>1, <1>2, <1>3, <1>4, Moved DEF IInv, AccountsTypeOK, NoOldSession, NoOldToken, DropSteps

-----------------------------------------------------------------------------
\* Steps that write a row of users

\* m is what the requests are after the write, before the updates in progress
\* learn that they have been overtaken.
LEMMA Wrote ==
  ASSUME IInv, NEW t \in UserNames, NEW m \in [Calls -> Call], calls' = CallsOvertaken(m),
         UNCHANGED <<sessions, tokens>>, missed \subseteq missed', missed' \subseteq UserNames,
         user' \in [UserNames -> UserRow \cup {NoRow}], user'[t] # NoRow,
         \A u \in UserNames : u # t => user'[u] = user[u],
         epoch' \in [UserNames -> Epoch], \A u \in UserNames : u # t => epoch'[u] = epoch[u],
         \A p \in Calls : \/ m[p] = calls[p]
                          \/ m[p].step = "idle"
                          \/ m[p].step = "dropSessions" /\ m[p].target = t,
         \A p \in Calls : calls[p].step \in DropSteps => m[p] = calls[p],
         \/ epoch'[t] = epoch[t]
         \/ t \in missed'
         \/ \E p \in Calls : m[p].step = "dropSessions" /\ m[p].target = t
  PROVE  IInv'
<1>1. /\ calls' \in [Calls -> Call]
      /\ \A p \in Calls : /\ calls'[p].step = m[p].step /\ calls'[p].own = m[p].own
                          /\ calls'[p].target = m[p].target /\ calls'[p].next = m[p].next
                          /\ m[p].step \in {"count", "write"} => ~calls'[p].alone
  BY OvertakenType
<1>. HIDE DEF CallsOvertaken
<1>2. AccountsTypeOK'
  <2>1. \A u \in UserNames : Known(u) => user'[u] # NoRow
    BY DEF Known
  <2>2. \A p \in Calls : m[p] = calls[p] => /\ m[p].step # "idle" => user'[m[p].target] # NoRow
                                            /\ m[p].step = "renew" => m[p].own
    BY <2>1 DEF IInv, AccountsTypeOK, RequestOK
  <2>3. \A p \in Calls : /\ m[p].step # "idle" => user'[m[p].target] # NoRow
                         /\ m[p].step = "renew" => m[p].own
    BY <2>2
  <2>4. \A p \in Calls : /\ calls'[p].step # "idle" => Known(calls[p].target)'
                         /\ calls'[p].step = "renew" => calls'[p].own
    BY <1>1, <2>3 DEF Known
  <2>. QED BY <1>1, <2>4 DEF IInv, AccountsTypeOK
<1>3. RequestOK'
  BY <1>1 DEF IInv, RequestOK
<1>4. AloneOK'
  BY <1>1 DEF AloneOK
<1>5. ASSUME NEW u \in UserNames, NEW steps \in {{"dropSessions"}, DropSteps}, Dropping(u, steps)
      PROVE  Dropping(u, steps)'
  BY <1>1, <1>5 DEF Dropping, DropSteps
<1>6. ASSUME NEW steps \in {{"dropSessions"}, DropSteps}
      PROVE  epoch'[t] = epoch[t] \/ t \in missed' \/ Dropping(t, steps)'
  BY <1>1 DEF Dropping, DropSteps
<1>7. NoOldSession'
  <2>. SUFFICES ASSUME NEW s \in sessions
                PROVE  s.born = epoch'[s.user] \/ Dropping(s.user, {"dropSessions"})' \/ s.user \in missed'
    BY DEF NoOldSession
  <2>1. s.user \in UserNames
    BY DEF IInv, AccountsTypeOK, Session
  <2>. QED BY <1>5, <1>6, <2>1 DEF IInv, NoOldSession
<1>8. NoOldToken'
  <2>. SUFFICES ASSUME NEW s \in tokens
                PROVE  s.born = epoch'[s.user] \/ Dropping(s.user, DropSteps)' \/ s.user \in missed'
    BY DEF NoOldToken
  <2>1. s.user \in UserNames
    BY DEF IInv, AccountsTypeOK, Token
  <2>. QED BY <1>5, <1>6, <2>1 DEF IInv, NoOldToken
<1>. QED BY <1>2, <1>3, <1>4, <1>7, <1>8 DEF IInv

LEMMA NextEpochType == ASSUME IInv, NEW t \in UserNames, NextEpoch(t)
                       PROVE  epoch' \in [UserNames -> Epoch] /\ \A u \in UserNames : u # t => epoch'[u] = epoch[u]
<1>1. epoch[t] \in Nat /\ epoch[t] < MaxEpoch /\ MaxEpoch \in Nat
  BY AccountsAssumption DEF AccountsAssumption, NextEpoch, IInv, AccountsTypeOK, Epoch
<1>2. epoch[t] + 1 \in Epoch
  BY <1>1 DEF Epoch
<1>. QED BY <1>2 DEF NextEpoch, IInv, AccountsTypeOK

LEMMA WritePasswordOK == ASSUME IInv, NEW q \in Calls, WritePassword(q) PROVE IInv'
<1>. DEFINE t == calls[q].target
            pw == IF calls[q].own THEN "own" ELSE "temporary"
            r == [calls[q] EXCEPT !.step = "dropSessions"]
            m == [calls EXCEPT ![q] = r]
<1>1. t \in UserNames /\ user[t] \in UserRow /\ calls[q] \in Call
  BY DEF WritePassword, IInv, AccountsTypeOK, RequestOK, Known
<1>2. /\ user' = [user EXCEPT ![t] = [user[t] EXCEPT !.password = pw]]
      /\ NextEpoch(t) /\ calls' = CallsOvertaken(m) /\ UNCHANGED <<sessions, tokens, missed>>
      /\ calls[q].step \notin DropSteps
  BY <1>1 DEF WritePassword, Overtake, IInv, AccountsTypeOK, DropSteps
<1>3. pw \in Passwords
  BY DEF Passwords
<1>. HIDE DEF pw
<1>4. [user[t] EXCEPT !.password = pw] \in UserRow
  BY <1>1, <1>3 DEF UserRow
<1>5. r \in Call /\ r.step = "dropSessions" /\ r.target = t
  BY <1>1 DEF Call, Steps
<1>. HIDE DEF r
<1>6. /\ m \in [Calls -> Call] /\ m[q] = r /\ \A p \in Calls : p # q => m[p] = calls[p]
  BY <1>5 DEF IInv, AccountsTypeOK
<1>. HIDE DEF m
<1>7. /\ user' \in [UserNames -> UserRow \cup {NoRow}] /\ user'[t] # NoRow
      /\ \A u \in UserNames : u # t => user'[u] = user[u]
  BY <1>1, <1>2, <1>4, Nulls DEF IInv, AccountsTypeOK
<1>8. missed \subseteq missed' /\ missed' \subseteq UserNames
  BY <1>2 DEF IInv, AccountsTypeOK
<1>9. /\ \A p \in Calls : \/ m[p] = calls[p]
                          \/ m[p].step = "dropSessions" /\ m[p].target = t
      /\ \A p \in Calls : calls[p].step \in DropSteps => m[p] = calls[p]
      /\ \E p \in Calls : m[p].step = "dropSessions" /\ m[p].target = t
  BY <1>2, <1>5, <1>6
<1>. QED BY <1>1, <1>2, <1>6, <1>7, <1>8, <1>9, NextEpochType, Wrote

LEMMA CreateUserOK == ASSUME IInv, NEW t \in UserNames, CreateUser(t) PROVE IInv'
<1>1. PICK role \in Roles, password \in {"temporary", "directory"} :
        user' = [user EXCEPT ![t] = [attr |-> [role |-> role, disabled |-> FALSE], password |-> password]]
  BY DEF CreateUser
<1>2. [attr |-> [role |-> role, disabled |-> FALSE], password |-> password] \in UserRow
  BY DEF UserRow, Attr, Passwords
<1>3. /\ user' \in [UserNames -> UserRow \cup {NoRow}] /\ user'[t] # NoRow
      /\ \A u \in UserNames : u # t => user'[u] = user[u]
  BY <1>1, <1>2, Nulls DEF IInv, AccountsTypeOK
<1>4. calls' = CallsOvertaken(calls) /\ UNCHANGED <<sessions, tokens, epoch, missed>>
  BY DEF CreateUser
<1>. QED BY <1>3, <1>4, Wrote DEF IInv, AccountsTypeOK

\* Who disables a user drops his sessions, knows nothing of it as he was overtaken,
\* or was not the one who did.
LEMMA WriteUserOK == ASSUME IInv, NEW q \in Calls, WriteUser(q) PROVE IInv'
<1>. DEFINE t == calls[q].target
            drops == calls[q].drops
            disables == ~user[t].attr.disabled /\ calls[q].next.disabled
            r == IF drops THEN [NoCall EXCEPT !.step = "dropSessions", !.target = t] ELSE NoCall
            m == [calls EXCEPT ![q] = r]
<1>1. t \in UserNames /\ user[t] \in UserRow /\ calls[q] \in Call /\ calls[q].next \in Attr /\ calls[q].step = "write"
  BY DEF WriteUser, IInv, AccountsTypeOK, RequestOK, Known
<1>2. /\ user' = [user EXCEPT ![t] = [user[t] EXCEPT !.attr = calls[q].next]]
      /\ IF disables THEN NextEpoch(t) ELSE UNCHANGED epoch
      /\ missed' = IF disables /\ ~drops /\ ~calls[q].alone THEN missed \cup {t} ELSE missed
      /\ calls' = CallsOvertaken(m) /\ UNCHANGED <<sessions, tokens>>
  BY <1>1 DEF WriteUser, Overtake, IInv, AccountsTypeOK
<1>3. [user[t] EXCEPT !.attr = calls[q].next] \in UserRow
  BY <1>1 DEF UserRow
<1>4. /\ user' \in [UserNames -> UserRow \cup {NoRow}] /\ user'[t] # NoRow
      /\ \A u \in UserNames : u # t => user'[u] = user[u]
  BY <1>1, <1>2, <1>3, Nulls DEF IInv, AccountsTypeOK
<1>5. [NoCall EXCEPT !.step = "dropSessions", !.target = t] \in Call
  BY <1>1, IdleType DEF Call, Steps
<1>6. /\ r \in Call
      /\ drops => r.step = "dropSessions" /\ r.target = t
      /\ ~drops => r.step = "idle"
  BY <1>5, IdleType DEF Call
<1>7. calls[q].alone => drops = disables
  BY <1>1 DEF IInv, AloneOK
<1>8. disables => drops \/ t \in missed'
  BY <1>2, <1>7
<1>9. missed \subseteq missed' /\ missed' \subseteq UserNames
  BY <1>1, <1>2 DEF IInv, AccountsTypeOK
<1>10. /\ epoch' \in [UserNames -> Epoch] /\ \A u \in UserNames : u # t => epoch'[u] = epoch[u]
       /\ disables \/ epoch'[t] = epoch[t]
  BY <1>1, <1>2, NextEpochType DEF IInv, AccountsTypeOK
<1>11. calls[q].step \notin DropSteps
  BY <1>1 DEF DropSteps
<1>. HIDE DEF r, disables
<1>12. m \in [Calls -> Call] /\ m[q] = r /\ \A p \in Calls : p # q => m[p] = calls[p]
  BY <1>6 DEF IInv, AccountsTypeOK
<1>. HIDE DEF m
<1>13. /\ \A p \in Calls : \/ m[p] = calls[p]
                           \/ m[p].step = "idle"
                           \/ m[p].step = "dropSessions" /\ m[p].target = t
       /\ \A p \in Calls : calls[p].step \in DropSteps => m[p] = calls[p]
  BY <1>6, <1>11, <1>12
<1>14. \/ epoch'[t] = epoch[t]
       \/ t \in missed'
       \/ \E p \in Calls : m[p].step = "dropSessions" /\ m[p].target = t
  BY <1>6, <1>8, <1>10, <1>12
<1>15. calls' = CallsOvertaken(m) /\ UNCHANGED <<sessions, tokens>>
  BY <1>2
<1>16. t \in UserNames /\ m \in [Calls -> Call]
       /\ epoch' \in [UserNames -> Epoch] /\ \A u \in UserNames : u # t => epoch'[u] = epoch[u]
  BY <1>1, <1>10, <1>12
<1>. HIDE DEF t
<1>. QED BY <1>4, <1>9, <1>13, <1>14, <1>15, <1>16, Wrote

-----------------------------------------------------------------------------
LEMMA NextOK == ASSUME IInv, [AccountsNext]_accountsVars PROVE IInv'
<1>1. ASSUME NEW q \in Calls, CallStep(q) PROVE IInv'
  BY <1>1, LoginReadOK, ReadPasswordOK, CountTokensOK, LoadUserOK, ReadResetOK, CreateSessionOK,
     WritePasswordOK, DropSessionsOK, DropTokensOK, InsertTokenOK, CountAdminsOK, WriteUserOK, AbortOK
     DEF CallStep
<1>2. ASSUME NEW u \in UserNames, CreateUser(u) PROVE IInv'
  BY <1>2, CreateUserOK
<1>3. CASE UNCHANGED accountsVars
  BY <1>3, FewerOK DEF accountsVars, IInv, AccountsTypeOK
<1>. QED BY <1>1, <1>2, <1>3, EndsOK DEF AccountsNext

LEMMA Invariance == AccountsSpec => []IInv
BY InitOK, NextOK, PTL DEF AccountsSpec

\* Rows and requests keep their types: a request that writes a row of users has found
\* it, and only a change of the own password goes on to a session without a login.
THEOREM TypeCorrect == AccountsSpec => []AccountsTypeOK
<1>1. IInv => AccountsTypeOK
  BY DEF IInv
<1>. QED BY <1>1, Invariance, PTL

\* Whatever changes, resets and disablings run at the same time, a session of an
\* earlier epoch is about to be dropped, or its user is one of those missed.
THEOREM OldSessionsEnd == AccountsSpec => []NoOldSession
<1>1. IInv => NoOldSession
  BY DEF IInv
<1>. QED BY <1>1, Invariance, PTL

\* The same for API tokens, which are revoked after the sessions are gone.
THEOREM OldTokensEnd == AccountsSpec => []NoOldToken
<1>1. IInv => NoOldToken
  BY DEF IInv
<1>. QED BY <1>1, Invariance, PTL

-----------------------------------------------------------------------------
\* Only an update of a row loses an administrator, and if it is alone it has counted
\* somebody else.
LEMMA SameUsers == ASSUME UNCHANGED user PROVE Admins' = Admins
BY DEF Admins, Enabled, Known

LEMMA PasswordKeepsAdmins == ASSUME IInv, NEW q \in Calls, WritePassword(q) PROVE Admins' = Admins
<1>1. calls[q].target \in UserNames /\ user[calls[q].target] \in UserRow
  BY DEF WritePassword, IInv, AccountsTypeOK, RequestOK, Known
<1>2. \A u \in UserNames : Known(u)' = Known(u) /\ user'[u].attr = user[u].attr
  <2>. SUFFICES ASSUME NEW u \in UserNames PROVE Known(u)' = Known(u) /\ user'[u].attr = user[u].attr
    OBVIOUS
  <2>1. CASE u # calls[q].target
    BY <2>1 DEF WritePassword, Known, IInv, AccountsTypeOK
  <2>2. CASE u = calls[q].target
    <3>1. PICK pw \in Passwords : user'[u] = [user[u] EXCEPT !.password = pw]
      BY <1>1, <2>2 DEF WritePassword, Passwords, IInv, AccountsTypeOK
    <3>2. user'[u] \in UserRow /\ user'[u].attr = user[u].attr
      BY <1>1, <2>2, <3>1 DEF UserRow
    <3>. QED BY <1>1, <2>2, <3>2, Nulls DEF Known
  <2>. QED BY <2>1, <2>2
<1>. QED BY <1>2 DEF Admins, Enabled

LEMMA CreateKeepsAdmins == ASSUME IInv, NEW t \in UserNames, CreateUser(t) PROVE Admins \subseteq Admins'
BY DEF CreateUser, Admins, Enabled, Known, IInv, AccountsTypeOK

LEMMA UpdateKeepsAdmin ==
  ASSUME IInv, NEW q \in Calls, WriteUser(q), calls[q].alone, Admins # {}
  PROVE  Admins' # {}
<1>. DEFINE t == calls[q].target
<1>1. t \in UserNames /\ user[t] \in UserRow /\ calls[q].next \in Attr /\ calls[q].step = "write"
  BY DEF WriteUser, IInv, AccountsTypeOK, RequestOK, Known
<1>2. /\ \A u \in UserNames : u # t => user'[u] = user[u]
      /\ user'[t] = [user[t] EXCEPT !.attr = calls[q].next]
  BY <1>1 DEF WriteUser, IInv, AccountsTypeOK
<1>3. user'[t] \in UserRow /\ user'[t].attr = calls[q].next
  BY <1>1, <1>2 DEF UserRow
<1>4. Admins \ {t} \subseteq Admins'
  BY <1>2 DEF Admins, Enabled, Known
<1>5. CASE LosingAdmin(user[t].attr, calls[q].next)
  <2>1. Admins \ {t} # {}
    BY <1>1, <1>5 DEF IInv, AloneOK
  <2>. QED BY <1>4, <2>1
<1>6. CASE ~LosingAdmin(user[t].attr, calls[q].next) /\ t \in Admins
  <2>1. ~calls[q].next.disabled /\ calls[q].next.role = "admin"
    BY <1>6 DEF LosingAdmin, Admins, Enabled
  <2>2. t \in Admins'
    BY <1>1, <1>3, <2>1, Nulls DEF Admins, Enabled, Known
  <2>. QED BY <2>2
<1>7. CASE t \notin Admins
  BY <1>4, <1>7
<1>. QED BY <1>5, <1>6, <1>7

\* Nobody locks the administration out by an update that no other write has overtaken.
THEOREM AdministratorStays == AccountsSpec => AdminKept
<1>. DEFINE Overtook == \E q \in Calls : calls[q].step = "write" /\ calls'[q].step # "write" /\ ~calls[q].alone
            Kept == Admins # {} /\ Admins' = {} => Overtook
<1>1. ASSUME IInv, [AccountsNext]_accountsVars PROVE Kept
  <2>1. ASSUME NEW q \in Calls, CallStep(q) PROVE Kept
    <3>1. CASE UNCHANGED user
      BY <3>1, SameUsers
    <3>2. CASE WritePassword(q)
      BY <1>1, <3>2, PasswordKeepsAdmins
    <3>3. CASE WriteUser(q)
      <4>1. CASE calls[q].alone
        BY <1>1, <3>3, <4>1, UpdateKeepsAdmin
      <4>2. CASE ~calls[q].alone
        <5>1. calls[q].step = "write"
          BY <3>3 DEF WriteUser
        <5>2. calls'[q].step # "write"
          <6>. DEFINE r == IF calls[q].drops
                           THEN [NoCall EXCEPT !.step = "dropSessions", !.target = calls[q].target]
                           ELSE NoCall
                      m == [calls EXCEPT ![q] = r]
          <6>1. calls' = CallsOvertaken(m) /\ calls[q].target \in UserNames
            BY <1>1, <3>3 DEF WriteUser, Overtake, IInv, RequestOK
          <6>2. r \in Call /\ r.step \in {"dropSessions", "idle"}
            BY <6>1, IdleType DEF Call, Steps
          <6>. HIDE DEF r
          <6>3. m \in [Calls -> Call] /\ m[q] = r
            BY <1>1, <6>2 DEF IInv, AccountsTypeOK
          <6>. QED BY <6>1, <6>2, <6>3, OvertakenType
        <5>. QED BY <4>2, <5>1, <5>2
      <4>. QED BY <4>1, <4>2
    <3>. QED BY <2>1, <3>1, <3>2, <3>3 DEF CallStep, LoginRead, ReadPassword, CountTokens, LoadUser, ReadReset,
           CreateSession, DropSessions, DropTokens, InsertToken, CountAdmins, AbortCall
  <2>2. ASSUME NEW u \in UserNames, CreateUser(u) PROVE Kept
    BY <1>1, <2>2, CreateKeepsAdmins
  <2>3. CASE \/ \E s \in sessions : EndSession(s)
             \/ \E t \in tokens : RevokeToken(t) \/ ExpireToken(t)
             \/ UNCHANGED accountsVars
    BY <2>3, SameUsers DEF EndSession, RevokeToken, ExpireToken, accountsVars
  <2>. QED BY <1>1, <2>1, <2>2, <2>3 DEF AccountsNext
<1>2. Kept => (Admins # {} /\ Admins' = {} => Overtook)
  OBVIOUS
<1>. QED BY <1>1, <1>2, Invariance, PTL DEF AccountsSpec, AdminKept

-----------------------------------------------------------------------------
\* The limit of tokens.  A request that has counted takes the place of the token it
\* will insert: the two together grow only by a count, which finds room for one.
LimitIInv == IsFiniteSet(tokens) /\ TokenLimit

LEMMA RequestsFinite ==
  /\ IsFiniteSet(Calls) /\ Cardinality(Calls) \in Nat /\ MaxActive \in Nat \ {0}
  /\ \A u : /\ IsFiniteSet(Inserting(u)) /\ Cardinality(Inserting(u)) \in Nat
            /\ Cardinality(Inserting(u)) <= Cardinality(Calls)
<1>1. IsFiniteSet(Calls) /\ MaxActive \in Nat \ {0}
  BY AccountsAssumption DEF AccountsAssumption
<1>2. \A u : Inserting(u) \subseteq Calls
  BY DEF Inserting
<1>. QED BY <1>1, <1>2, FS_Subset, FS_CardinalityType

LEMMA ActiveType ==
  ASSUME IsFiniteSet(tokens), NEW u
  PROVE  IsFiniteSet(TokensOf(u)) /\ Active(u) \in Nat
<1>1. TokensOf(u) \subseteq tokens
  BY DEF TokensOf
<1>. QED BY <1>1, FS_Subset, FS_CardinalityType DEF Active

\* Steps after which no more tokens are active and no more requests about to insert.
LEMMA LimitStays ==
  ASSUME LimitIInv, tokens' \subseteq tokens,
         \A p \in Calls : calls'[p].step = "tokInsert" =>
           calls[p].step = "tokInsert" /\ calls'[p].target = calls[p].target
  PROVE  LimitIInv'
<1>1. IsFiniteSet(tokens')
  BY FS_Subset DEF LimitIInv
<1>2. ASSUME NEW u \in UserNames
      PROVE  Active(u)' + Cardinality(Inserting(u)') < MaxActive + Cardinality(Calls)
  <2>1. TokensOf(u)' \subseteq TokensOf(u) /\ Inserting(u)' \subseteq Inserting(u)
    BY DEF TokensOf, Inserting
  <2>2. IsFiniteSet(TokensOf(u)) /\ Active(u) \in Nat
    BY ActiveType DEF LimitIInv
  <2>3. Active(u)' \in Nat /\ Active(u)' <= Active(u)
    BY <2>1, <2>2, FS_Subset, FS_CardinalityType DEF Active
  <2>4. /\ Cardinality(Inserting(u)') \in Nat /\ Cardinality(Inserting(u)) \in Nat
        /\ Cardinality(Inserting(u)') <= Cardinality(Inserting(u))
    BY <2>1, RequestsFinite, FS_Subset, FS_CardinalityType
  <2>5. Active(u) + Cardinality(Inserting(u)) < MaxActive + Cardinality(Calls)
    BY DEF LimitIInv, TokenLimit
  <2>. QED BY <2>2, <2>3, <2>4, <2>5, RequestsFinite
<1>. QED BY <1>1, <1>2 DEF LimitIInv, TokenLimit

\* The count leaves room for the tokens of all requests that may insert by now.
LEMMA CountTokensLimit ==
  ASSUME IInv, LimitIInv, NEW q \in Calls, NEW u \in UserNames, CountTokens(q, u)
  PROVE  LimitIInv'
<1>. DEFINE r == [NoCall EXCEPT !.step = "tokInsert", !.target = u]
<1>1. r.target = u
  BY DEF NoCall
<1>2. /\ tokens' = tokens /\ Active(u) < MaxActive /\ calls' = [calls EXCEPT ![q] = r]
  BY DEF CountTokens, BeginCall
<1>. HIDE DEF r
<1>3. calls'[q].target = u /\ \A p \in Calls : p # q => calls'[p] = calls[p]
  BY <1>1, <1>2 DEF IInv, AccountsTypeOK
<1>4. ASSUME NEW v \in UserNames
      PROVE  Active(v)' + Cardinality(Inserting(v)') < MaxActive + Cardinality(Calls)
  <2>1. Active(v)' = Active(v) /\ Active(v) \in Nat
    BY <1>2, ActiveType DEF LimitIInv, Active, TokensOf
  <2>2. Inserting(v)' \subseteq Calls
    BY DEF Inserting
  <2>3. /\ Cardinality(Inserting(v)') \in Nat
        /\ Cardinality(Inserting(v)') <= Cardinality(Calls)
    BY <2>2, RequestsFinite, FS_Subset, FS_CardinalityType
  <2>4. CASE v = u
    BY <1>2, <2>1, <2>3, <2>4, RequestsFinite
  <2>5. CASE v # u
    <3>1. Inserting(v)' \subseteq Inserting(v)
      BY <1>3, <2>5 DEF Inserting
    <3>2. Cardinality(Inserting(v)') <= Cardinality(Inserting(v)) /\ Cardinality(Inserting(v)) \in Nat
      BY <3>1, RequestsFinite, FS_Subset
    <3>3. Active(v) + Cardinality(Inserting(v)) < MaxActive + Cardinality(Calls)
      BY DEF LimitIInv, TokenLimit
    <3>. QED BY <2>1, <2>3, <3>2, <3>3, RequestsFinite
  <2>. QED BY <2>4, <2>5
<1>. QED BY <1>2, <1>4 DEF LimitIInv, TokenLimit

\* The token takes the place of the request.
LEMMA InsertTokenLimit ==
  ASSUME IInv, LimitIInv, NEW q \in Calls, InsertToken(q)
  PROVE  LimitIInv'
<1>. DEFINE u == calls[q].target
            Row(id) == [id |-> id, user |-> u, born |-> epoch[u]]
<1>1. PICK id \in TokenIds : tokens' = tokens \cup {Row(id)} /\ \A x \in tokens : x.id # id
  BY DEF InsertToken
<1>. DEFINE t == Row(id)
<1>2. t.user = u /\ t.id = id /\ tokens' = tokens \cup {t} /\ t \notin tokens
  BY <1>1
<1>. HIDE DEF t
<1>3. IsFiniteSet(tokens) /\ IsFiniteSet(tokens')
  BY <1>2, FS_AddElement DEF LimitIInv
<1>4. /\ calls[q].step = "tokInsert" /\ calls'[q].step = "idle"
      /\ \A p \in Calls : p # q => calls'[p] = calls[p]
  BY IdleType DEF InsertToken, Finish, IInv, AccountsTypeOK
<1>5. ASSUME NEW v \in UserNames
      PROVE  Active(v)' + Cardinality(Inserting(v)') < MaxActive + Cardinality(Calls)
  <2>1. Active(v) + Cardinality(Inserting(v)) < MaxActive + Cardinality(Calls)
    BY DEF LimitIInv, TokenLimit
  <2>2. IsFiniteSet(TokensOf(v)) /\ Active(v) \in Nat
    BY <1>3, ActiveType
  <2>3. CASE v = u
    <3>1. TokensOf(v)' = TokensOf(v) \cup {t} /\ t \notin TokensOf(v)
      BY <1>2, <2>3 DEF TokensOf
    <3>2. Active(v)' = Active(v) + 1
      BY <2>2, <3>1, FS_AddElement DEF Active
    <3>3. Inserting(v)' = Inserting(v) \ {q} /\ q \in Inserting(v)
      BY <1>4, <2>3 DEF Inserting
    <3>4. Cardinality(Inserting(v)') = Cardinality(Inserting(v)) - 1
      BY <3>3, RequestsFinite, FS_RemoveElement, ZenonT(60)
    <3>. QED BY <2>1, <2>2, <3>2, <3>4, RequestsFinite
  <2>4. CASE v # u
    <3>1. TokensOf(v)' = TokensOf(v)
      BY <1>2, <2>4 DEF TokensOf
    <3>2. Inserting(v)' = Inserting(v)
      BY <1>4, <2>4 DEF Inserting
    <3>. QED BY <2>1, <3>1, <3>2 DEF Active
  <2>. QED BY <2>3, <2>4
<1>. QED BY <1>3, <1>5 DEF LimitIInv, TokenLimit

\* No other step of a request makes one that is about to insert.
LEMMA OthersInsertNot ==
  ASSUME IInv, NEW q \in Calls, CallStep(q), ~\E u \in UserNames : CountTokens(q, u)
  PROVE  \A p \in Calls : calls'[p].step = "tokInsert" =>
           calls[p].step = "tokInsert" /\ calls'[p].target = calls[p].target
<1>. DEFINE Goal == \A p \in Calls : calls'[p].step = "tokInsert" =>
           calls[p].step = "tokInsert" /\ calls'[p].target = calls[p].target
<1>1. CASE \E u \in UserNames : LoginRead(q, u)
  <2>1. PICK u \in UserNames : LoginRead(q, u)
    BY <1>1
  <2>. QED BY <2>1 DEF LoginRead, BeginCall, NoCall, IInv, AccountsTypeOK
<1>2. CASE \E u \in UserNames : ReadPassword(q, u)
  <2>1. PICK u \in UserNames : ReadPassword(q, u)
    BY <1>2
  <2>. QED BY <2>1 DEF ReadPassword, BeginCall, NoCall, IInv, AccountsTypeOK
<1>3. CASE \E u, t \in UserNames : ReadReset(q, u, t)
  <2>1. PICK u \in UserNames, t \in UserNames : ReadReset(q, u, t)
    BY <1>3
  <2>. QED BY <2>1 DEF ReadReset, BeginCall, NoCall, IInv, AccountsTypeOK
<1>4. CASE \E u \in UserNames : LoadUser(q, u)
  <2>1. PICK u \in UserNames : LoadUser(q, u)
    BY <1>4
  <2>2. PICK own \in BOOLEAN :
          \E next \in Asked(own, user[u].attr) :
            BeginCall(q, [NoCall EXCEPT !.target = u, !.next = next,
                            !.drops = next.disabled /\ ~user[u].attr.disabled,
                            !.step = IF LosingAdmin(user[u].attr, next) THEN "count" ELSE "write"])
    BY <2>1 DEF LoadUser
  <2>3. PICK r \in {"count", "write"} : \E next, drops :
          calls' = [calls EXCEPT ![q] = [NoCall EXCEPT !.target = u, !.next = next, !.drops = drops, !.step = r]]
    BY <2>2 DEF BeginCall
  <2>. QED BY <2>3 DEF NoCall, IInv, AccountsTypeOK
<1>5. CASE CreateSession(q) \/ InsertToken(q) \/ AbortCall(q)
  BY <1>5, IdleType DEF CreateSession, InsertToken, AbortCall, Finish, IInv, AccountsTypeOK
<1>6. CASE DropSessions(q) \/ DropTokens(q) \/ CountAdmins(q)
  <2>1. PICK r \in {NoCall} \cup {[calls[q] EXCEPT !.step = x] : x \in {"dropTokens", "renew", "write"}} :
          calls' = [calls EXCEPT ![q] = r]
    BY <1>6 DEF DropSessions, DropTokens, CountAdmins, CallGoto, Finish, IInv, AccountsTypeOK
  <2>2. r.step # "tokInsert"
    BY <2>1, IdleType DEF IInv, AccountsTypeOK, Call
  <2>. QED BY <2>1, <2>2 DEF IInv, AccountsTypeOK
<1>7. CASE WritePassword(q) \/ WriteUser(q)
  <2>1. PICK r \in {NoCall, [calls[q] EXCEPT !.step = "dropSessions"],
                    [NoCall EXCEPT !.step = "dropSessions", !.target = calls[q].target]} :
          calls' = CallsOvertaken([calls EXCEPT ![q] = r])
    BY <1>7 DEF WritePassword, WriteUser, Overtake
  <2>2. r.step # "tokInsert" /\ r \in Call
    <3>1. calls[q] \in Call /\ calls[q].target \in UserNames \cup {NoAccount}
      BY DEF IInv, AccountsTypeOK, Call
    <3>2. /\ [calls[q] EXCEPT !.step = "dropSessions"] \in Call
          /\ [calls[q] EXCEPT !.step = "dropSessions"].step = "dropSessions"
      BY <3>1 DEF Call, Steps
    <3>3. /\ [NoCall EXCEPT !.step = "dropSessions", !.target = calls[q].target] \in Call
          /\ [NoCall EXCEPT !.step = "dropSessions", !.target = calls[q].target].step = "dropSessions"
      BY <3>1, IdleType DEF Call, Steps
    <3>. QED BY <3>2, <3>3, IdleType
  <2>. DEFINE m == [calls EXCEPT ![q] = r]
  <2>3. m \in [Calls -> Call] /\ m[q] = r /\ \A p \in Calls : p # q => m[p] = calls[p]
    BY <2>2 DEF IInv, AccountsTypeOK
  <2>4. calls' = CallsOvertaken(m)
    BY <2>1
  <2>. HIDE DEF m
  <2>. QED BY <2>2, <2>3, <2>4, OvertakenType
<1>. QED BY <1>1, <1>2, <1>3, <1>4, <1>5, <1>6, <1>7 DEF CallStep

LEMMA NextLimit == ASSUME IInv, LimitIInv, [AccountsNext]_accountsVars PROVE LimitIInv'
<1>1. ASSUME NEW q \in Calls, CallStep(q) PROVE LimitIInv'
  <2>1. ASSUME NEW u \in UserNames, CountTokens(q, u) PROVE LimitIInv'
    BY <2>1, CountTokensLimit
  <2>2. CASE InsertToken(q)
    BY <2>2, InsertTokenLimit
  <2>3. CASE ~InsertToken(q) /\ ~\E u \in UserNames : CountTokens(q, u)
    <3>1. tokens' \subseteq tokens
      BY <1>1, <2>3 DEF CallStep, LoginRead, ReadPassword, LoadUser, ReadReset, CreateSession,
         WritePassword, DropSessions, DropTokens, CountAdmins, WriteUser, AbortCall
    <3>. QED BY <1>1, <2>3, <3>1, OthersInsertNot, LimitStays
  <2>. QED BY <2>1, <2>2, <2>3
<1>2. ASSUME NEW u \in UserNames, CreateUser(u) PROVE LimitIInv'
  <2>1. calls' = CallsOvertaken(calls) /\ tokens' = tokens
    BY <1>2 DEF CreateUser
  <2>2. calls \in [Calls -> Call]
    BY DEF IInv, AccountsTypeOK
  <2>. QED BY <2>1, <2>2, OvertakenType, LimitStays
<1>3. CASE \/ \E s \in sessions : EndSession(s)
           \/ \E t \in tokens : RevokeToken(t) \/ ExpireToken(t)
           \/ UNCHANGED accountsVars
  <2>1. tokens' \subseteq tokens /\ calls' = calls
    BY <1>3 DEF EndSession, RevokeToken, ExpireToken, accountsVars
  <2>. QED BY <2>1, LimitStays
<1>. QED BY <1>1, <1>2, <1>3 DEF AccountsNext

\* A user has no more active tokens than allowed and than requests counted together
\* (CreateAPIToken).
THEOREM TokensAreLimited == AccountsSpec => []TokenLimit
<1>1. AccountsInit => LimitIInv
  <2>. SUFFICES ASSUME AccountsInit PROVE LimitIInv
    OBVIOUS
  <2>1. IsFiniteSet(tokens) /\ \A u : TokensOf(u) = {} /\ Inserting(u) = {}
    BY IdleType, FS_EmptySet DEF AccountsInit, TokensOf, Inserting
  <2>. QED BY <2>1, RequestsFinite, FS_EmptySet DEF LimitIInv, TokenLimit, Active
<1>2. IInv /\ LimitIInv /\ [AccountsNext]_accountsVars => LimitIInv'
  BY NextLimit
<1>3. LimitIInv => TokenLimit
  BY DEF LimitIInv
<1>. QED BY <1>1, <1>2, <1>3, Invariance, PTL DEF AccountsSpec
================================================================================
