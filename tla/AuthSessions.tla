---------------------------- MODULE AuthSessions ----------------------------
(***************************************************************************)
(* The sessions of one user: refresh-token families, access tokens, the    *)
(* token_version of the user, and the requests that change them at once.   *)
(*                                                                         *)
(* A request is one transaction (get_db), at READ COMMITTED: it reads what *)
(* is committed, keeps what it has read in its session, and its UPDATEs    *)
(* wait for the row's lock and then overwrite. A step is one statement or  *)
(* the final commit. A request that ends without a write but an audit row  *)
(* (a wrong password, an unknown, revoked or expired token) is no step.    *)
(***************************************************************************)
EXTENDS Naturals, Sequences, FiniteSets

CONSTANTS
  MaxTokens,    \* bound: refresh tokens that may be inserted
  Requests,     \* requests that may be in progress at a time
  MaxRequests,  \* bound: requests that are made
  MaxFaults     \* bound: requests that fail between two statements

ASSUME AuthSessionsAssumption ==
  /\ MaxTokens \in Nat
  /\ MaxRequests \in Nat
  /\ MaxFaults \in Nat

\* A refresh token is named by its primary key. Keys are random: the order of the names
\* is the order in which a flush updates rows, and not that of creation. The access token
\* issued along with it has the same name, a family that of its first token.
Tokens == 1 .. MaxTokens

NoToken == 0

VARIABLES
  user,         \* the users row: token_version, the password and whether its hash is outdated
  tokens,       \* the refresh_tokens rows, with the ver claim of the access token of each
  denied,       \* access tokens on the denylist in Redis
  requests,     \* the session and the remaining statements of each request
  made,         \* how many requests were made: names the passwords they set
  faults,
  invalidated,  \* history: access tokens a committed bump of token_version found issued
  lostUpdate,   \* history: such a bump has overwritten a version it had not read
  lastSet,      \* history: the password of the last committed change or reset
  rehashedOver, \* history: a login has replaced a hash that it had not read
  closed,       \* history: families a committed revocation covered
  mixed,        \* history: families a refresh and a revocation overlapped in
  forked        \* history: families two refreshes overlapped in

history == <<invalidated, lostUpdate, lastSet, rehashedOver, closed, mixed, forked>>

vars == <<user, tokens, denied, requests, made, faults, history>>

AbsentToken ==
  [status |-> "none", family |-> NoToken, replacedBy |-> NoToken, ver |-> 0]

Idle ==
  [op |-> "none", steps |-> <<>>, seen |-> [version |-> 0, password |-> 0, outdated |-> FALSE],
   token |-> NoToken, loaded |-> "none", bearer |-> NoToken, new |-> NoToken, todo |-> {},
   rotated |-> FALSE, revoked |-> {}, wroteUser |-> FALSE, password |-> 0]

\* A user who has signed up; the hash may be of parameters used formerly.
Init ==
  /\ user \in [version : {0}, password : {0}, outdated : BOOLEAN]
  /\ tokens = [t \in Tokens |-> AbsentToken]
  /\ denied = {}
  /\ requests = [q \in Requests |-> Idle]
  /\ made = 0
  /\ faults = 0
  /\ invalidated = {}
  /\ lostUpdate = FALSE
  /\ lastSet = 0
  /\ rehashedOver = FALSE
  /\ closed = {}
  /\ mixed = {}
  /\ forked = {}

Issued == {t \in Tokens : tokens[t].status # "none"}

FamilyOf(t) == tokens[t].family

Families(S) == {FamilyOf(t) : t \in S}

(***************************************************************************)
(* The start of a request: authentication and the first read.              *)
(***************************************************************************)
Begin(q, request) ==
  /\ requests[q].op = "none"
  /\ made < MaxRequests
  /\ made' = made + 1
  /\ requests' = [requests EXCEPT ![q] = request]
  /\ UNCHANGED <<user, tokens, denied, faults, history>>

Request(op, steps) ==
  [Idle EXCEPT !.op = op, !.steps = steps, !.seen = user]

\* get_access_token_payload and get_current_user.
Accepted(a) ==
  /\ a \in Issued
  /\ a \notin denied
  /\ tokens[a].ver = user.version

\* Bound: a name is left for the token of each request that inserts one.
NameLeft ==
  Cardinality(Issued) + Cardinality({p \in Requests :
    requests[p].op \in {"login", "switch", "refresh"}}) < MaxTokens

Login(q) ==
  /\ NameLeft
  /\ Begin(q, Request("login", IF user.outdated THEN <<"user", "insert">> ELSE <<"insert">>))

SwitchTenant(q) ==
  /\ NameLeft
  /\ \E a \in Tokens : Accepted(a)
  /\ Begin(q, Request("switch", <<"insert">>))

Rotation(t) ==
  [Request("refresh", <<"load", "insert", "rotate">>) EXCEPT !.token = t]

\* revoke_family, with the status of the token as the session has loaded it.
FamilyRevocation(op, t, steps) ==
  [Request(op, steps) EXCEPT !.token = t, !.loaded = tokens[t].status]

\* Mutant of Refresh: the branch for REVOKED tokens is missing.
Refresh_AcceptsRevoked(q, t) ==
  /\ tokens[t].status \in {"ACTIVE", "REVOKED"}
  /\ NameLeft
  /\ Begin(q, Rotation(t))

\* Mutant of Refresh: the branch for ROTATED tokens is missing.
Refresh_AcceptsRotated(q, t) ==
  /\ tokens[t].status \in {"ACTIVE", "ROTATED"}
  /\ NameLeft
  /\ Begin(q, Rotation(t))

\* An ACTIVE token is rotated. The reuse of a ROTATED one revokes its family.
Refresh(q, t) ==
  \/ tokens[t].status = "ACTIVE" /\ NameLeft /\ Begin(q, Rotation(t))
  \/ tokens[t].status = "ROTATED" /\ Begin(q, FamilyRevocation("reuse", t, <<"select">>))

\* logout puts the access token it came with on the denylist when the family is revoked.
Logout(q, a, t) ==
  /\ Accepted(a)
  /\ t \in Issued
  /\ Begin(q, [FamilyRevocation("logout", t, <<"select", "deny">>) EXCEPT !.bearer = a])

RevokeSession(q, t) ==
  /\ \E a \in Tokens : Accepted(a)
  /\ t \in Issued
  /\ Begin(q, FamilyRevocation("revokeSession", t, <<"select">>))

ChangePassword(q) ==
  /\ \E a \in Tokens : Accepted(a)
  /\ Begin(q, [Request("changePassword", <<"user", "select">>) EXCEPT !.password = made + 1])

\* Mutant of ResetPassword: the sessions are revoked before the password is set.
ResetPassword_RevokesFirst(q) ==
  Begin(q, [Request("resetPassword", <<"select", "user">>) EXCEPT !.password = made + 1])

\* confirm_password_reset with a valid token of the mail.
ResetPassword(q) ==
  Begin(q, [Request("resetPassword", <<"user", "select">>) EXCEPT !.password = made + 1])

RevokeAllSessions(q) ==
  /\ \E a \in Tokens : Accepted(a)
  /\ Begin(q, Request("revokeAll", <<"select", "user">>))

(***************************************************************************)
(* The statements. A write takes the row's lock until the end.             *)
(***************************************************************************)
AtStep(q, step) ==
  /\ requests[q].steps # <<>>
  /\ Head(requests[q].steps) = step
  /\ requests[q].todo = {}

Proceed(q, request) ==
  /\ requests' = [requests EXCEPT ![q] = [request EXCEPT !.steps = Tail(@)]]
  /\ UNCHANGED <<user, tokens, made, faults, history>>

Locks(q) ==
  requests[q].revoked \cup (IF requests[q].rotated THEN {requests[q].token} ELSE {})

HasToken(p, t) == t \in Locks(p)

HasUser(p) == requests[p].wroteUser

\* refresh reads the user after the token.
Load(q) ==
  /\ AtStep(q, "load")
  /\ Proceed(q, [requests[q] EXCEPT !.seen = user])
  /\ UNCHANGED denied

\* set_password and bump_token_version.
WriteUser(q) ==
  /\ AtStep(q, "user")
  /\ \A p \in Requests : ~HasUser(p)
  /\ Proceed(q, [requests[q] EXCEPT !.wroteUser = TRUE])
  /\ UNCHANGED denied

\* The row is invisible to others until the commit.
Insert(q) ==
  /\ AtStep(q, "insert")
  /\ \E t \in Tokens \ Issued :
       /\ \A p \in Requests : requests[p].new # t
       /\ Proceed(q, [requests[q] EXCEPT !.new = t])
  /\ UNCHANGED denied

Rotate(q) ==
  /\ AtStep(q, "rotate")
  /\ \A p \in Requests : ~HasToken(p, requests[q].token)
  /\ Proceed(q, [requests[q] EXCEPT !.rotated = TRUE])
  /\ UNCHANGED denied

\* The SELECT of revoke_family and revoke_all_for_user.
SelectNonRevoked(q) ==
  /\ AtStep(q, "select")
  /\ Proceed(q, [requests[q] EXCEPT !.todo = {t \in Issued :
       /\ tokens[t].status # "REVOKED"
       /\ requests[q].token # NoToken => FamilyOf(t) = FamilyOf(requests[q].token)}])
  /\ UNCHANGED denied

\* One UPDATE of the flush; rows are updated in the order of their keys.
Revoke(q) ==
  /\ \E t \in requests[q].todo :
       /\ \A u \in requests[q].todo : t <= u
       /\ \A p \in Requests : ~HasToken(p, t)
       /\ requests' = [requests EXCEPT ![q].todo = @ \ {t}, ![q].revoked = @ \cup {t}]
  /\ UNCHANGED <<user, tokens, denied, made, faults, history>>

\* deny_token, before the request commits.
Deny(q) ==
  /\ AtStep(q, "deny")
  /\ denied' = denied \cup {requests[q].bearer}
  /\ Proceed(q, requests[q])

(***************************************************************************)
(* The end of a request.                                                   *)
(***************************************************************************)
Bumps(q) == requests[q].op \in {"changePassword", "resetPassword", "revokeAll"}

\* Mutant of UserAfter: the new password is written and token_version is not.
UserAfter_KeepsVersion(q) ==
  LET r == requests[q] IN
  IF ~r.wroteUser THEN user
  ELSE CASE r.op = "login" -> [user EXCEPT !.password = r.seen.password, !.outdated = FALSE]
         [] r.op = "revokeAll" -> [user EXCEPT !.version = r.seen.version + 1]
         [] OTHER -> [user EXCEPT !.password = r.password, !.outdated = FALSE]

\* Mutant of UserAfter: revoke_all_sessions writes all columns of the row it has read.
UserAfter_WritesAll(q) ==
  LET r == requests[q] IN
  IF ~r.wroteUser THEN user
  ELSE CASE r.op = "login" -> [user EXCEPT !.password = r.seen.password, !.outdated = FALSE]
         [] r.op = "revokeAll" -> [r.seen EXCEPT !.version = r.seen.version + 1]
         [] OTHER -> [version |-> r.seen.version + 1, password |-> r.password, outdated |-> FALSE]

\* Only changed columns are written, from what the session has read: a rehash writes
\* hashed_password, a password change also token_version, revoke_all_sessions only that.
UserAfter(q) ==
  LET r == requests[q] IN
  IF ~r.wroteUser THEN user
  ELSE CASE r.op = "login" -> [user EXCEPT !.password = r.seen.password, !.outdated = FALSE]
         [] r.op = "revokeAll" -> [user EXCEPT !.version = r.seen.version + 1]
         [] OTHER -> [version |-> r.seen.version + 1, password |-> r.password, outdated |-> FALSE]

\* The access token is created from the user as the session has read it.
NewToken(q) ==
  [status |-> "ACTIVE",
   family |-> IF requests[q].op = "refresh" THEN FamilyOf(requests[q].token)
                                            ELSE requests[q].new,
   replacedBy |-> NoToken,
   ver |-> requests[q].seen.version]

\* Mutant of TokensAfter: a rotation writes the status back that it has loaded.
TokensAfter_WritesLoaded(q) ==
  LET r == requests[q] IN
  [t \in Tokens |->
     CASE t = r.new -> NewToken(q)
       [] r.rotated /\ t = r.token ->
            [tokens[t] EXCEPT !.status = "ACTIVE", !.replacedBy = r.new]
       [] t \in r.revoked -> [tokens[t] EXCEPT !.status = "REVOKED"]
       [] OTHER -> tokens[t]]

\* A token the session has loaded as REVOKED is not changed by being revoked again.
TokensAfter(q) ==
  LET r == requests[q] IN
  [t \in Tokens |->
     CASE t = r.new -> NewToken(q)
       [] r.rotated /\ t = r.token ->
            [tokens[t] EXCEPT !.status = "ROTATED", !.replacedBy = r.new]
       [] t \in r.revoked /\ ~(t = r.token /\ r.loaded = "REVOKED") ->
            [tokens[t] EXCEPT !.status = "REVOKED"]
       [] OTHER -> tokens[t]]

\* The families a revocation has selected tokens of, and the family a refresh rotates in.
Revoking(q) == Families(requests[q].revoked \cup requests[q].todo)

Refreshing(q) ==
  IF requests[q].op = "refresh" THEN {FamilyOf(requests[q].token)} ELSE {}

Record(q) ==
  LET others == Requests \ {q} IN
  /\ invalidated' = IF Bumps(q) THEN invalidated \cup Issued ELSE invalidated
  /\ lostUpdate' = (lostUpdate \/ (Bumps(q) /\ requests[q].seen.version # user.version))
  /\ lastSet' = IF requests[q].op \in {"changePassword", "resetPassword"}
                  THEN requests[q].password ELSE lastSet
  /\ rehashedOver' = (rehashedOver \/ /\ requests[q].op = "login"
                                      /\ requests[q].wroteUser
                                      /\ requests[q].seen.password # user.password)
  /\ closed' = closed \cup Revoking(q)
  /\ mixed' = mixed \cup (Refreshing(q) \cap UNION {Revoking(p) : p \in others})
                    \cup (Revoking(q) \cap UNION {Refreshing(p) : p \in others})
  /\ forked' = forked \cup (Refreshing(q) \cap UNION {Refreshing(p) : p \in others})

Finished(q) ==
  requests[q].op # "none" /\ requests[q].steps = <<>> /\ requests[q].todo = {}

Commit(q) ==
  /\ Finished(q)
  /\ user' = UserAfter(q)
  /\ tokens' = TokensAfter(q)
  /\ Record(q)
  /\ requests' = [requests EXCEPT ![q] = Idle]
  /\ UNCHANGED <<denied, made, faults>>

\* Mutant of Rollback: the connection goes back to the pool with its transaction open.
Rollback_LeavesTransaction(q) ==
  /\ requests' = [requests EXCEPT ![q].op = "none", ![q].steps = <<>>, ![q].todo = {}]
  /\ UNCHANGED <<user, tokens, denied, made, history>>

Rollback(q) ==
  /\ requests' = [requests EXCEPT ![q] = Idle]
  /\ UNCHANGED <<user, tokens, denied, made, history>>

\* An exception, a lost connection, a process that dies: nothing of it but the denylist
\* stays, also when it is the commit that fails.
Fail(q) ==
  /\ requests[q].op # "none"
  /\ faults < MaxFaults
  /\ faults' = faults + 1
  /\ Rollback(q)

\* The requests that hold the row q has to wait for.
WaitsFor(q) ==
  LET r == requests[q] IN
  {p \in Requests :
     \/ AtStep(q, "user") /\ HasUser(p)
     \/ AtStep(q, "rotate") /\ HasToken(p, r.token)
     \/ \E t \in r.todo : (\A u \in r.todo : t <= u) /\ HasToken(p, t)}

\* A circle: each waits for another of S, and another of S waits for it.
WaitCycle(S) ==
  /\ S # {}
  /\ \A p \in S : /\ WaitsFor(p) \cap S # {}
                  /\ \E o \in S : p \in WaitsFor(o)

\* Postgres aborts one of the transactions that wait for each other.
DeadlockVictim(q) ==
  /\ \E S \in SUBSET Requests : q \in S /\ WaitCycle(S)
  /\ Rollback(q)
  /\ UNCHANGED faults

Statement(q) ==
  \/ Load(q) \/ WriteUser(q) \/ Insert(q) \/ Rotate(q)
  \/ SelectNonRevoked(q) \/ Revoke(q) \/ Deny(q)
  \/ Commit(q)
  \/ DeadlockVictim(q)

Next ==
  \E q \in Requests :
    \/ Login(q) \/ SwitchTenant(q)
    \/ \E t \in Tokens : Refresh(q, t) \/ RevokeSession(q, t)
    \/ \E a \in Tokens, t \in Tokens : Logout(q, a, t)
    \/ ChangePassword(q) \/ ResetPassword(q) \/ RevokeAllSessions(q)
    \/ Statement(q)
    \/ Fail(q)

Spec == Init /\ [][Next]_vars

\* A request that has begun goes on: nothing has to begin, and nothing has to fail.
FairSpec == Spec /\ \A q \in Requests : WF_vars(Statement(q))

-----------------------------------------------------------------------------
(***************************************************************************)
(* Properties.                                                             *)
(***************************************************************************)
TokenRow == [status : {"none", "ACTIVE", "ROTATED", "REVOKED"},
             family : Tokens \cup {NoToken}, replacedBy : Tokens \cup {NoToken}, ver : Nat]

UserRow == [version : Nat, password : Nat, outdated : BOOLEAN]

TypeOK ==
  /\ user \in UserRow
  /\ tokens \in [Tokens -> TokenRow]
  /\ denied \subseteq Tokens
  /\ made \in 0 .. MaxRequests
  /\ faults \in 0 .. MaxFaults
  /\ invalidated \subseteq Tokens
  /\ closed \subseteq Tokens
  /\ lastSet \in Nat
  /\ lostUpdate \in BOOLEAN
  /\ rehashedOver \in BOOLEAN

\* Every access token issued before "log out everywhere", a password change or a reset
\* committed stays invalid, unless such a request has overwritten a token_version that
\* it had not read.
InvalidatedStaysInvalid ==
  ~lostUpdate => \A t \in invalidated : ~Accepted(t)

\* "Invalidating every previously-issued access token at once", as set_password says.
BumpInvalidatesAccessTokens ==
  \A t \in invalidated : ~Accepted(t)

\* The password is that of the last change or reset, unless a login that had verified the
\* former one has overwritten it with a new hash of that (needs_rehash).
PasswordIsTheLastSet ==
  ~rehashedOver => user.password = lastSet

\* A family that was revoked, by a logout or because a token was used twice, has no usable
\* refresh token any more, unless a refresh in the family overlapped the revocation.
ClosedStaysClosed ==
  \A t \in Tokens : tokens[t].status = "ACTIVE" => FamilyOf(t) \notin closed \ mixed

\* A session has one usable refresh token, unless it was refreshed twice at a time.
OneActivePerFamily ==
  \A t, u \in Tokens :
    /\ tokens[t].status = "ACTIVE"
    /\ tokens[u].status = "ACTIVE"
    /\ FamilyOf(t) = FamilyOf(u)
    /\ FamilyOf(t) \notin forked
    => t = u

\* Requests deadlock only with a "log out everywhere": it is the one that takes the locks
\* of tokens before that of the user, and every other takes them in one order.
DeadlockNeedsRevokeAll ==
  \A S \in SUBSET Requests : WaitCycle(S) => \E q \in S : requests[q].op = "revokeAll"

\* No commit makes a token usable again that was rotated or revoked, whatever the requests
\* that overlap have loaded of it.
ConsumedStaysConsumed ==
  [][\A t \in Tokens : tokens[t].status \in {"ROTATED", "REVOKED"} =>
       tokens'[t].status \in {"ROTATED", "REVOKED"}]_vars

\* Every request ends: whoever waits gets the lock, or a deadlock is broken.
EveryRequestEnds ==
  \A q \in Requests : requests[q].op # "none" ~> requests[q].op = "none"

(***************************************************************************)
(* The inductive invariant behind the safety properties.                   *)
(***************************************************************************)
\* The statements that may be left of a request.
StepsLeft(op) ==
  CASE op = "login" -> {<<"user", "insert">>, <<"insert">>, <<>>}
    [] op = "switch" -> {<<"insert">>, <<>>}
    [] op = "refresh" -> {<<"load", "insert", "rotate">>, <<"insert", "rotate">>, <<"rotate">>, <<>>}
    [] op \in {"reuse", "revokeSession"} -> {<<"select">>, <<>>}
    [] op = "logout" -> {<<"select", "deny">>, <<"deny">>, <<>>}
    [] op \in {"changePassword", "resetPassword"} -> {<<"user", "select">>, <<"select">>, <<>>}
    [] op = "revokeAll" -> {<<"select", "user">>, <<"user">>, <<>>}
    [] OTHER -> {<<>>}

\* Those of a request that has not written the user, and has not looked for tokens.
BeforeUser == {<<"user", "insert">>, <<"user", "select">>, <<"select", "user">>, <<"user">>}

BeforeSelect == {<<"select">>, <<"select", "deny">>, <<"user", "select">>, <<"select", "user">>}

OfFamily == {"reuse", "logout", "revokeSession"}

OfUser == {"changePassword", "resetPassword", "revokeAll"}

Session ==
  [op : {"none", "login", "switch", "refresh"} \cup OfFamily \cup OfUser,
   steps : UNION {StepsLeft(op) : op \in {"login", "switch", "refresh"} \cup OfFamily \cup OfUser},
   seen : UserRow, token : Tokens \cup {NoToken},
   loaded : {"none", "ACTIVE", "ROTATED", "REVOKED"}, bearer : Tokens \cup {NoToken},
   new : Tokens \cup {NoToken}, todo : SUBSET Tokens, rotated : BOOLEAN,
   revoked : SUBSET Tokens, wroteUser : BOOLEAN, password : Nat]

\* What a session has done so far, by the statements that are left.
SessionInv(r) ==
  /\ r \in Session
  /\ r.steps \in StepsLeft(r.op)
  /\ r.wroteUser => r.op \in {"login"} \cup OfUser /\ r.steps \notin BeforeUser
  /\ r.op \in OfUser /\ r.steps \notin BeforeUser => r.wroteUser
  /\ r.op \in OfFamily \cup {"refresh"} <=> r.token # NoToken
  /\ r.op = "logout" => r.bearer # NoToken
  /\ r.rotated <=> r.op = "refresh" /\ r.steps = <<>>
  /\ r.todo \cup r.revoked # {} => r.op \in OfFamily \cup OfUser /\ r.steps \notin BeforeSelect
  /\ \A t \in r.revoked, u \in r.todo : t < u

\* What it knows of the rows.
RowsInv(r) ==
  /\ r.new \notin Issued
  /\ r.token # NoToken => r.token \in Issued
  /\ r.todo \cup r.revoked \subseteq Issued
  /\ r.token # NoToken /\ r.loaded = "REVOKED" => tokens[r.token].status # "ACTIVE"
  /\ ~lostUpdate => r.seen.version <= user.version

\* A revocation has all usable tokens of a family, or a refresh is known to have overlapped.
RevocationInv(r) ==
  \A t \in Tokens :
    tokens[t].status = "ACTIVE" /\ FamilyOf(t) \in Families(r.revoked \cup r.todo) \ mixed =>
      t \in r.revoked \cup r.todo

\* A refresh has the one usable token of a family that is not revoked, or it is known to
\* have been overlapped.
RefreshInv(r) ==
  r.op = "refresh" =>
    /\ FamilyOf(r.token) \notin closed \ mixed
    /\ \A t \in Tokens :
         tokens[t].status = "ACTIVE" /\ FamilyOf(t) = FamilyOf(r.token) =>
           t = r.token \/ FamilyOf(t) \in forked

\* Families and what is on record are of tokens that are there.
RecordInv ==
  /\ \A t \in Issued : FamilyOf(t) \in Issued
  /\ closed \subseteq Issued
  /\ invalidated \subseteq Issued
  /\ ~lostUpdate => /\ \A t \in Issued : tokens[t].ver <= user.version
                    /\ \A t \in invalidated : tokens[t].ver < user.version

\* The inductive invariant.
SessionsInv ==
  /\ TypeOK
  /\ requests \in [Requests -> Session]
  /\ \A q \in Requests :
       /\ SessionInv(requests[q]) /\ RowsInv(requests[q])
       /\ RevocationInv(requests[q]) /\ RefreshInv(requests[q])
  /\ \A p, q \in Requests : p # q /\ requests[p].new # NoToken => requests[p].new # requests[q].new
  /\ RecordInv
  /\ PasswordIsTheLastSet /\ ClosedStaysClosed /\ OneActivePerFamily
=============================================================================
