---------------------------- MODULE TenantAccess ----------------------------
(***************************************************************************)
(* Who may act in one tenant: its memberships and API keys, the requests   *)
(* that change them, and what the audit trail says of the roles.           *)
(*                                                                         *)
(* A request authenticates, loads the row it is about, writes it and       *)
(* commits, at READ COMMITTED. The row of the principal is not kept after  *)
(* authentication, and the row a request is about is loaded afresh, its    *)
(* principal's too. An UPDATE has only the columns whose value differs     *)
(* from the loaded one. A request that is refused or changes nothing but   *)
(* last_used_at is no step. Keys of the model have no expires_at.          *)
(***************************************************************************)
EXTENDS Naturals, Sequences, FiniteSets

CONSTANTS
  Users,        \* users with an account
  Owner,        \* the member the tenant begins with
  Roles,        \* roles requests give
  Statuses,     \* statuses a PATCH gives
  ScopeSets,    \* scopes keys are issued with
  MaxKeys,      \* bound: keys that may be issued
  Requests,     \* requests that may be in progress at a time
  MaxRequests,  \* bound: requests that are made
  MaxFaults     \* bound: requests that fail between two statements

Permissions ==
  {"members:view", "members:manage", "api_keys:view", "api_keys:manage",
   "audit:view", "scans:view", "scans:manage"}

ROLE_PERMISSIONS ==
  [owner            |-> Permissions,
   administrator    |-> Permissions,
   security_analyst |-> Permissions \ {"members:manage", "api_keys:manage"},
   developer        |-> {"members:view", "api_keys:view", "scans:view", "scans:manage"},
   viewer           |-> {"members:view", "scans:view"}]

MembershipStatus == {"active", "invited", "suspended", "removed"}

Keys == 1 .. MaxKeys

ASSUME TenantAccessAssumption ==
  /\ Owner \in Users
  /\ Roles \subseteq DOMAIN ROLE_PERMISSIONS
  /\ Statuses \subseteq MembershipStatus
  /\ ScopeSets \subseteq SUBSET Permissions
  /\ MaxKeys \in Nat
  /\ MaxRequests \in Nat
  /\ MaxFaults \in Nat
  /\ Users \cap Keys = {}

VARIABLES
  members,      \* the tenant_memberships rows of the tenant
  keys,         \* the api_key_metadata rows of the tenant
  audited,      \* the role that the newest audit event about it tells, for each user
  requests,     \* the session and the remaining statements of each request
  made,
  faults,
  crossed       \* history: users whose last two membership writes overlapped

vars == <<members, keys, audited, requests, made, faults, crossed>>

Unset == "unset"

NoMember == [status |-> "none", role |-> Unset]

NoKey == [status |-> "none", scopes |-> {}]

\* crossed: another request has changed the row meanwhile; overtaken: another request has
\* taken the permissions of the principal away meanwhile.
Idle ==
  [op |-> "none", by |-> Owner, target |-> Owner, role |-> Unset, status |-> Unset,
   scopes |-> {}, steps |-> <<>>, member |-> NoMember, key |-> NoKey, locks |-> {},
   crossed |-> FALSE, overtaken |-> FALSE]

\* A tenant with its owner.
Init ==
  /\ members = [u \in Users |-> IF u = Owner THEN [status |-> "active", role |-> "owner"]
                                             ELSE NoMember]
  /\ keys = [k \in Keys |-> NoKey]
  /\ audited = [u \in Users |-> members[u].role]
  /\ requests = [q \in Requests |-> Idle]
  /\ made = 0
  /\ faults = 0
  /\ crossed = {}

(***************************************************************************)
(* Principals.                                                             *)
(***************************************************************************)
has_permission(role, permission) == permission \in ROLE_PERMISSIONS[role]

\* get_current_principal and require_permission, for a session of user u.
MemberMay(u, permission) ==
  /\ members[u].status = "active"
  /\ has_permission(members[u].role, permission)

\* APIKeyService.authenticate; the scopes are those of the key, and no role adds to them.
KeyMay(k, permission) ==
  /\ keys[k].status = "ACTIVE"
  /\ permission \in keys[k].scopes

(***************************************************************************)
(* The start of a request: authentication and the permission check.        *)
(***************************************************************************)
Begin(q, request) ==
  /\ requests[q].op = "none"
  /\ made < MaxRequests
  /\ made' = made + 1
  /\ requests' = [requests EXCEPT ![q] = request]
  /\ UNCHANGED <<members, keys, audited, faults, crossed>>

\* Of the row it was loaded from, a principal keeps who it is; the row itself is let go of.
Authenticated(x, op, permission, steps) ==
  IF x \in Users
    THEN {[Idle EXCEPT !.op = op, !.by = x, !.steps = steps] :
            u \in {v \in {x} : MemberMay(v, permission)}}
    ELSE {[Idle EXCEPT !.op = op, !.by = x, !.steps = <<"touch", "release">> \o steps] :
            k \in {l \in {x} : KeyMay(l, permission)}}

add_member(q, x, u, role) ==
  \E r \in Authenticated(x, "add", "members:manage", <<"load", "write">>) :
    Begin(q, [r EXCEPT !.target = u, !.role = role, !.status = "active"])

\* A PATCH may leave either field out.
update_membership(q, x, u, role, status) ==
  /\ members[u].status # "none"
  /\ \E r \in Authenticated(x, "update", "members:manage", <<"load", "write">>) :
       Begin(q, [r EXCEPT !.target = u, !.role = role, !.status = status])

remove_member(q, x, u) ==
  /\ members[u].status # "none"
  /\ \E r \in Authenticated(x, "remove", "members:manage", <<"load", "write">>) :
       Begin(q, [r EXCEPT !.target = u, !.status = "removed"])

\* Bound: a name is left for the key of each request that issues one.
NameLeft ==
  Cardinality({k \in Keys : keys[k].status # "none"})
    + Cardinality({p \in Requests : requests[p].op \in {"issue", "rotate"}}) < MaxKeys

create_api_key(q, x, scopes) ==
  /\ NameLeft
  /\ \E r \in Authenticated(x, "issue", "api_keys:manage", <<>>) :
       Begin(q, [r EXCEPT !.scopes = scopes])

revoke_api_key(q, x, k) ==
  /\ keys[k].status # "none"
  /\ \E r \in Authenticated(x, "revoke", "api_keys:manage", <<"load", "write">>) :
       Begin(q, [r EXCEPT !.target = k])

rotate_api_key(q, x, k) ==
  /\ NameLeft
  /\ keys[k].status # "none"
  /\ \E r \in Authenticated(x, "rotate", "api_keys:manage", <<"load", "write">>) :
       Begin(q, [r EXCEPT !.target = k])

(***************************************************************************)
(* The statements. A write takes the row's lock until the end.             *)
(***************************************************************************)
AtStep(q, step) == requests[q].steps # <<>> /\ Head(requests[q].steps) = step

Proceed(q, request) ==
  /\ requests' = [requests EXCEPT ![q] = [request EXCEPT !.steps = Tail(@)]]
  /\ UNCHANGED <<members, keys, audited, made, faults, crossed>>

Lock(q, row) ==
  /\ \A p \in Requests \ {q} : row \notin requests[p].locks
  /\ Proceed(q, [requests[q] EXCEPT !.locks = @ \cup {row}])

\* The UPDATE of last_used_at.
Touch(q) ==
  /\ AtStep(q, "touch")
  /\ Lock(q, requests[q].by)

\* Mutant of Release: last_used_at is committed with the rest of the request.
Release_Never(q) ==
  /\ AtStep(q, "release")
  /\ Proceed(q, requests[q])

\* Mutant of Release: all columns of the key are written as they were loaded.
Release_WritesAll(q) ==
  /\ AtStep(q, "release")
  /\ requests' = [requests EXCEPT ![q].steps = Tail(@), ![q].locks = {}]
  /\ keys' = [keys EXCEPT ![requests[q].by].status = "ACTIVE"]
  /\ UNCHANGED <<members, audited, made, faults, crossed>>

\* _principal_from_api_key commits: only last_used_at has changed.
Release(q) ==
  /\ AtStep(q, "release")
  /\ Proceed(q, [requests[q] EXCEPT !.locks = {}])

OnMember(r) == r.op \in {"add", "update", "remove"}

Load(q) ==
  LET r == requests[q] IN
  /\ AtStep(q, "load")
  /\ IF OnMember(r) THEN Proceed(q, [r EXCEPT !.member = members[r.target]])
                    ELSE Proceed(q, [r EXCEPT !.key = keys[r.target]])

\* The columns whose value differs from the loaded one.
Differs(new, loaded) == new # Unset /\ new # loaded

Changes(r) == Differs(r.role, r.member.role) \/ Differs(r.status, r.member.status)

Rollback(q) ==
  /\ requests' = [requests EXCEPT ![q] = Idle]
  /\ UNCHANGED <<members, keys, audited, made, crossed>>

\* 409: the row that was loaded is of a member.
Refuse(q) ==
  /\ AtStep(q, "write")
  /\ requests[q].op = "add"
  /\ requests[q].member.status \notin {"none", "removed"}
  /\ Rollback(q)
  /\ UNCHANGED faults

\* The INSERT of a membership waits for that of another request and then violates
\* UNIQUE(tenant_id, user_id).
Conflict(q) ==
  LET r == requests[q] IN
  /\ AtStep(q, "write")
  /\ r.op = "add"
  /\ r.member.status = "none"
  /\ members[r.target].status # "none"
  /\ Rollback(q)
  /\ UNCHANGED faults

WriteMember(q) ==
  LET r == requests[q] IN
  /\ AtStep(q, "write")
  /\ OnMember(r)
  /\ r.op = "add" => r.member.status \in {"none", "removed"}
  /\ r.member.status = "none" => members[r.target].status = "none"
  /\ IF Changes(r) THEN Lock(q, r.target) ELSE Proceed(q, r)

\* revoked_at is always new.
WriteKey(q) ==
  /\ AtStep(q, "write")
  /\ ~OnMember(requests[q])
  /\ Lock(q, requests[q].target)

(***************************************************************************)
(* The end of a request.                                                   *)
(***************************************************************************)
MembersAfter(r) ==
  IF r.target \in r.locks /\ OnMember(r)
    THEN [members EXCEPT
            ![r.target].role = IF Differs(r.role, r.member.role) THEN r.role ELSE @,
            ![r.target].status = IF Differs(r.status, r.member.status) THEN r.status ELSE @]
    ELSE members

\* Mutant of Issued: the scopes of a rotated key are not passed on.
Issued_OwnScopes(r) == {[status |-> "ACTIVE", scopes |-> r.scopes]}

\* The key that create_api_key or rotate_api_key inserts.
Issued(r) ==
  {[status |-> "ACTIVE", scopes |-> IF r.op = "rotate" THEN r.key.scopes ELSE r.scopes]}

\* A key that was loaded as REVOKED is not changed by being revoked again.
RevokedAfter(r) ==
  IF r.op \in {"revoke", "rotate"} /\ r.key.status = "ACTIVE"
    THEN [keys EXCEPT ![r.target].status = "REVOKED"]
    ELSE keys

KeysAfter(r) ==
  IF r.op \in {"issue", "rotate"}
    THEN {[RevokedAfter(r) EXCEPT ![k] = key] :
            k \in {l \in Keys : /\ keys[l].status = "none"
                                /\ \A m \in Keys : keys[m].status = "none" => l <= m},
            key \in Issued(r)}
    ELSE {RevokedAfter(r)}

\* Mutant of TellsRole: previous_role is read after the update.
TellsRole_ReadLate(r) == r.op = "add"

\* The request writes an event with the role: membership.add or membership.role_change.
TellsRole(r) ==
  \/ r.op = "add"
  \/ r.op = "update" /\ Differs(r.role, r.member.role)

\* Events are listed by created_at, the start of their transaction: of two requests that
\* overlap, either may have the newer one.
AuditAfter(r) ==
  IF ~TellsRole(r) THEN {audited}
  ELSE {[audited EXCEPT ![r.target] = role] :
          role \in {r.role} \cup (IF r.crossed THEN {audited[r.target]} ELSE {})}

Manage == {"members:manage", "api_keys:manage"}

\* The principals that may change who has access.
Managers ==
  {u \in Users : members[u].status = "active" /\ Manage \cap ROLE_PERMISSIONS[members[u].role] # {}}
    \cup {k \in Keys : keys[k].status = "ACTIVE" /\ Manage \cap keys[k].scopes # {}}

\* The transaction that will write the event of p has begun.
InTransaction(p) == requests[p].op # "none" /\ ~AtStep(p, "touch") /\ ~AtStep(p, "release")

\* What the commit of q means for the request p: it has changed the row p is about, or
\* taken the permissions of the principal of p away.
Passed(q, p) ==
  LET r == requests[q]
      s == requests[p] IN
  [s EXCEPT !.crossed = @ \/ (OnMember(r) /\ InTransaction(p) /\ s.target = r.target),
            !.overtaken = @ \/ (s.op # "none" /\ s.by \in Managers \ Managers')]

Commit(q) ==
  LET r == requests[q] IN
  /\ r.op # "none"
  /\ r.steps = <<>>
  /\ members' = MembersAfter(r)
  /\ keys' \in KeysAfter(r)
  /\ audited' \in AuditAfter(r)
  /\ requests' = [p \in Requests |-> IF p = q THEN Idle ELSE Passed(q, p)]
  /\ crossed' = CASE r.crossed /\ OnMember(r) -> crossed \cup {r.target}
                  [] ~r.crossed /\ TellsRole(r) -> crossed \ {r.target}
                  [] OTHER -> crossed
  /\ UNCHANGED <<made, faults>>

\* An exception, a lost connection, a process that dies.
Fail(q) ==
  /\ requests[q].op # "none"
  /\ faults < MaxFaults
  /\ faults' = faults + 1
  /\ Rollback(q)

Statement(q) ==
  \/ Touch(q) \/ Release(q) \/ Load(q)
  \/ Refuse(q) \/ Conflict(q) \/ WriteMember(q) \/ WriteKey(q)
  \/ Commit(q)

Principals == Users \cup Keys

Next ==
  \E q \in Requests :
    \/ \E x \in Principals, u \in Users :
         \/ \E role \in Roles : add_member(q, x, u, role)
         \/ \E role \in Roles \cup {Unset}, status \in Statuses \cup {Unset} :
              update_membership(q, x, u, role, status)
         \/ remove_member(q, x, u)
    \/ \E x \in Principals :
         \/ \E scopes \in ScopeSets : create_api_key(q, x, scopes)
         \/ \E k \in Keys : revoke_api_key(q, x, k) \/ rotate_api_key(q, x, k)
    \/ Statement(q)
    \/ Fail(q)

Spec == Init /\ [][Next]_vars

-----------------------------------------------------------------------------
(***************************************************************************)
(* Properties.                                                             *)
(***************************************************************************)
MemberRow == [status : MembershipStatus \cup {"none"}, role : (DOMAIN ROLE_PERMISSIONS) \cup {Unset}]

KeyRow == [status : {"none", "ACTIVE", "REVOKED"}, scopes : SUBSET Permissions]

TypeOK ==
  /\ members \in [Users -> MemberRow]
  /\ keys \in [Keys -> KeyRow]
  /\ audited \in [Users -> (DOMAIN ROLE_PERMISSIONS) \cup {Unset}]
  /\ made \in 0 .. MaxRequests
  /\ faults \in 0 .. MaxFaults
  /\ crossed \subseteq Users

\* The newest membership event of a user tells the role the user has, unless two requests
\* that changed the membership overlapped (each then tells of the row it had loaded, and
\* is dated by when it began).
AuditTellsTheRole ==
  \A u \in Users \ crossed : audited[u] = members[u].role

\* No request counts the managers, and yet a tenant that has one keeps one: whoever takes
\* the permissions of another keeps its own. The last is lost in two ways only: it is the
\* target of its own request, or of one whose principal lost its permissions meanwhile.
SomebodyManages ==
  [][Managers # {} /\ Managers' = {} =>
       \E q \in Requests :
         LET r == requests[q] IN
         /\ r.op # "none" /\ requests'[q].op = "none"
         /\ Managers = {r.target}
         /\ \/ r.overtaken
            \/ r.by = r.target /\ r.op # "rotate"]_vars

\* A key that was revoked, or replaced by a rotation, never authenticates again, although
\* every request with it writes its row.
RevocationIsFinal ==
  [][\A k \in Keys : keys[k].status = "REVOKED" => keys'[k] = keys[k]]_vars

\* The requests that hold the row q has to wait for.
WaitsFor(q) ==
  {p \in Requests \ {q} :
     \/ AtStep(q, "touch") /\ requests[q].by \in requests[p].locks
     \/ AtStep(q, "write") /\ requests[q].target \in requests[p].locks}

\* Requests never wait for each other in a circle: last_used_at is committed before
\* the request writes anything else, so each holds one row at most.
NoWaitCycle ==
  \A S \in SUBSET Requests : S # {} => \E q \in S : WaitsFor(q) \cap S = {}

\* The statements that may be left of a request. Before some of them it holds no lock.
Unlocked ==
  {<<"touch", "release", "load", "write">>, <<"load", "write">>, <<"write">>,
   <<"touch", "release">>}

Authenticating ==
  {<<"touch", "release", "load", "write">>, <<"release", "load", "write">>,
   <<"touch", "release">>, <<"release">>}

Stages == Unlocked \cup Authenticating \cup {<<>>}

Session ==
  [op : {"none", "add", "update", "remove", "issue", "revoke", "rotate"},
   by : Principals, target : Principals, role : Roles \cup {Unset},
   status : Statuses \cup {"active", "removed", Unset}, scopes : SUBSET Permissions,
   steps : Stages, member : MemberRow, key : KeyRow, locks : SUBSET Principals,
   crossed : BOOLEAN, overtaken : BOOLEAN]

\* What a session is about, and what it holds.
SessionInv(r) ==
  /\ r \in Session
  /\ r.steps \in Unlocked => r.locks = {}
  /\ r.by \in Users => r.steps \notin Authenticating
  /\ r.steps \in {<<"touch", "release">>, <<"release">>} => r.op = "issue"
  /\ r.op \in {"none", "issue"} => r.steps \in {<<"touch", "release">>, <<"release">>, <<>>}
  /\ OnMember(r) => r.target \in Users
  /\ r.op \in {"revoke", "rotate"} => r.target \in Keys
  /\ r.op = "add" => r.role # Unset /\ r.status = "active"
  /\ r.op = "remove" => r.role = Unset
  /\ OnMember(r) /\ r.steps = <<>> =>
       /\ Changes(r) => r.target \in r.locks
       /\ r.op = "add" => r.member.status \in {"none", "removed"}

\* A membership that was loaded is as it was, or known to have changed since.
LoadedInv(r) ==
  OnMember(r) /\ ~r.crossed /\ r.steps \in {<<"write">>, <<>>} =>
    r.member = members[r.target]

\* A key that rotates itself loads its own scopes.
KeyInv(r) ==
  r.op = "rotate" /\ r.by = r.target =>
    /\ keys[r.by].status # "none"
    /\ r.steps \in {<<"write">>, <<>>} => r.key.scopes = keys[r.by].scopes

\* Who acts may, unless somebody has taken it away meanwhile.
ManagerInv(r) ==
  r.op # "none" /\ ~r.overtaken => r.by \in Managers

\* The inductive invariant.
AccessInv ==
  /\ TypeOK
  /\ requests \in [Requests -> Session]
  /\ \A q \in Requests :
       /\ SessionInv(requests[q]) /\ LoadedInv(requests[q])
       /\ KeyInv(requests[q]) /\ ManagerInv(requests[q])
  /\ AuditTellsTheRole
=============================================================================
