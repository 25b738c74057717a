------------------------- MODULE TenantAccessProofs -------------------------
(***************************************************************************)
(* Who may act: proved for any users, keys, roles, scopes, requests and    *)
(* failures.                                                               *)
(***************************************************************************)
EXTENDS TenantAccess, SequenceTheorems, TLAPS

(***************************************************************************)
(* The statements of a request.                                            *)
(***************************************************************************)
StatementNames == {"touch", "release", "load", "write"}

\* A key that is a principal has two statements before those of its request.
LEMMA KeysAuthenticateFirst ==
  /\ <<"touch", "release">> \o <<"load", "write">> = <<"touch", "release", "load", "write">>
  /\ <<"touch", "release">> \o <<>> = <<"touch", "release">>
  <1> DEFINE s == <<"touch", "release">>
             t == <<"load", "write">>
             u == <<"touch", "release", "load", "write">>
  <1>1. s \in Seq(StatementNames) /\ t \in Seq(StatementNames) /\ u \in Seq(StatementNames)
    BY DEF StatementNames
  <1>2. /\ Len(s) = 2 /\ Len(t) = 2 /\ Len(u) = 4
        /\ s[1] = "touch" /\ s[2] = "release" /\ t[1] = "load" /\ t[2] = "write"
        /\ u[1] = "touch" /\ u[2] = "release" /\ u[3] = "load" /\ u[4] = "write"
    OBVIOUS
  <1> HIDE DEF s, t, u
  <1>3. /\ s \o t \in Seq(StatementNames) /\ Len(s \o t) = 4
        /\ \A i \in 1 .. 4 : (s \o t)[i] = IF i <= 2 THEN s[i] ELSE t[i - 2]
    <2>1. /\ s \o t \in Seq(StatementNames) /\ Len(s \o t) = Len(s) + Len(t)
          /\ \A i \in 1 .. Len(s) + Len(t) : (s \o t)[i] = IF i <= Len(s) THEN s[i] ELSE t[i - Len(s)]
      BY <1>1, ConcatProperties
    <2>2. Len(s) + Len(t) = 4 /\ Len(s) = 2
      BY <1>2
    <2> HIDE <1>2
    <2> QED
      BY <2>1, <2>2, Zenon
  <1>4. \A i \in 1 .. 4 : i = 1 \/ i = 2 \/ i = 3 \/ i = 4
    OBVIOUS
  <1>5. \A i \in 1 .. 4 : (s \o t)[i] = u[i]
    <2>1. (s \o t)[1] = u[1] /\ (s \o t)[2] = u[2]
      BY <1>2, <1>3
    <2>2. (s \o t)[3] = t[1] /\ (s \o t)[4] = t[2]
      BY <1>3
    <2> QED
      BY <1>2, <1>4, <2>1, <2>2
  <1>6. s \o t = u
    BY <1>1, <1>2, <1>3, <1>5, SeqEqual
  <1>7. s \o <<>> = s
    BY <1>1, ConcatEmptySeq
  <1> QED
    BY <1>6, <1>7 DEF s, t, u

\* What is left of a request after each of its statements.
LEMMA StepsAreTaken ==
  /\ Tail(<<"touch", "release", "load", "write">>) = <<"release", "load", "write">>
  /\ Head(<<"touch", "release", "load", "write">>) = "touch"
  /\ Tail(<<"touch", "release">>) = <<"release">> /\ Head(<<"touch", "release">>) = "touch"
  /\ Tail(<<"release", "load", "write">>) = <<"load", "write">>
  /\ Head(<<"release", "load", "write">>) = "release"
  /\ Tail(<<"release">>) = <<>> /\ Head(<<"release">>) = "release"
  /\ Tail(<<"load", "write">>) = <<"write">> /\ Head(<<"load", "write">>) = "load"
  /\ Tail(<<"write">>) = <<>> /\ Head(<<"write">>) = "write"
  OBVIOUS

LEMMA StagesDiffer ==
  /\ <<>> \notin Unlocked \cup Authenticating
  /\ <<"load", "write">> \notin Authenticating \cup {<<"write">>, <<>>}
  /\ <<"write">> \notin Authenticating
  /\ <<"release", "load", "write">> \notin Unlocked \cup {<<"write">>, <<>>}
  /\ <<"release">> \notin Unlocked \cup {<<"write">>, <<>>}
  /\ <<"touch", "release", "load", "write">> \notin {<<"write">>, <<>>}
  /\ <<"touch", "release">> \notin {<<"write">>, <<>>}
  BY DEF Unlocked, Authenticating

\* By the statement it is at, one knows what is left of a request.
LEMMA Places ==
  ASSUME NEW q \in Requests, requests[q].steps \in Stages
  PROVE  LET r == requests[q] IN
         /\ AtStep(q, "touch") => r.steps \in {<<"touch", "release", "load", "write">>,
                                               <<"touch", "release">>}
         /\ AtStep(q, "release") => r.steps \in {<<"release", "load", "write">>, <<"release">>}
         /\ AtStep(q, "load") => r.steps = <<"load", "write">>
         /\ AtStep(q, "write") => r.steps = <<"write">>
         /\ r.steps \notin Authenticating => ~AtStep(q, "touch") /\ ~AtStep(q, "release")
  BY StepsAreTaken DEF AtStep, Stages, Unlocked, Authenticating

(***************************************************************************)
(* Steps of one session.                                                   *)
(***************************************************************************)
\* A step of one session that commits nothing.
LEMMA LocalStep ==
  ASSUME AccessInv, NEW q \in Requests, NEW r,
         requests' = [requests EXCEPT ![q] = r],
         UNCHANGED <<members, keys, audited, crossed>>,
         made' \in 0 .. MaxRequests,
         faults' \in 0 .. MaxFaults,
         SessionInv(r), LoadedInv(r), KeyInv(r), ManagerInv(r)
  PROVE  AccessInv'
  <1> USE DEF AccessInv
  <1>0. /\ requests'[q] = r
        /\ \A p \in Requests : p # q => requests'[p] = requests[p]
    OBVIOUS
  <1>1. members' = members /\ keys' = keys /\ audited' = audited /\ crossed' = crossed
    OBVIOUS
  <1>2. TypeOK'
    BY <1>1 DEF TypeOK
  <1>3. requests' \in [Requests -> Session]
    BY DEF SessionInv
  <1>4. Managers' = Managers
    BY <1>1 DEF Managers
  <1>5. ASSUME NEW p \in Requests
        PROVE  (SessionInv(requests[p]) /\ LoadedInv(requests[p])
                 /\ KeyInv(requests[p]) /\ ManagerInv(requests[p]))'
    <2>1. CASE p = q
      BY <1>0, <1>1, <1>4, <2>1 DEF SessionInv, LoadedInv, KeyInv, ManagerInv
    <2>2. CASE p # q
      BY <1>0, <1>1, <1>4, <2>2 DEF SessionInv, LoadedInv, KeyInv, ManagerInv
    <2> QED
      BY <2>1, <2>2
  <1>6. AuditTellsTheRole'
    BY <1>1 DEF AuditTellsTheRole
  <1> QED
    BY <1>2, <1>3, <1>5, <1>6

\* A session that is not in use.
LEMMA IdleSession ==
  /\ Idle.op = "none" /\ Idle.role = Unset /\ Idle.status = Unset
  /\ Idle.by = Owner /\ Idle.target = Owner /\ Idle.steps = <<>> /\ Idle.locks = {}
  /\ Idle \in Session
  /\ SessionInv(Idle) /\ LoadedInv(Idle) /\ KeyInv(Idle) /\ ManagerInv(Idle)
  <1>1. Owner \in Principals
    BY TenantAccessAssumption DEF TenantAccessAssumption, Principals
  <1>2. Idle \in Session
    BY <1>1 DEF Idle, Session, Stages, MemberRow, KeyRow, NoMember, NoKey
  <1>3. Idle.op = "none" /\ Idle.steps = <<>> /\ Idle.locks = {} /\ Idle.role = Unset
        /\ Idle.status = Unset /\ Idle.by = Owner /\ Idle.target = Owner
    BY DEF Idle
  <1> QED
    BY <1>2, <1>3, StagesDiffer DEF SessionInv, LoadedInv, KeyInv, ManagerInv, OnMember

(***************************************************************************)
(* The start of a request.                                                 *)
(***************************************************************************)
\* A session that has authenticated and done nothing yet: its principal may do what it
\* asks for.
Authentic(r, x, op, steps) ==
  /\ x \in Managers
  /\ r \in Session
  /\ r.op = op /\ r.by = x /\ r.role = Unset /\ r.status = Unset
  /\ r.locks = {} /\ r.crossed = FALSE
  /\ x \in Users => r.steps = steps
  /\ x \notin Users => /\ keys[x].status = "ACTIVE"
                       /\ r.steps = IF steps = <<>> THEN <<"touch", "release">>
                                     ELSE <<"touch", "release", "load", "write">>

LEMMA SessionOfPrincipal ==
  ASSUME AccessInv, NEW x \in Principals,
         NEW op \in {"add", "update", "remove", "issue", "revoke", "rotate"},
         NEW permission \in Manage,
         NEW steps \in {<<"load", "write">>, <<>>},
         NEW r \in Authenticated(x, op, permission, steps)
  PROVE  Authentic(r, x, op, steps)
  <1>1. CASE x \in Users
    <2>1. /\ MemberMay(x, permission)
          /\ r = [Idle EXCEPT !.op = op, !.by = x, !.steps = steps]
      BY <1>1 DEF Authenticated
    <2>0. x \in Managers
      BY <1>1, <2>1 DEF MemberMay, has_permission, Managers
    <2>2. steps \in Stages
      BY DEF Stages, Unlocked
    <2>3. /\ r \in Session /\ r.op = op /\ r.by = x /\ r.steps = steps
          /\ r.role = Idle.role /\ r.status = Idle.status
          /\ r.locks = Idle.locks /\ r.crossed = Idle.crossed
      BY <2>1, <2>2, IdleSession DEF Session
    <2>4. Idle.crossed = FALSE
      BY DEF Idle
    <2> QED
      BY <1>1, <2>0, <2>3, <2>4, IdleSession DEF Authentic
  <1>2. CASE x \notin Users
    <2>5. /\ KeyMay(x, permission)
          /\ r = [Idle EXCEPT !.op = op, !.by = x, !.steps = <<"touch", "release">> \o steps]
      BY <1>2 DEF Authenticated
    <2>1. x \in Keys /\ keys[x].status = "ACTIVE"
      BY <1>2, <2>5 DEF Principals, KeyMay
    <2>0. x \in Managers
      BY <2>1, <2>5 DEF KeyMay, Managers
    <2> DEFINE all == <<"touch", "release">> \o steps
    <2>2. all = IF steps = <<>> THEN <<"touch", "release">>
                                ELSE <<"touch", "release", "load", "write">>
      BY KeysAuthenticateFirst
    <2>3. all \in Stages
      BY <2>2 DEF Stages, Unlocked
    <2> HIDE DEF all
    <2>4. r = [Idle EXCEPT !.op = op, !.by = x, !.steps = all]
      BY <2>5 DEF all
    <2>6. /\ r \in Session /\ r.op = op /\ r.by = x /\ r.steps = all
          /\ r.role = Idle.role /\ r.status = Idle.status
          /\ r.locks = Idle.locks /\ r.crossed = Idle.crossed
      BY <2>3, <2>4, IdleSession DEF Session
    <2>7. Idle.crossed = FALSE
      BY DEF Idle
    <2> QED
      BY <1>2, <2>0, <2>1, <2>2, <2>6, <2>7, IdleSession DEF Authentic
  <1> QED
    BY <1>1, <1>2

\* A request about a member begins.
LEMMA BeginAboutMember ==
  ASSUME AccessInv, NEW q \in Requests, NEW x \in Principals, NEW u \in Users,
         NEW op \in {"add", "update", "remove"},
         NEW p \in Authenticated(x, op, "members:manage", <<"load", "write">>),
         NEW role \in Roles \cup {Unset},
         NEW status \in Statuses \cup {"active", "removed", Unset},
         op = "add" => role # Unset /\ status = "active",
         op = "remove" => role = Unset,
         NEW r, r = [p EXCEPT !.target = u, !.role = role, !.status = status],
         Begin(q, r)
  PROVE  AccessInv'
  <1>1. /\ p \in Session /\ p.op = op /\ p.by = x /\ p.locks = {}
        /\ x \in Users => p.steps = <<"load", "write">>
        /\ x \notin Users => p.steps = <<"touch", "release", "load", "write">>
        /\ x \in Managers
    <2> DEFINE steps == <<"load", "write">>
               permission == "members:manage"
    <2>1. /\ permission \in Manage /\ steps \in {<<"load", "write">>, <<>>}
          /\ op \in {"add", "update", "remove", "issue", "revoke", "rotate"}
          /\ p \in Authenticated(x, op, permission, steps)
      BY DEF Manage
    <2> HIDE DEF steps, permission
    <2>2. Authentic(p, x, op, steps)
      BY <2>1, SessionOfPrincipal
    <2> QED
      BY <2>2, StagesDiffer DEF Authentic, steps
  <1>2. u \in Principals
    BY DEF Principals
  <1>3. /\ r \in Session /\ r.op = op /\ r.by = x /\ r.target = u /\ r.steps = p.steps
        /\ r.locks = {} /\ r.role = role /\ r.status = status
    BY <1>1, <1>2 DEF Session
  <1>4. SessionInv(r)
    BY <1>1, <1>3, StagesDiffer DEF SessionInv, Unlocked
  <1>5. LoadedInv(r)
    BY <1>1, <1>3, StagesDiffer DEF LoadedInv
  <1>6. KeyInv(r) /\ ManagerInv(r)
    BY <1>1, <1>3 DEF KeyInv, ManagerInv
  <1>8. made' \in 0 .. MaxRequests
    BY TenantAccessAssumption DEF Begin, AccessInv, TypeOK, TenantAccessAssumption
  <1>9. /\ requests' = [requests EXCEPT ![q] = r]
        /\ UNCHANGED <<members, keys, audited, crossed>>
        /\ faults' \in 0 .. MaxFaults
    BY DEF Begin, AccessInv, TypeOK
  <1> QED
    BY <1>4, <1>5, <1>6, <1>8, <1>9, LocalStep

\* A request about a key begins.
LEMMA BeginAboutKey ==
  ASSUME AccessInv, NEW q \in Requests, NEW x \in Principals, NEW k \in Keys,
         NEW op \in {"revoke", "rotate"}, keys[k].status # "none",
         NEW p \in Authenticated(x, op, "api_keys:manage", <<"load", "write">>),
         Begin(q, [p EXCEPT !.target = k])
  PROVE  AccessInv'
  <1> DEFINE r == [p EXCEPT !.target = k]
  <1>1. /\ p \in Session /\ p.op = op /\ p.by = x /\ p.locks = {}
        /\ p.role = Unset /\ p.status = Unset
        /\ x \in Users => p.steps = <<"load", "write">>
        /\ x \notin Users => p.steps = <<"touch", "release", "load", "write">>
        /\ x \in Managers
    <2> DEFINE steps == <<"load", "write">>
               permission == "api_keys:manage"
    <2>1. /\ permission \in Manage /\ steps \in {<<"load", "write">>, <<>>}
          /\ op \in {"add", "update", "remove", "issue", "revoke", "rotate"}
          /\ p \in Authenticated(x, op, permission, steps)
      BY DEF Manage
    <2> HIDE DEF steps, permission
    <2>2. Authentic(p, x, op, steps)
      BY <2>1, SessionOfPrincipal
    <2> QED
      BY <2>2, StagesDiffer DEF Authentic, steps
  <1>2. /\ r \in Session /\ r.op = op /\ r.by = x /\ r.target = k /\ r.steps = p.steps
        /\ r.locks = {}
    <2>1. k \in Principals
      BY DEF Principals
    <2> QED
      BY <1>1, <2>1 DEF Session
  <1> HIDE DEF r
  <1>3. k \notin Users
    BY TenantAccessAssumption DEF TenantAccessAssumption
  <1>4. SessionInv(r) /\ LoadedInv(r)
    BY <1>1, <1>2, StagesDiffer DEF SessionInv, LoadedInv, OnMember, Unlocked
  <1>5. KeyInv(r) /\ ManagerInv(r)
    BY <1>1, <1>2, StagesDiffer DEF KeyInv, ManagerInv
  <1>6. Begin(q, r)
    BY DEF r
  <1>7. made' \in 0 .. MaxRequests
    BY <1>6, TenantAccessAssumption DEF Begin, AccessInv, TypeOK, TenantAccessAssumption
  <1>8. /\ requests' = [requests EXCEPT ![q] = r]
        /\ UNCHANGED <<members, keys, audited, crossed>>
        /\ faults' \in 0 .. MaxFaults
    BY <1>6 DEF Begin, AccessInv, TypeOK
  <1> QED
    BY <1>4, <1>5, <1>7, <1>8, LocalStep

\* A request for a new key begins.
LEMMA BeginIssue ==
  ASSUME AccessInv, NEW q \in Requests, NEW x \in Principals, NEW scopes \in ScopeSets,
         NEW p \in Authenticated(x, "issue", "api_keys:manage", <<>>),
         Begin(q, [p EXCEPT !.scopes = scopes])
  PROVE  AccessInv'
  <1> DEFINE r == [p EXCEPT !.scopes = scopes]
  <1>1. /\ p \in Session /\ p.op = "issue" /\ p.by = x /\ p.locks = {}
        /\ p.steps = IF x \in Users THEN <<>> ELSE <<"touch", "release">>
        /\ x \in Managers
    <2> DEFINE steps == <<>>
               permission == "api_keys:manage"
               op == "issue"
    <2>1. /\ permission \in Manage /\ steps \in {<<"load", "write">>, <<>>}
          /\ op \in {"add", "update", "remove", "issue", "revoke", "rotate"}
          /\ p \in Authenticated(x, op, permission, steps)
      BY DEF Manage
    <2> HIDE DEF steps, permission, op
    <2>2. Authentic(p, x, op, steps)
      BY <2>1, SessionOfPrincipal
    <2> QED
      BY <2>2 DEF Authentic, steps, op
  <1>2. scopes \in SUBSET Permissions
    BY TenantAccessAssumption DEF TenantAccessAssumption
  <1>3. /\ r \in Session /\ r.op = "issue" /\ r.by = x /\ r.steps = p.steps /\ r.locks = {}
    BY <1>1, <1>2 DEF Session
  <1> HIDE DEF r
  <1>4. SessionInv(r) /\ LoadedInv(r) /\ KeyInv(r) /\ ManagerInv(r)
    BY <1>1, <1>3, StagesDiffer DEF SessionInv, LoadedInv, KeyInv, ManagerInv, OnMember
  <1>5. Begin(q, r)
    BY DEF r
  <1>6. made' \in 0 .. MaxRequests
    BY <1>5, TenantAccessAssumption DEF Begin, AccessInv, TypeOK, TenantAccessAssumption
  <1>7. /\ requests' = [requests EXCEPT ![q] = r]
        /\ UNCHANGED <<members, keys, audited, crossed>>
        /\ faults' \in 0 .. MaxFaults
    BY <1>5 DEF Begin, AccessInv, TypeOK
  <1> QED
    BY <1>4, <1>6, <1>7, LocalStep

(***************************************************************************)
(* The statements of a request.                                            *)
(***************************************************************************)
\* A session is left unless it commits something: it holds nothing any more.
LEMMA RollbackKeeps ==
  ASSUME AccessInv, NEW q \in Requests, Rollback(q), faults' \in 0 .. MaxFaults
  PROVE  AccessInv'
  <1>1. made' \in 0 .. MaxRequests
    BY DEF Rollback, AccessInv, TypeOK
  <1> QED
    BY <1>1, IdleSession, LocalStep DEF Rollback

\* A statement: its session may have another lock, or another row loaded.
LEMMA ProceedKeeps ==
  ASSUME AccessInv, NEW q \in Requests, NEW s, NEW r, Proceed(q, s),
         r = [s EXCEPT !.steps = Tail(@)],
         SessionInv(r), LoadedInv(r), KeyInv(r), ManagerInv(r)
  PROVE  AccessInv'
  <1>1. /\ requests' = [requests EXCEPT ![q] = r]
        /\ UNCHANGED <<members, keys, audited, crossed>>
    BY DEF Proceed
  <1>2. made' \in 0 .. MaxRequests /\ faults' \in 0 .. MaxFaults
    BY DEF Proceed, AccessInv, TypeOK
  <1> QED
    BY <1>1, <1>2, LocalStep

\* Each statement, from here on: s is the session before it, and r the one after it.
LEMMA TouchKeeps ==
  ASSUME AccessInv, NEW q \in Requests, Touch(q)
  PROVE  AccessInv'
  <1> DEFINE s == requests[q]
             t == [s EXCEPT !.locks = @ \cup {s.by}]
             r == [t EXCEPT !.steps = Tail(@)]
  <1>1. s \in Session /\ SessionInv(s) /\ LoadedInv(s) /\ KeyInv(s) /\ ManagerInv(s)
    BY DEF AccessInv
  <1>2. /\ s.steps \in {<<"touch", "release", "load", "write">>, <<"touch", "release">>}
        /\ Tail(s.steps) = IF s.steps = <<"touch", "release">>
                             THEN <<"release">> ELSE <<"release", "load", "write">>
    BY <1>1, Places, StepsAreTaken DEF Touch, Session
  <1>3. Proceed(q, t)
    BY DEF Touch, Lock
  <1> HIDE DEF s
  <1>4. Tail(s.steps) \in Stages /\ s.locks \cup {s.by} \in SUBSET Principals
        /\ s.member \in MemberRow /\ s.key \in KeyRow
    BY <1>1, <1>2 DEF Session, Stages, Authenticating
  <1>5. r = [s EXCEPT !.locks = s.locks \cup {s.by}, !.member = s.member, !.key = s.key,
                      !.steps = Tail(@)]
    BY <1>1 DEF Session
  <1>7. r = [t EXCEPT !.steps = Tail(@)]
    OBVIOUS
  <1> HIDE DEF r, t
  <1>6. /\ r \in Session
        /\ r.op = s.op /\ r.by = s.by /\ r.target = s.target /\ r.role = s.role
        /\ r.status = s.status /\ r.steps = Tail(s.steps)
        /\ r.member = s.member /\ r.key = s.key /\ r.crossed = s.crossed
        /\ r.overtaken = s.overtaken
    BY <1>1, <1>4, <1>5 DEF Session
  <1>10. /\ s.by \notin Users
         /\ r.steps \in {<<"release", "load", "write">>, <<"release">>}
         /\ r.steps = <<"release">> <=> s.steps = <<"touch", "release">>
         /\ s.op \in {"none", "issue"} <=> s.steps = <<"touch", "release">>
    <2>1. s.by \notin Users
      BY <1>1, <1>2 DEF SessionInv, Authenticating
    <2>2. CASE s.steps = <<"touch", "release">>
      <3>1. r.steps = <<"release">> /\ s.op = "issue"
        BY <1>1, <1>2, <1>6, <2>2 DEF SessionInv
      <3> QED
        BY <2>1, <2>2, <3>1
    <2>3. CASE s.steps = <<"touch", "release", "load", "write">>
      <3>1. r.steps = <<"release", "load", "write">> /\ s.steps # <<"touch", "release">>
        BY <1>2, <1>6, <2>3
      <3>2. s.op \notin {"none", "issue"}
        BY <1>1, <2>3 DEF SessionInv
      <3>3. <<"release", "load", "write">> # <<"release">>
        OBVIOUS
      <3> QED
        BY <2>1, <3>1, <3>2, <3>3
    <2> QED
      BY <1>2, <2>2, <2>3
  <1>11. r.steps \notin Unlocked /\ r.steps # <<>> /\ r.steps # <<"touch", "release">>
    BY <1>10, StagesDiffer
  <1>12. /\ r.steps \in {<<"touch", "release">>, <<"release">>} => r.op = "issue"
         /\ r.op \in {"none", "issue"} => r.steps \in {<<"touch", "release">>, <<"release">>, <<>>}
    BY <1>1, <1>6, <1>10, <1>11 DEF SessionInv
  <1>8. SessionInv(r)
    BY <1>1, <1>6, <1>10, <1>11, <1>12 DEF SessionInv, OnMember
  <1>9. LoadedInv(r) /\ KeyInv(r) /\ ManagerInv(r)
    BY <1>1, <1>6, <1>10, StagesDiffer DEF LoadedInv, KeyInv, ManagerInv, OnMember
  <1> QED
    BY <1>3, <1>7, <1>8, <1>9, ProceedKeeps

LEMMA ReleaseKeeps ==
  ASSUME AccessInv, NEW q \in Requests, Release(q)
  PROVE  AccessInv'
  <1> DEFINE s == requests[q]
             t == [s EXCEPT !.locks = {}]
             r == [t EXCEPT !.steps = Tail(@)]
  <1>1. s \in Session /\ SessionInv(s) /\ LoadedInv(s) /\ KeyInv(s) /\ ManagerInv(s)
    BY DEF AccessInv
  <1>2. /\ s.steps \in {<<"release", "load", "write">>, <<"release">>}
        /\ Tail(s.steps) = IF s.steps = <<"release">> THEN <<>> ELSE <<"load", "write">>
    BY <1>1, Places, StepsAreTaken DEF Release, Session
  <1>3. Proceed(q, t)
    BY DEF Release
  <1> HIDE DEF s
  <1>4. Tail(s.steps) \in Stages /\ s.member \in MemberRow /\ s.key \in KeyRow
    BY <1>1, <1>2 DEF Session, Stages, Unlocked
  <1>5. r = [s EXCEPT !.locks = {}, !.member = s.member, !.key = s.key, !.steps = Tail(@)]
    BY <1>1 DEF Session
  <1>7. r = [t EXCEPT !.steps = Tail(@)]
    OBVIOUS
  <1> HIDE DEF r, t
  <1>6. /\ r \in Session
        /\ r.op = s.op /\ r.by = s.by /\ r.target = s.target /\ r.role = s.role
        /\ r.status = s.status /\ r.steps = Tail(s.steps) /\ r.locks = {}
        /\ r.member = s.member /\ r.key = s.key /\ r.crossed = s.crossed
        /\ r.overtaken = s.overtaken
    BY <1>1, <1>4, <1>5 DEF Session
  <1>10. s.by \notin Users /\ (r.steps = <<>> => r.op = "issue")
    BY <1>1, <1>2, <1>6, StagesDiffer DEF SessionInv, Authenticating
  <1>8. SessionInv(r)
    BY <1>1, <1>2, <1>6, <1>10, StagesDiffer DEF SessionInv, OnMember, Authenticating, Unlocked
  <1>9. LoadedInv(r) /\ KeyInv(r) /\ ManagerInv(r)
    BY <1>1, <1>2, <1>6, <1>10, StagesDiffer DEF LoadedInv, KeyInv, ManagerInv, OnMember
  <1> QED
    BY <1>3, <1>7, <1>8, <1>9, ProceedKeeps

LEMMA LoadKeeps ==
  ASSUME AccessInv, NEW q \in Requests, Load(q)
  PROVE  AccessInv'
  <1> DEFINE s == requests[q]
             member == IF OnMember(s) THEN members[s.target] ELSE s.member
             key == IF OnMember(s) THEN s.key ELSE keys[s.target]
             t == [s EXCEPT !.member = member, !.key = key]
             r == [t EXCEPT !.steps = Tail(@)]
  <1>1. s \in Session /\ SessionInv(s) /\ LoadedInv(s) /\ KeyInv(s) /\ ManagerInv(s)
    BY DEF AccessInv
  <1>2. s.steps = <<"load", "write">> /\ Tail(s.steps) = <<"write">>
    BY <1>1, Places, StepsAreTaken DEF Load, Session
  <1>3. Proceed(q, t)
    <2>1. CASE OnMember(s)
      <3>1. t = [s EXCEPT !.member = members[s.target]]
        BY <1>1, <2>1 DEF Session
      <3> QED
        BY <2>1, <3>1 DEF Load
    <2>2. CASE ~OnMember(s)
      <3>1. t = [s EXCEPT !.key = keys[s.target]]
        BY <1>1, <2>2 DEF Session
      <3> QED
        BY <2>2, <3>1 DEF Load
    <2> QED
      BY <2>1, <2>2
  <1> HIDE DEF s
  <1>4. s.op \in {"add", "update", "remove", "revoke", "rotate"}
    BY <1>1, <1>2, StagesDiffer DEF SessionInv, Session
  <1>5. member \in MemberRow /\ key \in KeyRow
    BY <1>1, <1>4 DEF AccessInv, TypeOK, SessionInv, Session, OnMember
  <1>6. IF OnMember(s) THEN member = members[s.target] ELSE key = keys[s.target]
    OBVIOUS
  <1> HIDE DEF member, key
  <1>7. r = [t EXCEPT !.steps = Tail(@)]
    OBVIOUS
  <1>8. r = [s EXCEPT !.member = member, !.key = key, !.steps = <<"write">>]
    BY <1>1, <1>2 DEF Session
  <1> HIDE DEF r, t
  <1>9. /\ r \in Session
        /\ r.op = s.op /\ r.by = s.by /\ r.target = s.target /\ r.role = s.role
        /\ r.status = s.status /\ r.steps = <<"write">> /\ r.locks = s.locks
        /\ r.member = member /\ r.key = key /\ r.crossed = s.crossed
        /\ r.overtaken = s.overtaken
    <2>1. <<"write">> \in Stages
      BY DEF Stages, Unlocked
    <2> QED
      BY <1>1, <1>5, <1>8, <2>1 DEF Session
  <1>10. s.locks = {}
    BY <1>1, <1>2 DEF SessionInv, Unlocked
  <1>11. SessionInv(r)
    BY <1>1, <1>4, <1>9, <1>10, StagesDiffer DEF SessionInv, OnMember
  <1>12. LoadedInv(r)
    BY <1>1, <1>6, <1>9 DEF LoadedInv, OnMember
  <1>13. KeyInv(r) /\ ManagerInv(r)
    BY <1>1, <1>6, <1>9 DEF KeyInv, ManagerInv, OnMember
  <1> QED
    BY <1>3, <1>7, <1>11, <1>12, <1>13, ProceedKeeps

\* A write changes nothing of a session but its lock.
LEMMA WriteKeeps ==
  ASSUME AccessInv, NEW q \in Requests, AtStep(q, "write"),
         NEW locks \in {{}, {requests[q].target}},
         Proceed(q, [requests[q] EXCEPT !.locks = locks]),
         OnMember(requests[q]) =>
           /\ Changes(requests[q]) => requests[q].target \in locks
           /\ requests[q].op = "add" => requests[q].member.status \in {"none", "removed"}
  PROVE  AccessInv'
  <1> DEFINE s == requests[q]
             t == [s EXCEPT !.locks = locks]
             r == [t EXCEPT !.steps = Tail(@)]
  <1>1. s \in Session /\ SessionInv(s) /\ LoadedInv(s) /\ KeyInv(s) /\ ManagerInv(s)
    BY DEF AccessInv
  <1>2. s.steps = <<"write">> /\ Tail(s.steps) = <<>>
    BY <1>1, Places, StepsAreTaken DEF Session
  <1>3. Proceed(q, t)
    OBVIOUS
  <1>4. /\ locks \in {{}, {s.target}}
        /\ OnMember(s) =>
             /\ Changes(s) => s.target \in locks
             /\ s.op = "add" => s.member.status \in {"none", "removed"}
    OBVIOUS
  <1> HIDE DEF s
  <1>5. r = [t EXCEPT !.steps = Tail(@)]
    OBVIOUS
  <1>6. r = [s EXCEPT !.locks = locks, !.steps = <<>>]
    BY <1>1, <1>2 DEF Session
  <1> HIDE DEF r, t
  <1>7. /\ r \in Session
        /\ r.op = s.op /\ r.by = s.by /\ r.target = s.target /\ r.role = s.role
        /\ r.status = s.status /\ r.steps = <<>> /\ r.locks = locks
        /\ r.member = s.member /\ r.key = s.key /\ r.crossed = s.crossed
        /\ r.overtaken = s.overtaken
    <2>1. <<>> \in Stages
      BY DEF Stages
    <2> QED
      BY <1>1, <1>4, <1>6, <2>1 DEF Session
  <1>8. Changes(r) <=> Changes(s)
    BY <1>7 DEF Changes, Differs
  <1>9. SessionInv(r)
    BY <1>1, <1>4, <1>7, <1>8, StagesDiffer DEF SessionInv, OnMember
  <1>10. LoadedInv(r) /\ KeyInv(r) /\ ManagerInv(r)
    BY <1>1, <1>2, <1>7 DEF LoadedInv, KeyInv, ManagerInv, OnMember
  <1> QED
    BY <1>3, <1>5, <1>9, <1>10, ProceedKeeps

LEMMA WriteMemberKeeps ==
  ASSUME AccessInv, NEW q \in Requests, WriteMember(q)
  PROVE  AccessInv'
  <1> DEFINE s == requests[q]
             locks == IF Changes(s) THEN {s.target} ELSE {}
  <1>1. s \in Session /\ SessionInv(s)
    BY DEF AccessInv
  <1>2. s.op = "add" => s.member.status \in {"none", "removed"}
    BY DEF WriteMember
  <1>0. AtStep(q, "write")
    BY DEF WriteMember
  <1>3. s.locks = {}
    BY <1>0, <1>1, Places DEF SessionInv, Session, Unlocked
  <1>4. Proceed(q, [s EXCEPT !.locks = locks])
    <2>1. CASE Changes(s)
      BY <1>3, <2>1 DEF WriteMember, Lock
    <2>2. CASE ~Changes(s)
      <3>1. [s EXCEPT !.locks = locks] = s
        BY <1>1, <1>3, <2>2 DEF Session
      <3> QED
        BY <2>2, <3>1 DEF WriteMember
    <2> QED
      BY <2>1, <2>2
  <1>5. locks \in {{}, {s.target}} /\ (Changes(s) => s.target \in locks)
    OBVIOUS
  <1> HIDE DEF locks
  <1> QED
    BY <1>0, <1>2, <1>4, <1>5, WriteKeeps

LEMMA WriteKeyKeeps ==
  ASSUME AccessInv, NEW q \in Requests, WriteKey(q)
  PROVE  AccessInv'
  <1> DEFINE s == requests[q]
  <1>1. s \in Session /\ SessionInv(s)
    BY DEF AccessInv
  <1>2. AtStep(q, "write") /\ ~OnMember(s)
    BY DEF WriteKey
  <1>3. s.locks = {}
    BY <1>1, <1>2, Places DEF SessionInv, Session, Unlocked
  <1>4. Proceed(q, [s EXCEPT !.locks = {s.target}])
    BY <1>3 DEF WriteKey, Lock
  <1> QED
    BY <1>2, <1>4, WriteKeeps

(***************************************************************************)
(* The end of a request: what it has written is there.                     *)
(***************************************************************************)
\* The roles and statuses that requests give are those of memberships.
LEMMA GivenAreRows ==
  /\ Unset \notin Roles
  /\ Roles \cup {Unset} \subseteq (DOMAIN ROLE_PERMISSIONS) \cup {Unset}
  /\ Statuses \cup {"active", "removed"} \subseteq MembershipStatus
  BY TenantAccessAssumption DEF TenantAccessAssumption, ROLE_PERMISSIONS, Unset, MembershipStatus

\* One row at most is another one after a commit.
LEMMA MembersCommitted ==
  ASSUME AccessInv, NEW q \in Requests, Commit(q)
  PROVE  LET r == requests[q] IN
         /\ members' \in [Users -> MemberRow]
         /\ \A u \in Users : ~(OnMember(r) /\ u = r.target) => members'[u] = members[u]
         /\ OnMember(r) =>
              members'[r.target].role =
                IF Differs(r.role, r.member.role) THEN r.role ELSE members[r.target].role
  <1> DEFINE r == requests[q]
  <1>1. r \in Session /\ SessionInv(r) /\ members \in [Users -> MemberRow]
    BY DEF AccessInv, TypeOK
  <1>2. r.steps = <<>> /\ members' = MembersAfter(r)
    BY DEF Commit
  <1> HIDE DEF r
  <1>3. CASE r.target \in r.locks /\ OnMember(r)
    <2> DEFINE role == IF Differs(r.role, r.member.role) THEN r.role ELSE members[r.target].role
               status == IF Differs(r.status, r.member.status)
                           THEN r.status ELSE members[r.target].status
    <2>1. members' = [members EXCEPT ![r.target].role = role, ![r.target].status = status]
      BY <1>2, <1>3 DEF MembersAfter
    <2>2. r.target \in Users
      BY <1>1, <1>3 DEF SessionInv
    <2>3. role \in (DOMAIN ROLE_PERMISSIONS) \cup {Unset}
      BY <1>1, <2>2, GivenAreRows DEF Session, MemberRow
    <2>4. status \in MembershipStatus \cup {"none"}
      BY <1>1, <2>2, GivenAreRows DEF Session, MemberRow, Differs
    <2>5. role = IF Differs(r.role, r.member.role) THEN r.role ELSE members[r.target].role
      OBVIOUS
    <2> HIDE DEF role, status
    <2>6. members' = [members EXCEPT ![r.target] = [role |-> role, status |-> status]]
      <3> DEFINE one == [members EXCEPT ![r.target].role = role]
      <3>1. members[r.target] = [status |-> members[r.target].status, role |-> members[r.target].role]
        BY <1>1, <2>2 DEF MemberRow
      <3>2. /\ DOMAIN one = Users
            /\ one[r.target] = [status |-> members[r.target].status, role |-> role]
            /\ \A u \in Users : u # r.target => one[u] = members[u]
        BY <1>1, <2>2, <3>1
      <3>3. members' = [one EXCEPT ![r.target].status = status]
        BY <2>1
      <3> HIDE DEF one
      <3>5. DOMAIN members' = Users /\ members'[r.target] = [status |-> status, role |-> role]
            /\ \A u \in Users : u # r.target => members'[u] = members[u]
        BY <2>2, <3>2, <3>3
      <3> QED
        BY <1>1, <2>2, <3>2, <3>3, <3>5
    <2>7. [role |-> role, status |-> status] \in MemberRow
      BY <2>3, <2>4 DEF MemberRow
    <2>8. /\ members' \in [Users -> MemberRow]
          /\ members'[r.target] = [role |-> role, status |-> status]
          /\ \A u \in Users : u # r.target => members'[u] = members[u]
      BY <1>1, <2>2, <2>6, <2>7
    <2> QED
      BY <1>3, <2>5, <2>8 DEF r
  <1>4. CASE ~(r.target \in r.locks /\ OnMember(r))
    <2>1. members' = members
      BY <1>2, <1>4 DEF MembersAfter
    <2>2. OnMember(r) => ~Differs(r.role, r.member.role)
      BY <1>1, <1>2, <1>4 DEF SessionInv, Changes
    <2> QED
      BY <1>1, <2>1, <2>2 DEF r
  <1> QED
    BY <1>3, <1>4

\* A key that is there is not issued again, and loses no scope; a key that is inserted may
\* do what it was issued for.
LEMMA KeysCommitted ==
  ASSUME AccessInv, NEW q \in Requests, Commit(q)
  PROVE  LET r == requests[q] IN
         /\ keys' \in [Keys -> KeyRow]
         /\ \A k \in Keys : keys[k].status # "none" =>
              keys'[k].status # "none" /\ keys'[k].scopes = keys[k].scopes
         /\ \A k \in Keys : keys[k].status = "REVOKED" => keys'[k] = keys[k]
         /\ \A k \in Keys : keys[k].status = "ACTIVE" /\ k # r.target => keys'[k] = keys[k]
         /\ r.op \notin {"revoke", "rotate"} =>
              \A k \in Keys : keys[k].status # "none" => keys'[k] = keys[k]
         /\ r.op = "rotate" =>
              \E k \in Keys : keys'[k] = [status |-> "ACTIVE", scopes |-> r.key.scopes]
  <1> DEFINE r == requests[q]
             new == [status |-> "ACTIVE",
                     scopes |-> IF r.op = "rotate" THEN r.key.scopes ELSE r.scopes]
             left == RevokedAfter(r)
  <1>1. r \in Session /\ SessionInv(r) /\ keys \in [Keys -> KeyRow]
    BY DEF AccessInv, TypeOK
  <1>2. keys' \in KeysAfter(r)
    BY DEF Commit
  <1> HIDE DEF r
  <1>3. new \in KeyRow
    <2>1. r.scopes \in SUBSET Permissions /\ r.key.scopes \in SUBSET Permissions
      BY <1>1 DEF Session, KeyRow
    <2> QED
      BY <2>1 DEF KeyRow
  <1>4. /\ left \in [Keys -> KeyRow]
        /\ \A k \in Keys : left[k].scopes = keys[k].scopes
        /\ \A k \in Keys : keys[k].status # "none" => left[k].status # "none"
        /\ \A k \in Keys : keys[k].status = "REVOKED" => left[k] = keys[k]
        /\ \A k \in Keys : k # r.target => left[k] = keys[k]
        /\ r.op \notin {"revoke", "rotate"} => left = keys
    <2>1. CASE r.op \in {"revoke", "rotate"} /\ r.key.status = "ACTIVE"
      <3>1. r.target \in Keys
        BY <1>1, <2>1 DEF SessionInv
      <3> DEFINE row == [status |-> "REVOKED", scopes |-> keys[r.target].scopes]
      <3>2. left = [keys EXCEPT ![r.target].status = "REVOKED"]
        BY <2>1 DEF RevokedAfter
      <3>3. left = [keys EXCEPT ![r.target] = row]
        <4>1. keys[r.target] = [status |-> keys[r.target].status, scopes |-> keys[r.target].scopes]
          BY <1>1, <3>1 DEF KeyRow
        <4>2. [keys[r.target] EXCEPT !.status = "REVOKED"] = row
          BY <4>1
        <4> HIDE DEF row, left
        <4> QED
          BY <3>2, <4>2
      <3>4. row \in KeyRow
        BY <1>1, <3>1 DEF KeyRow
      <3>5. row.scopes = keys[r.target].scopes /\ row.status = "REVOKED"
        OBVIOUS
      <3>6. keys[r.target].status = "REVOKED" => row = keys[r.target]
        BY <1>1, <3>1 DEF KeyRow
      <3> HIDE DEF row, left
      <3>7. /\ left \in [Keys -> KeyRow] /\ left[r.target] = row
            /\ \A k \in Keys : k # r.target => left[k] = keys[k]
        BY <1>1, <3>1, <3>3, <3>4
      <3> QED
        BY <2>1, <3>1, <3>5, <3>6, <3>7
    <2>2. CASE ~(r.op \in {"revoke", "rotate"} /\ r.key.status = "ACTIVE")
      <3>1. left = keys
        BY <2>2 DEF RevokedAfter
      <3> HIDE DEF left
      <3> QED
        BY <1>1, <3>1
    <2> QED
      BY <2>1, <2>2
  <1> HIDE DEF left
  <1>5. CASE r.op \in {"issue", "rotate"}
    <2>1. PICK k \in Keys : keys[k].status = "none" /\ keys' = [left EXCEPT ![k] = new]
      BY <1>2, <1>5 DEF KeysAfter, Issued, left
    <2>2. r.op = "rotate" => new = [status |-> "ACTIVE", scopes |-> r.key.scopes]
      OBVIOUS
    <2> HIDE DEF new
    <2>3. /\ keys' \in [Keys -> KeyRow] /\ keys'[k] = new
          /\ \A l \in Keys : l # k => keys'[l] = left[l]
      BY <1>3, <1>4, <2>1
    <2> QED
      BY <1>4, <1>5, <2>1, <2>2, <2>3 DEF r
  <1>6. CASE r.op \notin {"issue", "rotate"}
    <2>1. keys' = left
      BY <1>2, <1>6 DEF KeysAfter, left
    <2> QED
      BY <1>4, <1>6, <2>1 DEF r
  <1> QED
    BY <1>5, <1>6

\* The newest event still tells the role of whoever has not been changed twice at a time.
LEMMA AuditCommitted ==
  ASSUME AccessInv, NEW q \in Requests, Commit(q)
  PROVE  /\ audited' \in [Users -> (DOMAIN ROLE_PERMISSIONS) \cup {Unset}]
         /\ crossed' \subseteq Users
         /\ AuditTellsTheRole'
  <1> DEFINE r == requests[q]
  <1>1. /\ r \in Session /\ SessionInv(r) /\ LoadedInv(r)
        /\ audited \in [Users -> (DOMAIN ROLE_PERMISSIONS) \cup {Unset}]
        /\ crossed \subseteq Users
        /\ \A u \in Users \ crossed : audited[u] = members[u].role
    BY DEF AccessInv, TypeOK, AuditTellsTheRole
  <1>2. /\ r.steps = <<>> /\ audited' \in AuditAfter(r)
        /\ crossed' = CASE r.crossed /\ OnMember(r) -> crossed \cup {r.target}
                        [] ~r.crossed /\ TellsRole(r) -> crossed \ {r.target}
                        [] OTHER -> crossed
    BY DEF Commit
  <1>3. /\ \A u \in Users : ~(OnMember(r) /\ u = r.target) => members'[u] = members[u]
        /\ OnMember(r) =>
             members'[r.target].role =
               IF Differs(r.role, r.member.role) THEN r.role ELSE members[r.target].role
    BY MembersCommitted
  <1> HIDE DEF r
  <1>4. TellsRole(r) => OnMember(r) /\ r.target \in Users
    BY <1>1 DEF TellsRole, OnMember, SessionInv
  <1>5. /\ audited' \in [Users -> (DOMAIN ROLE_PERMISSIONS) \cup {Unset}]
        /\ \A u \in Users : u # r.target => audited'[u] = audited[u]
        /\ ~TellsRole(r) => audited' = audited
        /\ TellsRole(r) /\ ~r.crossed => audited'[r.target] = r.role
    <2>1. CASE TellsRole(r)
      <3>1. PICK role \in {r.role} \cup (IF r.crossed THEN {audited[r.target]} ELSE {}) :
              audited' = [audited EXCEPT ![r.target] = role]
        BY <1>2, <2>1 DEF AuditAfter
      <3>2. role \in (DOMAIN ROLE_PERMISSIONS) \cup {Unset}
        BY <1>1, <1>4, <2>1, GivenAreRows DEF Session
      <3> QED
        BY <1>1, <1>4, <2>1, <3>1, <3>2
    <2>2. CASE ~TellsRole(r)
      BY <1>1, <1>2, <2>2 DEF AuditAfter
    <2> QED
      BY <2>1, <2>2
  <1>6. crossed' \subseteq Users
    <2>1. OnMember(r) => r.target \in Users
      BY <1>1 DEF SessionInv
    <2> QED
      BY <1>1, <1>2, <2>1
  <1>7. ASSUME NEW u \in Users, u \notin crossed'
        PROVE  audited'[u] = members'[u].role
    <2>1. CASE ~(OnMember(r) /\ u = r.target)
      <3>1. u \notin crossed
        BY <1>2, <1>4, <1>7, <2>1
      <3>2. audited'[u] = audited[u]
        BY <1>4, <1>5, <2>1
      <3> QED
        BY <1>1, <1>3, <2>1, <3>1, <3>2
    <2>2. CASE OnMember(r) /\ u = r.target
      <3>1. ~r.crossed
        BY <1>2, <1>7, <2>2
      <3>2. r.member = members[u]
        BY <1>1, <1>2, <2>2, <3>1 DEF LoadedInv
      <3>3. CASE TellsRole(r)
        <4>1. r.role # Unset
          BY <1>1, <3>3 DEF TellsRole, SessionInv, Differs
        <4> QED
          BY <1>3, <1>5, <2>2, <3>1, <3>2, <3>3, <4>1 DEF Differs
      <3>4. CASE ~TellsRole(r)
        <4>1. u \notin crossed
          BY <1>2, <1>7, <3>1, <3>4
        <4>2. ~Differs(r.role, r.member.role)
          BY <1>1, <2>2, <3>4 DEF TellsRole, OnMember, SessionInv, Differs
        <4> QED
          BY <1>1, <1>3, <1>5, <2>2, <3>4, <4>1, <4>2
      <3> QED
        BY <3>3, <3>4
    <2> QED
      BY <2>1, <2>2
  <1> QED
    BY <1>5, <1>6, <1>7 DEF AuditTellsTheRole

\* A commit takes the permissions of no principal but the one it is about.
LEMMA ManagersCommitted ==
  ASSUME AccessInv, NEW q \in Requests, Commit(q)
  PROVE  Managers \ Managers' \subseteq {requests[q].target}
  <1> DEFINE r == requests[q]
  <1>1. /\ \A u \in Users : u # r.target => members'[u] = members[u]
        /\ \A k \in Keys : keys[k].status = "ACTIVE" /\ k # r.target => keys'[k] = keys[k]
    BY MembersCommitted, KeysCommitted
  <1> QED
    BY <1>1 DEF Managers

\* A rotation by one that manages leaves one: the new key may do what the old one might.
LEMMA RotationLeavesManager ==
  ASSUME AccessInv, NEW q \in Requests, Commit(q),
         requests[q].op = "rotate", requests[q].by \in Managers
  PROVE  Managers' # {}
  <1> DEFINE r == requests[q]
  <1>1. SessionInv(r) /\ KeyInv(r) /\ r.steps = <<>>
    BY DEF AccessInv, Commit
  <1>2. /\ \A k \in Keys : keys[k].status = "ACTIVE" /\ k # r.target => keys'[k] = keys[k]
        /\ \E k \in Keys : keys'[k] = [status |-> "ACTIVE", scopes |-> r.key.scopes]
    BY KeysCommitted
  <1>3. \A u \in Users : members'[u] = members[u]
    <2>1. ~OnMember(r)
      BY DEF OnMember
    <2> QED
      BY <2>1, MembersCommitted
  <1>4. r.op = "rotate" /\ r.by \in Managers
    OBVIOUS
  <1> HIDE DEF r
  <1>5. CASE r.by \in Users /\ members[r.by].status = "active"
               /\ Manage \cap ROLE_PERMISSIONS[members[r.by].role] # {}
    BY <1>3, <1>5 DEF Managers
  <1>6. CASE r.by \in Keys /\ keys[r.by].status = "ACTIVE" /\ Manage \cap keys[r.by].scopes # {}
    <2>1. CASE r.by = r.target
      <3>1. r.key.scopes = keys[r.by].scopes
        BY <1>1, <1>4, <2>1 DEF KeyInv
      <3>2. PICK k \in Keys : keys'[k] = [status |-> "ACTIVE", scopes |-> r.key.scopes]
        BY <1>2
      <3> QED
        BY <1>6, <3>1, <3>2 DEF Managers
    <2>2. CASE r.by # r.target
      BY <1>2, <1>6, <2>2 DEF Managers
    <2> QED
      BY <2>1, <2>2
  <1> QED
    BY <1>4, <1>5, <1>6 DEF Managers

LEMMA CommitKeeps ==
  ASSUME AccessInv, NEW q \in Requests, Commit(q)
  PROVE  AccessInv'
  <1> DEFINE r == requests[q]
  <1>1. TypeOK'
    <2>1. made' \in 0 .. MaxRequests /\ faults' \in 0 .. MaxFaults
      BY DEF Commit, AccessInv, TypeOK
    <2> QED
      BY <2>1, MembersCommitted, KeysCommitted, AuditCommitted DEF TypeOK
  <1>2. /\ requests \in [Requests -> Session]
        /\ requests' = [p \in Requests |-> IF p = q THEN Idle ELSE Passed(q, p)]
    BY DEF Commit, AccessInv
  <1>3. /\ \A u \in Users : ~(OnMember(r) /\ u = r.target) => members'[u] = members[u]
        /\ \A k \in Keys : keys[k].status # "none" =>
             keys'[k].status # "none" /\ keys'[k].scopes = keys[k].scopes
    BY MembersCommitted, KeysCommitted
  <1> HIDE DEF r
  <1>4. ASSUME NEW p \in Requests
        PROVE  /\ requests'[p] \in Session
               /\ (SessionInv(requests[p]) /\ LoadedInv(requests[p])
                    /\ KeyInv(requests[p]) /\ ManagerInv(requests[p]))'
    <2>1. CASE p = q
      <3>1. requests'[p] = Idle
        BY <1>2, <2>1
      <3>2. SessionInv(Idle) /\ Idle \in Session /\ ~OnMember(Idle) /\ Idle.op = "none"
        BY IdleSession DEF OnMember
      <3> QED
        BY <3>1, <3>2 DEF SessionInv, LoadedInv, KeyInv, ManagerInv, OnMember
    <2>2. CASE p # q
      <3> DEFINE s == requests[p]
                 t == requests'[p]
                 passed == OnMember(r) /\ InTransaction(p) /\ s.target = r.target
                 lost == s.op # "none" /\ s.by \in Managers \ Managers'
      <3>1. s \in Session /\ SessionInv(s) /\ LoadedInv(s) /\ KeyInv(s) /\ ManagerInv(s)
        BY DEF AccessInv
      <3>2. t = [s EXCEPT !.crossed = @ \/ passed, !.overtaken = @ \/ lost]
        BY <1>2, <2>2 DEF Passed, r
      <3>3. s.op # "none" /\ s.steps \notin Authenticating => InTransaction(p)
        BY <3>1, Places DEF InTransaction, Session
      <3>4. s.op # "none" /\ ~s.overtaken /\ ~lost => s.by \in Managers'
        BY <3>1 DEF ManagerInv
      <3> HIDE DEF s, passed, lost
      <3>5. /\ t \in Session
            /\ t.op = s.op /\ t.by = s.by /\ t.target = s.target /\ t.role = s.role
            /\ t.status = s.status /\ t.steps = s.steps /\ t.locks = s.locks
            /\ t.member = s.member /\ t.key = s.key
            /\ t.crossed = (s.crossed \/ passed)
            /\ t.overtaken = (s.overtaken \/ lost)
        <4> HIDE DEF AccessInv, t
        <4>1. (s.crossed \/ passed) \in BOOLEAN /\ (s.overtaken \/ lost) \in BOOLEAN
          BY Zenon
        <4> DEFINE c == s.crossed \/ passed
                   o == s.overtaken \/ lost
        <4>2. t = [s EXCEPT !.crossed = c, !.overtaken = o]
          BY <3>1, <3>2 DEF Session
        <4> HIDE DEF c, o
        <4>3. c \in BOOLEAN /\ o \in BOOLEAN
          BY <4>1 DEF c, o
        <4>4. /\ t \in Session
              /\ t.op = s.op /\ t.by = s.by /\ t.target = s.target /\ t.role = s.role
              /\ t.status = s.status /\ t.steps = s.steps /\ t.locks = s.locks
              /\ t.member = s.member /\ t.key = s.key /\ t.crossed = c /\ t.overtaken = o
          BY <3>1, <4>2, <4>3 DEF Session
        <4> QED
          BY <4>4 DEF c, o
      <3> HIDE DEF t
      <3>6. SessionInv(t)
        BY <3>1, <3>5 DEF SessionInv, OnMember, Changes, Differs
      <3>7. t.op = "rotate" /\ t.by = t.target =>
              /\ keys'[t.by].status # "none"
              /\ t.steps \in {<<"write">>, <<>>} => t.key.scopes = keys'[t.by].scopes
        <4>1. s.op = "rotate" => s.target \in Keys
          BY <3>1 DEF SessionInv
        <4> QED
          BY <1>3, <3>1, <3>5, <4>1 DEF KeyInv
      <3>8. OnMember(t) /\ ~t.crossed /\ t.steps \in {<<"write">>, <<>>} =>
              t.member = members'[t.target]
        <4> SUFFICES ASSUME OnMember(s), ~t.crossed, s.steps \in {<<"write">>, <<>>}
                     PROVE  s.member = members'[s.target]
          BY <3>5 DEF OnMember
        <4>1. s.target \in Users /\ s.op # "none"
          BY <3>1 DEF SessionInv, OnMember
        <4>2. s.steps \notin Authenticating
          BY StagesDiffer
        <4>3. ~passed /\ ~s.crossed
          BY <3>5
        <4>4. ~(OnMember(r) /\ s.target = r.target)
          BY <3>3, <4>1, <4>2, <4>3 DEF passed
        <4>5. s.member = members[s.target]
          BY <3>1, <4>3 DEF LoadedInv
        <4> QED
          BY <1>3, <4>1, <4>4, <4>5
      <3>9. t.op # "none" /\ ~t.overtaken => t.by \in Managers'
        BY <3>4, <3>5
      <3>10. t = requests'[p]
        BY DEF t
      <3>11. SessionInv(requests[p])'
        BY <3>6, <3>10 DEF SessionInv, OnMember, Changes, Differs
      <3>12. LoadedInv(requests[p])'
        BY <3>8, <3>10 DEF LoadedInv, OnMember
      <3>13. KeyInv(requests[p])'
        BY <3>7, <3>10 DEF KeyInv
      <3>14. ManagerInv(requests[p])'
        BY <3>9, <3>10 DEF ManagerInv
      <3>15. requests'[p] \in Session
        BY <3>5, <3>10
      <3> QED
        BY <3>11, <3>12, <3>13, <3>14, <3>15
    <2> QED
      BY <2>1, <2>2
  <1> QED
    BY <1>1, <1>2, <1>4, AuditCommitted DEF AccessInv

(***************************************************************************)
(* Every step.                                                             *)
(***************************************************************************)
LEMMA InitAccess ==
  Init => AccessInv
  <1> SUFFICES ASSUME Init
               PROVE  AccessInv
    OBVIOUS
  <1> USE TenantAccessAssumption
  <1>1. /\ members \in [Users -> MemberRow] /\ keys \in [Keys -> KeyRow]
        /\ audited \in [Users -> (DOMAIN ROLE_PERMISSIONS) \cup {Unset}]
    BY DEF Init, NoMember, NoKey, MemberRow, KeyRow, MembershipStatus, ROLE_PERMISSIONS,
           TenantAccessAssumption
  <1>2. TypeOK
    <2>1. made \in 0 .. MaxRequests /\ faults \in 0 .. MaxFaults
      <3>1. made = 0 /\ faults = 0 /\ MaxRequests \in Nat /\ MaxFaults \in Nat
        BY DEF Init, TenantAccessAssumption
      <3> HIDE TenantAccessAssumption
      <3> QED
        BY <3>1
    <2>2. crossed \subseteq Users
      BY DEF Init
    <2> QED
      BY <1>1, <2>1, <2>2 DEF TypeOK
  <1>3. \A q \in Requests : requests[q] = Idle
    BY DEF Init
  <1>5. AuditTellsTheRole
    BY DEF AuditTellsTheRole, Init
  <1>6. requests \in [Requests -> Session]
    BY IdleSession DEF Init
  <1> QED
    BY <1>2, <1>3, <1>5, <1>6, IdleSession DEF AccessInv

LEMMA StatementKeeps ==
  ASSUME AccessInv, NEW q \in Requests, Statement(q)
  PROVE  AccessInv'
  <1>1. CASE Refuse(q) \/ Conflict(q)
    <2>1. Rollback(q) /\ faults' \in 0 .. MaxFaults
      BY <1>1 DEF Refuse, Conflict, AccessInv, TypeOK
    <2> QED
      BY <2>1, RollbackKeeps
  <1> QED
    BY <1>1, TouchKeeps, ReleaseKeeps, LoadKeeps, WriteMemberKeeps, WriteKeyKeeps, CommitKeeps
    DEF Statement

\* The requests about members: a removal gives no role.
LEMMA MemberRequestKeeps ==
  ASSUME AccessInv, NEW q \in Requests, NEW x \in Principals, NEW u \in Users,
         \/ \E role \in Roles : add_member(q, x, u, role)
         \/ \E role \in Roles \cup {Unset}, status \in Statuses \cup {Unset} :
              update_membership(q, x, u, role, status)
         \/ remove_member(q, x, u)
  PROVE  AccessInv'
  <1> DEFINE steps == <<"load", "write">>
             permission == "members:manage"
             Starts(op, role, status) ==
               \E p \in Authenticated(x, op, permission, steps) :
                 Begin(q, [p EXCEPT !.target = u, !.role = role, !.status = status])
  <1>1. ASSUME NEW op \in {"add", "update", "remove"},
               NEW role \in Roles \cup {Unset},
               NEW status \in Statuses \cup {"active", "removed", Unset},
               op = "add" => role # Unset /\ status = "active",
               op = "remove" => role = Unset,
               Starts(op, role, status)
        PROVE  AccessInv'
    BY <1>1, BeginAboutMember
  <1>2. ASSUME NEW role \in Roles, add_member(q, x, u, role)
        PROVE  AccessInv'
    <2>1. Starts("add", role, "active")
      BY <1>2 DEF add_member
    <2> HIDE DEF Starts
    <2> QED
      BY <1>1, <2>1, GivenAreRows
  <1>3. ASSUME NEW role \in Roles \cup {Unset}, NEW status \in Statuses \cup {Unset},
               update_membership(q, x, u, role, status)
        PROVE  AccessInv'
    <2>1. Starts("update", role, status)
      BY <1>3 DEF update_membership
    <2> HIDE DEF Starts
    <2> QED
      BY <1>1, <2>1
  <1>4. ASSUME remove_member(q, x, u)
        PROVE  AccessInv'
    <2>1. Starts("remove", Unset, "removed")
      <3>1. PICK p \in Authenticated(x, "remove", permission, steps) :
              Begin(q, [p EXCEPT !.target = u, !.status = "removed"])
        BY <1>4 DEF remove_member
      <3>2. Authentic(p, x, "remove", steps)
        <4> DEFINE op == "remove"
        <4>1. /\ op \in {"add", "update", "remove", "issue", "revoke", "rotate"}
              /\ permission \in Manage /\ steps \in {<<"load", "write">>, <<>>}
              /\ p \in Authenticated(x, op, permission, steps)
          BY <3>1 DEF Manage
        <4> HIDE DEF op, permission, steps
        <4>2. Authentic(p, x, op, steps)
          BY <4>1, SessionOfPrincipal
        <4> QED
          BY <4>2 DEF op
      <3>3. p \in Session /\ p.role = Unset
        BY <3>2 DEF Authentic
      <3>4. [p EXCEPT !.target = u, !.role = Unset, !.status = "removed"]
              = [p EXCEPT !.target = u, !.status = "removed"]
        BY <3>3 DEF Session
      <3> QED
        BY <3>1, <3>4
    <2> HIDE DEF Starts
    <2> QED
      BY <1>1, <2>1
  <1> QED
    BY <1>2, <1>3, <1>4

LEMMA KeyRequestKeeps ==
  ASSUME AccessInv, NEW q \in Requests, NEW x \in Principals,
         \/ \E scopes \in ScopeSets : create_api_key(q, x, scopes)
         \/ \E k \in Keys : revoke_api_key(q, x, k) \/ rotate_api_key(q, x, k)
  PROVE  AccessInv'
  <1>1. ASSUME NEW scopes \in ScopeSets, create_api_key(q, x, scopes)
        PROVE  AccessInv'
    BY <1>1, BeginIssue DEF create_api_key
  <1>2. ASSUME NEW k \in Keys, revoke_api_key(q, x, k)
        PROVE  AccessInv'
    BY <1>2, BeginAboutKey DEF revoke_api_key
  <1>3. ASSUME NEW k \in Keys, rotate_api_key(q, x, k)
        PROVE  AccessInv'
    BY <1>3, BeginAboutKey DEF rotate_api_key
  <1> QED
    BY <1>1, <1>2, <1>3

LEMMA StepAccess ==
  AccessInv /\ [Next]_vars => AccessInv'
  <1> SUFFICES ASSUME AccessInv, [Next]_vars
               PROVE  AccessInv'
    OBVIOUS
  <1>1. ASSUME NEW q \in Requests, Fail(q)
        PROVE  AccessInv'
    <2>1. Rollback(q) /\ faults' \in 0 .. MaxFaults
      BY <1>1, TenantAccessAssumption DEF Fail, AccessInv, TypeOK, TenantAccessAssumption
    <2> QED
      BY <2>1, RollbackKeeps
  <1>2. CASE UNCHANGED vars
    BY <1>2 DEF vars, AccessInv, TypeOK, SessionInv, LoadedInv, KeyInv, ManagerInv,
                Managers, AuditTellsTheRole
  <1> QED
    BY <1>1, <1>2, StatementKeeps, MemberRequestKeeps, KeyRequestKeeps DEF Next

(***************************************************************************)
(* The theorems.                                                           *)
(***************************************************************************)
\* For any number of requests at a time: what a session has loaded is as it was, or known
\* to have changed since, and who acts may, or is known to have been overtaken.
THEOREM AccessIsInvariant == Spec => []AccessInv
  <1> QED
    BY InitAccess, StepAccess, PTL DEF Spec

\* The rows, the audit trail and what is counted keep their types.
THEOREM TypeCorrect == Spec => []TypeOK
  <1>1. AccessInv => TypeOK
    BY DEF AccessInv
  <1> QED
    BY <1>1, AccessIsInvariant, PTL

\* The newest membership event tells the role (api/v1/endpoints/memberships.py:131),
\* but for a user whose membership two requests have changed at once.
THEOREM AuditIsTrue == Spec => []AuditTellsTheRole
  <1>1. AccessInv => AuditTellsTheRole
    BY DEF AccessInv
  <1> QED
    BY <1>1, AccessIsInvariant, PTL

\* A tenant loses its last manager (api/v1/endpoints/memberships.py:156) only to a request
\* of that manager about itself, or to one whose principal lost its permissions before it
\* committed.
THEOREM SomebodyCanManage == Spec => SomebodyManages
  <1> DEFINE Lost == Managers # {} /\ Managers' = {}
             Ends(q) == requests[q].op # "none" /\ requests'[q].op = "none"
             Excused(q) == LET r == requests[q] IN
                           r.overtaken \/ (r.by = r.target /\ r.op # "rotate")
  <1>1. ASSUME AccessInv, NEW q \in Requests, Commit(q), Lost
        PROVE  Ends(q) /\ Managers = {requests[q].target} /\ Excused(q)
    <2>1. Ends(q)
      BY <1>1, IdleSession DEF Commit
    <2>2. Managers = {requests[q].target}
      BY <1>1, ManagersCommitted
    <2>3. requests[q].op # "none" /\ (~requests[q].overtaken => requests[q].by \in Managers)
      BY <1>1 DEF AccessInv, ManagerInv, Commit
    <2>4. requests[q].by \in Managers => requests[q].op # "rotate"
      BY <1>1, RotationLeavesManager
    <2> QED
      BY <2>1, <2>2, <2>3, <2>4
  <1>2. ASSUME NEW q \in Requests, Statement(q) \/ Fail(q), ~Commit(q)
        PROVE  members' = members /\ keys' = keys
    BY <1>2 DEF Statement, Touch, Release, Load, Refuse, Conflict, WriteMember, WriteKey, Fail,
                Rollback, Lock, Proceed
  <1>3. ASSUME NEW q \in Requests, NEW request, Begin(q, request)
        PROVE  members' = members /\ keys' = keys
    BY <1>3 DEF Begin
  <1>4. members' = members /\ keys' = keys => Managers' = Managers
    BY DEF Managers
  <1>5. ASSUME AccessInv, [Next]_vars, Lost
        PROVE  \E q \in Requests : Ends(q) /\ Managers = {requests[q].target} /\ Excused(q)
    <2>1. ~(members' = members /\ keys' = keys)
      BY <1>4, <1>5
    <2>2. PICK q \in Requests : Commit(q)
      <3>1. CASE UNCHANGED vars
        BY <2>1, <3>1 DEF vars
      <3>2. ASSUME NEW q \in Requests, NEW x \in Principals,
                   \/ \E u \in Users :
                        \/ \E role \in Roles : add_member(q, x, u, role)
                        \/ \E role \in Roles \cup {Unset}, status \in Statuses \cup {Unset} :
                             update_membership(q, x, u, role, status)
                        \/ remove_member(q, x, u)
                   \/ \E scopes \in ScopeSets : create_api_key(q, x, scopes)
                   \/ \E k \in Keys : revoke_api_key(q, x, k) \/ rotate_api_key(q, x, k)
            PROVE  FALSE
        <4>1. \E request : Begin(q, request)
          BY <3>2 DEF add_member, update_membership, remove_member, create_api_key,
                      revoke_api_key, rotate_api_key
        <4> QED
          BY <1>3, <2>1, <4>1
      <3> QED
        BY <1>2, <1>5, <2>1, <3>1, <3>2 DEF Next
    <2> QED
      BY <1>1, <1>5, <2>2
  <1>6. AccessInv /\ [Next]_vars =>
          [Managers # {} /\ Managers' = {} =>
             \E q \in Requests :
               LET r == requests[q] IN
               /\ r.op # "none" /\ requests'[q].op = "none"
               /\ Managers = {r.target}
               /\ \/ r.overtaken
                  \/ r.by = r.target /\ r.op # "rotate"]_vars
    BY <1>5
  <1> QED
    BY <1>6, AccessIsInvariant, PTL DEF Spec, SomebodyManages

\* Requests do not wait for each other in a circle: one that waits holds nothing.
THEOREM NoCircularWait == Spec => []NoWaitCycle
  <1>1. ASSUME AccessInv
        PROVE  NoWaitCycle
    <2>1. ASSUME NEW q \in Requests, NEW p \in WaitsFor(q)
          PROVE  requests[q].locks = {} /\ requests[p].locks # {} /\ p \in Requests
      <3>1. requests[p].locks # {} /\ p \in Requests
        BY <2>1 DEF WaitsFor
      <3>2. AtStep(q, "touch") \/ AtStep(q, "write")
        BY <2>1 DEF WaitsFor
      <3>3. SessionInv(requests[q]) /\ requests[q].steps \in Stages
        BY <1>1 DEF AccessInv, Session
      <3>4. requests[q].steps \in Unlocked
        BY <3>2, <3>3, Places DEF Unlocked
      <3> QED
        BY <3>1, <3>3, <3>4 DEF SessionInv
    <2>2. ASSUME NEW S \in SUBSET Requests, S # {}
          PROVE  \E q \in S : WaitsFor(q) \cap S = {}
      <3> SUFFICES ASSUME \A q \in S : WaitsFor(q) \cap S # {}
                   PROVE  FALSE
        OBVIOUS
      <3>1. PICK q \in S : TRUE
        BY <2>2
      <3>2. PICK p \in S : p \in WaitsFor(q)
        OBVIOUS
      <3>3. PICK o \in S : o \in WaitsFor(p)
        OBVIOUS
      <3> QED
        BY <2>1, <3>2, <3>3
    <2> QED
      BY <2>2 DEF NoWaitCycle
  <1> QED
    BY <1>1, AccessIsInvariant, PTL

\* A revoked key is never active again (services/api_key_service.py:86).
THEOREM RevocationHolds == Spec => RevocationIsFinal
  <1>1. ASSUME AccessInv, [Next]_vars, NEW k \in Keys, keys[k].status = "REVOKED"
        PROVE  keys'[k] = keys[k]
    <2>1. ASSUME NEW q \in Requests, Commit(q)
          PROVE  keys'[k] = keys[k]
      BY <1>1, <2>1, KeysCommitted
    <2>2. ASSUME NEW q \in Requests, Statement(q) \/ Fail(q)
          PROVE  keys'[k] = keys[k]
      BY <2>1, <2>2
      DEF Statement, Touch, Release, Load, Refuse, Conflict, WriteMember, WriteKey, Fail,
          Rollback, Lock, Proceed
    <2>3. CASE UNCHANGED vars
      BY <2>3 DEF vars
    <2>4. ASSUME NEW q \in Requests, NEW request, Begin(q, request)
          PROVE  keys' = keys
      BY <2>4 DEF Begin
    <2> QED
      BY <1>1, <2>2, <2>3, <2>4
      DEF Next, add_member, update_membership, remove_member, create_api_key, revoke_api_key,
          rotate_api_key
  <1>2. AccessInv /\ [Next]_vars => [\A k \in Keys : keys[k].status = "REVOKED" => keys'[k] = keys[k]]_vars
    BY <1>1
  <1> QED
    BY <1>2, AccessIsInvariant, PTL DEF Spec, RevocationIsFinal

=============================================================================
