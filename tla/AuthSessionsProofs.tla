------------------------- MODULE AuthSessionsProofs -------------------------
(***************************************************************************)
(* The sessions of a user: proved for any number of tokens, requests and   *)
(* failures.                                                               *)
(***************************************************************************)
EXTENDS AuthSessions, WellFoundedInduction, TLAPS

(***************************************************************************)
(* The statements of a request.                                            *)
(***************************************************************************)
LEMMA StepsOf ==
  /\ StepsLeft("none") = {<<>>}
  /\ StepsLeft("login") = {<<"user", "insert">>, <<"insert">>, <<>>}
  /\ StepsLeft("switch") = {<<"insert">>, <<>>}
  /\ StepsLeft("refresh") =
       {<<"load", "insert", "rotate">>, <<"insert", "rotate">>, <<"rotate">>, <<>>}
  /\ StepsLeft("reuse") = {<<"select">>, <<>>}
  /\ StepsLeft("revokeSession") = {<<"select">>, <<>>}
  /\ StepsLeft("logout") = {<<"select", "deny">>, <<"deny">>, <<>>}
  /\ StepsLeft("changePassword") = {<<"user", "select">>, <<"select">>, <<>>}
  /\ StepsLeft("resetPassword") = {<<"user", "select">>, <<"select">>, <<>>}
  /\ StepsLeft("revokeAll") = {<<"select", "user">>, <<"user">>, <<>>}
  BY DEF StepsLeft

\* What is left of a request after each of its statements.
LEMMA StepsAreTaken ==
  /\ Tail(<<"user", "insert">>) = <<"insert">> /\ Head(<<"user", "insert">>) = "user"
  /\ Tail(<<"insert">>) = <<>> /\ Head(<<"insert">>) = "insert"
  /\ Tail(<<"load", "insert", "rotate">>) = <<"insert", "rotate">>
  /\ Head(<<"load", "insert", "rotate">>) = "load"
  /\ Tail(<<"insert", "rotate">>) = <<"rotate">> /\ Head(<<"insert", "rotate">>) = "insert"
  /\ Tail(<<"rotate">>) = <<>> /\ Head(<<"rotate">>) = "rotate"
  /\ Tail(<<"select">>) = <<>> /\ Head(<<"select">>) = "select"
  /\ Tail(<<"select", "deny">>) = <<"deny">> /\ Head(<<"select", "deny">>) = "select"
  /\ Tail(<<"deny">>) = <<>> /\ Head(<<"deny">>) = "deny"
  /\ Tail(<<"user", "select">>) = <<"select">> /\ Head(<<"user", "select">>) = "user"
  /\ Tail(<<"select", "user">>) = <<"user">> /\ Head(<<"select", "user">>) = "select"
  /\ Tail(<<"user">>) = <<>> /\ Head(<<"user">>) = "user"
  OBVIOUS

LEMMA StagesDiffer ==
  /\ <<>> \notin BeforeUser \cup BeforeSelect
  /\ <<"user">> \in BeforeUser
  /\ <<"insert">> \notin BeforeUser \cup {<<>>}
  /\ <<"select">> \notin BeforeUser \cup {<<>>}
  /\ <<"deny">> \notin BeforeSelect \cup {<<>>}
  /\ <<"user">> \notin BeforeSelect \cup {<<>>}
  /\ <<"load", "insert", "rotate">> # <<>>
  /\ <<"insert", "rotate">> # <<>>
  /\ <<"rotate">> # <<>>
  BY DEF BeforeUser, BeforeSelect

\* By the statement it is at, one knows what a request is and what is left of it.
LEMMA Places ==
  ASSUME NEW q \in Requests, SessionInv(requests[q])
  PROVE  LET s == requests[q]
             rest == Tail(s.steps) IN
         /\ AtStep(q, "load") =>
              /\ s.op = "refresh" /\ s.steps = <<"load", "insert", "rotate">>
              /\ rest = <<"insert", "rotate">>
         /\ AtStep(q, "user") =>
              \/ s.op = "login" /\ s.steps = <<"user", "insert">> /\ rest = <<"insert">>
              \/ /\ s.op \in {"changePassword", "resetPassword"}
                 /\ s.steps = <<"user", "select">> /\ rest = <<"select">>
              \/ s.op = "revokeAll" /\ s.steps = <<"user">> /\ rest = <<>>
         /\ AtStep(q, "insert") =>
              \/ s.op \in {"login", "switch"} /\ s.steps = <<"insert">> /\ rest = <<>>
              \/ s.op = "refresh" /\ s.steps = <<"insert", "rotate">> /\ rest = <<"rotate">>
         /\ AtStep(q, "rotate") =>
              s.op = "refresh" /\ s.steps = <<"rotate">> /\ rest = <<>>
         /\ AtStep(q, "select") =>
              \/ /\ s.op \in {"reuse", "revokeSession", "changePassword", "resetPassword"}
                 /\ s.steps = <<"select">> /\ rest = <<>>
              \/ s.op = "logout" /\ s.steps = <<"select", "deny">> /\ rest = <<"deny">>
              \/ s.op = "revokeAll" /\ s.steps = <<"select", "user">> /\ rest = <<"user">>
         /\ AtStep(q, "deny") =>
              s.op = "logout" /\ s.steps = <<"deny">> /\ rest = <<>>
  <1> DEFINE s == requests[q]
             rest == Tail(s.steps)
  <1>1. /\ s.steps \in StepsLeft(s.op)
        /\ s.op \in {"none", "login", "switch", "refresh", "reuse", "logout", "revokeSession",
                     "changePassword", "resetPassword", "revokeAll"}
    BY DEF SessionInv, Session, OfFamily, OfUser
  <1>2. ASSUME NEW step
        PROVE  AtStep(q, step) => s.steps # <<>> /\ Head(s.steps) = step
    BY DEF AtStep
  <1> HIDE DEF s
  <1>3. CASE s.op = "none"
    BY <1>1, <1>2, <1>3, StepsOf, StepsAreTaken DEF s
  <1>4. CASE s.op = "login"
    <2>1. s.steps \in {<<"user", "insert">>, <<"insert">>, <<>>}
      BY <1>1, <1>4, StepsOf
    <2>2. CASE s.steps = <<"user", "insert">>
      BY <1>2, <1>4, <2>2, StepsAreTaken DEF s
    <2>3. CASE s.steps = <<"insert">>
      BY <1>2, <1>4, <2>3, StepsAreTaken DEF s
    <2>4. CASE s.steps = <<>>
      BY <1>2, <1>4, <2>4, StepsAreTaken DEF s
    <2> QED
      BY <2>1, <2>2, <2>3, <2>4
  <1>5. CASE s.op = "switch"
    BY <1>1, <1>2, <1>5, StepsOf, StepsAreTaken DEF s
  <1>6. CASE s.op = "refresh"
    <2>1. s.steps \in {<<"load", "insert", "rotate">>, <<"insert", "rotate">>, <<"rotate">>, <<>>}
      BY <1>1, <1>6, StepsOf
    <2>2. CASE s.steps = <<"load", "insert", "rotate">>
      BY <1>2, <1>6, <2>2, StepsAreTaken DEF s
    <2>3. CASE s.steps = <<"insert", "rotate">>
      BY <1>2, <1>6, <2>3, StepsAreTaken DEF s
    <2>4. CASE s.steps = <<"rotate">>
      BY <1>2, <1>6, <2>4, StepsAreTaken DEF s
    <2>5. CASE s.steps = <<>>
      BY <1>2, <1>6, <2>5, StepsAreTaken DEF s
    <2> QED
      BY <2>1, <2>2, <2>3, <2>4, <2>5
  <1>7. CASE s.op = "reuse"
    BY <1>1, <1>2, <1>7, StepsOf, StepsAreTaken DEF s
  <1>8. CASE s.op = "logout"
    <2>1. s.steps \in {<<"select", "deny">>, <<"deny">>, <<>>}
      BY <1>1, <1>8, StepsOf
    <2>2. CASE s.steps = <<"select", "deny">>
      BY <1>2, <1>8, <2>2, StepsAreTaken DEF s
    <2>3. CASE s.steps = <<"deny">>
      BY <1>2, <1>8, <2>3, StepsAreTaken DEF s
    <2>4. CASE s.steps = <<>>
      BY <1>2, <1>8, <2>4, StepsAreTaken DEF s
    <2> QED
      BY <2>1, <2>2, <2>3, <2>4
  <1>9. CASE s.op = "revokeSession"
    BY <1>1, <1>2, <1>9, StepsOf, StepsAreTaken DEF s
  <1>10. CASE s.op = "changePassword"
    <2>1. s.steps \in {<<"user", "select">>, <<"select">>, <<>>}
      BY <1>1, <1>10, StepsOf
    <2>2. CASE s.steps = <<"user", "select">>
      BY <1>2, <1>10, <2>2, StepsAreTaken DEF s
    <2>3. CASE s.steps = <<"select">>
      BY <1>2, <1>10, <2>3, StepsAreTaken DEF s
    <2>4. CASE s.steps = <<>>
      BY <1>2, <1>10, <2>4, StepsAreTaken DEF s
    <2> QED
      BY <2>1, <2>2, <2>3, <2>4
  <1>11. CASE s.op = "resetPassword"
    <2>1. s.steps \in {<<"user", "select">>, <<"select">>, <<>>}
      BY <1>1, <1>11, StepsOf
    <2>2. CASE s.steps = <<"user", "select">>
      BY <1>2, <1>11, <2>2, StepsAreTaken DEF s
    <2>3. CASE s.steps = <<"select">>
      BY <1>2, <1>11, <2>3, StepsAreTaken DEF s
    <2>4. CASE s.steps = <<>>
      BY <1>2, <1>11, <2>4, StepsAreTaken DEF s
    <2> QED
      BY <2>1, <2>2, <2>3, <2>4
  <1>12. CASE s.op = "revokeAll"
    <2>1. s.steps \in {<<"select", "user">>, <<"user">>, <<>>}
      BY <1>1, <1>12, StepsOf
    <2>2. CASE s.steps = <<"select", "user">>
      BY <1>2, <1>12, <2>2, StepsAreTaken DEF s
    <2>3. CASE s.steps = <<"user">>
      BY <1>2, <1>12, <2>3, StepsAreTaken DEF s
    <2>4. CASE s.steps = <<>>
      BY <1>2, <1>12, <2>4, StepsAreTaken DEF s
    <2> QED
      BY <2>1, <2>2, <2>3, <2>4
  <1> QED
    BY <1>1, <1>3, <1>4, <1>5, <1>6, <1>7, <1>8, <1>9, <1>10, <1>11, <1>12

(***************************************************************************)
(* Steps of one session.                                                   *)
(***************************************************************************)
LEMMA TokensAreNumbers ==
  NoToken \notin Tokens /\ Tokens \subseteq Nat
  BY AuthSessionsAssumption DEF AuthSessionsAssumption, Tokens, NoToken

\* A step of one session that commits nothing.
LEMMA LocalStep ==
  ASSUME SessionsInv, NEW q \in Requests, NEW r,
         requests' = [requests EXCEPT ![q] = r],
         UNCHANGED <<user, tokens, history>>,
         denied' \subseteq Tokens,
         made' \in 0 .. MaxRequests,
         faults' \in 0 .. MaxFaults,
         SessionInv(r), RowsInv(r), RevocationInv(r), RefreshInv(r),
         r.new # NoToken => \A p \in Requests \ {q} : requests[p].new # r.new
  PROVE  SessionsInv'
  <1>1. /\ user' = user /\ tokens' = tokens /\ invalidated' = invalidated
        /\ lostUpdate' = lostUpdate /\ lastSet' = lastSet /\ rehashedOver' = rehashedOver
        /\ closed' = closed /\ mixed' = mixed /\ forked' = forked
    BY DEF history
  <1>2. TypeOK'
    BY <1>1 DEF TypeOK, SessionsInv
  <1>0. /\ requests \in [Requests -> Session] /\ r \in Session
        /\ requests'[q] = r
        /\ \A p \in Requests : p # q => requests'[p] = requests[p]
    BY DEF SessionInv, SessionsInv
  <1>3. requests' \in [Requests -> Session]
    BY <1>0
  <1>4. ASSUME NEW p \in Requests
        PROVE  (SessionInv(requests[p]) /\ RowsInv(requests[p])
                 /\ RevocationInv(requests[p]) /\ RefreshInv(requests[p]))'
    <2> DEFINE t == requests'[p]
    <2>1. SessionInv(t) /\ RowsInv(t) /\ RevocationInv(t) /\ RefreshInv(t)
      <3>1. CASE p = q
        BY <1>0, <3>1
      <3>2. CASE p # q
        BY <1>0, <3>2 DEF SessionsInv
      <3> QED
        BY <3>1, <3>2
    <2> QED
      BY <1>1, <2>1
      DEF SessionInv, RowsInv, RevocationInv, RefreshInv, Issued, Families, FamilyOf
  <1>5. \A p, o \in Requests :
          p # o /\ requests'[p].new # NoToken => requests'[p].new # requests'[o].new
    BY <1>0 DEF SessionsInv
  <1>6. (RecordInv /\ PasswordIsTheLastSet /\ ClosedStaysClosed /\ OneActivePerFamily)'
    BY <1>1
    DEF SessionsInv, RecordInv, PasswordIsTheLastSet, ClosedStaysClosed, OneActivePerFamily,
        Issued, FamilyOf
  <1> QED
    BY <1>2, <1>3, <1>4, <1>5, <1>6 DEF SessionsInv

\* A session that is not in use.
LEMMA IdleSession ==
  ASSUME user \in UserRow
  PROVE  /\ Idle.op = "none" /\ Idle.new = NoToken
         /\ SessionInv(Idle) /\ RowsInv(Idle) /\ RevocationInv(Idle) /\ RefreshInv(Idle)
  <1>1. /\ Idle.op = "none" /\ Idle.steps = <<>> /\ Idle.new = NoToken /\ Idle.token = NoToken
        /\ Idle.todo = {} /\ Idle.revoked = {} /\ Idle.rotated = FALSE /\ Idle.wroteUser = FALSE
        /\ Idle.seen.version = 0
    BY DEF Idle
  <1>2. Idle \in Session
    <2>1. <<>> \in StepsLeft("login")
      BY StepsOf
    <2>2. <<>> \in UNION {StepsLeft(op) :
                            op \in {"login", "switch", "refresh"} \cup OfFamily \cup OfUser}
      BY <2>1
    <2> QED
      BY <2>2 DEF Idle, Session, UserRow
  <1>3. SessionInv(Idle)
    BY <1>1, <1>2, StepsOf DEF SessionInv, OfFamily, OfUser
  <1>4. RowsInv(Idle)
    BY <1>1, TokensAreNumbers DEF RowsInv, Issued, UserRow
  <1>5. RevocationInv(Idle) /\ RefreshInv(Idle)
    BY <1>1 DEF RevocationInv, RefreshInv, Families
  <1> QED
    BY <1>1, <1>3, <1>4, <1>5

\* A session is left without a commit.
LEMMA RollbackKeeps ==
  ASSUME SessionsInv, NEW q \in Requests, Rollback(q), faults' \in 0 .. MaxFaults
  PROVE  SessionsInv'
  <1>1. /\ made' \in 0 .. MaxRequests /\ user \in UserRow /\ denied' \subseteq Tokens
    BY DEF Rollback, SessionsInv, TypeOK
  <1> QED
    BY <1>1, IdleSession, LocalStep DEF Rollback

(***************************************************************************)
(* The start of a request.                                                 *)
(***************************************************************************)
\* A session that has read the user and nothing else but a token.
Fresh(r) ==
  /\ r \in Session
  /\ r.steps \in StepsLeft(r.op) \ {<<>>}
  /\ r.seen = user
  /\ r.new = NoToken /\ r.todo = {} /\ r.revoked = {}
  /\ r.rotated = FALSE /\ r.wroteUser = FALSE
  /\ r.op \in OfUser => r.steps \in BeforeUser

LEMMA RequestIsFresh ==
  ASSUME user \in UserRow,
         NEW op \in {"login", "switch", "refresh"} \cup OfFamily \cup OfUser,
         NEW steps \in StepsLeft(op) \ {<<>>},
         op \in OfUser => steps \in BeforeUser
  PROVE  /\ Fresh(Request(op, steps))
         /\ Request(op, steps).op = op
         /\ Request(op, steps).token = NoToken
  <1> DEFINE r == Request(op, steps)
  <1>1. r = [Idle EXCEPT !.op = op, !.steps = steps, !.seen = user]
    BY DEF Request
  <1> HIDE DEF r
  <1>2. Idle \in Session
    BY IdleSession DEF SessionInv
  <1>3. steps \in UNION {StepsLeft(o) : o \in {"login", "switch", "refresh"} \cup OfFamily \cup OfUser}
    OBVIOUS
  <1>4. /\ r \in Session /\ r.op = op /\ r.steps = steps /\ r.seen = user
        /\ r.new = Idle.new /\ r.todo = Idle.todo /\ r.revoked = Idle.revoked
        /\ r.rotated = Idle.rotated /\ r.wroteUser = Idle.wroteUser /\ r.token = Idle.token
    BY <1>1, <1>2, <1>3 DEF Session
  <1>5. /\ Idle.new = NoToken /\ Idle.todo = {} /\ Idle.revoked = {} /\ Idle.rotated = FALSE
        /\ Idle.wroteUser = FALSE /\ Idle.token = NoToken
    BY DEF Idle
  <1> QED
    BY <1>4, <1>5 DEF Fresh, r

LEMMA BeginKeeps ==
  ASSUME SessionsInv, NEW q \in Requests, NEW r, Begin(q, r), Fresh(r),
         r.op \in OfFamily \cup {"refresh"} <=> r.token # NoToken,
         r.token # NoToken => r.token \in Issued,
         r.op \in OfFamily => r.loaded = tokens[r.token].status,
         r.op \notin OfFamily => r.loaded = "none",
         r.op = "refresh" => tokens[r.token].status = "ACTIVE",
         r.op = "logout" => r.bearer # NoToken
  PROVE  SessionsInv'
  <1>1. /\ r \in Session
        /\ r.steps \in StepsLeft(r.op) \ {<<>>}
        /\ r.seen = user
        /\ r.new = NoToken /\ r.todo = {} /\ r.revoked = {}
        /\ r.rotated = FALSE /\ r.wroteUser = FALSE
        /\ r.op \in OfUser => r.steps \in BeforeUser
    BY DEF Fresh
  <1>2. SessionInv(r)
    BY <1>1 DEF SessionInv
  <1>3. RowsInv(r)
    BY <1>1, TokensAreNumbers DEF RowsInv, Issued, SessionsInv, TypeOK, UserRow
  <1>4. RevocationInv(r)
    BY <1>1 DEF RevocationInv, Families
  <1>5. RefreshInv(r)
    BY DEF RefreshInv, SessionsInv, ClosedStaysClosed, OneActivePerFamily, Issued
  <1>6. /\ requests' = [requests EXCEPT ![q] = r]
        /\ UNCHANGED <<user, tokens, history>>
        /\ denied' \subseteq Tokens /\ made' \in 0 .. MaxRequests /\ faults' \in 0 .. MaxFaults
    BY AuthSessionsAssumption DEF Begin, SessionsInv, TypeOK, AuthSessionsAssumption
  <1> QED
    BY <1>1, <1>2, <1>3, <1>4, <1>5, <1>6, LocalStep

\* Requests that are not about a token of the request.
LEMMA UserRequestKeeps ==
  ASSUME SessionsInv, NEW q \in Requests,
         Login(q) \/ SwitchTenant(q) \/ ChangePassword(q) \/ ResetPassword(q) \/ RevokeAllSessions(q)
  PROVE  SessionsInv'
  <1>0. user \in UserRow /\ made + 1 \in Nat
    BY AuthSessionsAssumption DEF SessionsInv, TypeOK, AuthSessionsAssumption
  <1>1. ASSUME NEW op \in {"login", "switch", "revokeAll"}, NEW steps \in StepsLeft(op) \ {<<>>},
               op \in OfUser => steps \in BeforeUser,
               Begin(q, Request(op, steps))
        PROVE  SessionsInv'
    <2> DEFINE r == Request(op, steps)
    <2>1. Fresh(r) /\ r.op = op /\ r.token = NoToken
      BY <1>0, <1>1, RequestIsFresh DEF OfUser
    <2>2. r.loaded = "none"
      BY DEF Request, Idle
    <2>3. Begin(q, r)
      BY <1>1
    <2> HIDE DEF r
    <2> QED
      BY <2>1, <2>2, <2>3, BeginKeeps DEF OfFamily
  <1>2. ASSUME NEW op \in {"changePassword", "resetPassword"}, NEW steps, steps = <<"user", "select">>,
               Begin(q, [Request(op, steps) EXCEPT !.password = made + 1])
        PROVE  SessionsInv'
    <2> DEFINE s == Request(op, steps)
               r == [s EXCEPT !.password = made + 1]
    <2>1. steps \in StepsLeft(op) \ {<<>>} /\ steps \in BeforeUser
      BY <1>2, StepsOf, StagesDiffer DEF BeforeUser
    <2>2. Fresh(s) /\ s.op = op /\ s.token = NoToken
      BY <1>0, <2>1, RequestIsFresh DEF OfUser
    <2>3. s.loaded = "none"
      BY DEF Request, Idle
    <2>4. Begin(q, r)
      BY <1>2
    <2> HIDE DEF s
    <2>5. Fresh(r) /\ r.op = op /\ r.token = NoToken /\ r.loaded = "none"
      BY <1>0, <2>2, <2>3 DEF Fresh, Session
    <2> HIDE DEF r
    <2> QED
      BY <2>4, <2>5, BeginKeeps DEF OfFamily
  <1>3. CASE Login(q)
    BY <1>1, <1>3, StepsOf, StagesDiffer DEF Login, OfUser
  <1>4. CASE SwitchTenant(q)
    BY <1>1, <1>4, StepsOf, StagesDiffer DEF SwitchTenant, OfUser
  <1>5. CASE RevokeAllSessions(q)
    BY <1>1, <1>5, StepsOf, StagesDiffer DEF RevokeAllSessions, BeforeUser
  <1>6. CASE ChangePassword(q) \/ ResetPassword(q)
    BY <1>2, <1>6 DEF ChangePassword, ResetPassword
  <1> QED
    BY <1>3, <1>4, <1>5, <1>6

\* Requests about a token.
LEMMA TokenRequestKeeps ==
  ASSUME SessionsInv, NEW q \in Requests, NEW t \in Tokens,
         \/ Refresh(q, t) \/ RevokeSession(q, t)
         \/ \E a \in Tokens : Logout(q, a, t)
  PROVE  SessionsInv'
  <1>0. user \in UserRow /\ t # NoToken
        /\ tokens[t].status \in {"none", "ACTIVE", "ROTATED", "REVOKED"}
    BY TokensAreNumbers DEF SessionsInv, TypeOK, TokenRow
  <1>1. ASSUME Begin(q, Rotation(t)), tokens[t].status = "ACTIVE"
        PROVE  SessionsInv'
    <2> DEFINE steps == <<"load", "insert", "rotate">>
               s == Request("refresh", steps)
               r == [s EXCEPT !.token = t]
    <2>1. steps \in StepsLeft("refresh") \ {<<>>}
      BY StepsOf, StagesDiffer
    <2>2. Begin(q, r)
      BY <1>1 DEF Rotation
    <2>3. s.loaded = "none"
      BY DEF Request, Idle
    <2> HIDE DEF steps
    <2>4. Fresh(s) /\ s.op = "refresh"
      BY <1>0, <2>1, RequestIsFresh DEF OfUser
    <2> HIDE DEF s
    <2>5. Fresh(r) /\ r.op = "refresh" /\ r.token = t /\ r.loaded = "none"
      BY <2>3, <2>4 DEF Fresh, Session
    <2> HIDE DEF r
    <2>6. t \in Issued
      BY <1>1 DEF Issued
    <2> QED
      BY <1>0, <1>1, <2>2, <2>5, <2>6, BeginKeeps DEF OfFamily
  <1>2. ASSUME NEW op \in OfFamily, NEW steps \in StepsLeft(op) \ {<<>>}, NEW a \in Tokens \cup {NoToken},
               t \in Issued, op = "logout" => a # NoToken, NEW r,
               r = [FamilyRevocation(op, t, steps) EXCEPT !.bearer = a], Begin(q, r)
        PROVE  SessionsInv'
    <2> DEFINE s == Request(op, steps)
    <2>1. Fresh(s) /\ s.op = op
      BY <1>0, <1>2, RequestIsFresh DEF OfUser, OfFamily
    <2>2. r = [s EXCEPT !.token = t, !.loaded = tokens[t].status, !.bearer = a]
      BY <1>2 DEF FamilyRevocation
    <2> HIDE DEF s
    <2>3. Fresh(r) /\ r.op = op /\ r.token = t /\ r.loaded = tokens[t].status /\ r.bearer = a
      BY <1>0, <2>1, <2>2 DEF Fresh, Session
    <2> QED
      BY <1>0, <1>2, <2>3, BeginKeeps DEF OfFamily
  <1>3. ASSUME NEW op \in {"reuse", "revokeSession"}, NEW steps \in StepsLeft(op) \ {<<>>}, t \in Issued,
               Begin(q, FamilyRevocation(op, t, steps))
        PROVE  SessionsInv'
    <2> DEFINE r == FamilyRevocation(op, t, steps)
    <2>1. r = [r EXCEPT !.bearer = NoToken]
      <3> DEFINE s == Request(op, steps)
      <3>1. s \in Session
        BY <1>0, <1>3, RequestIsFresh DEF Fresh, OfUser, OfFamily
      <3>2. s.bearer = NoToken
        BY DEF Request, Idle
      <3>3. r = [s EXCEPT !.token = t, !.loaded = tokens[t].status]
        BY DEF FamilyRevocation
      <3> HIDE DEF s, r
      <3>4. r \in Session /\ r.bearer = NoToken
        BY <1>0, <3>1, <3>2, <3>3 DEF Session
      <3> QED
        BY <3>4 DEF Session
    <2>2. Begin(q, r)
      BY <1>3
    <2>3. r = [FamilyRevocation(op, t, steps) EXCEPT !.bearer = NoToken]
      BY <2>1
    <2> HIDE DEF r
    <2>4. op \in OfFamily /\ op # "logout"
      BY DEF OfFamily
    <2> QED
      BY <1>2, <1>3, <2>2, <2>3, <2>4
  <1>4. CASE Refresh(q, t)
    <2> DEFINE steps == <<"select">>
    <2>1. CASE tokens[t].status = "ROTATED" /\ Begin(q, FamilyRevocation("reuse", t, steps))
      <3>1. steps \in StepsLeft("reuse") \ {<<>>} /\ t \in Issued
        BY <2>1, StepsOf, StagesDiffer DEF Issued
      <3> HIDE DEF steps
      <3> QED
        BY <1>3, <2>1, <3>1
    <2> QED
      BY <1>1, <1>4, <2>1 DEF Refresh
  <1>5. CASE RevokeSession(q, t)
    <2> DEFINE steps == <<"select">>
    <2>1. steps \in StepsLeft("revokeSession") \ {<<>>} /\ t \in Issued
      BY <1>5, StepsOf, StagesDiffer DEF RevokeSession
    <2>2. Begin(q, FamilyRevocation("revokeSession", t, steps))
      BY <1>5 DEF RevokeSession
    <2> HIDE DEF steps
    <2> QED
      BY <1>3, <2>1, <2>2
  <1>6. ASSUME NEW a \in Tokens, Logout(q, a, t)
        PROVE  SessionsInv'
    <2> DEFINE steps == <<"select", "deny">>
               r == [FamilyRevocation("logout", t, steps) EXCEPT !.bearer = a]
    <2>1. steps \in StepsLeft("logout") \ {<<>>} /\ t \in Issued /\ "logout" \in OfFamily
      BY <1>6, StepsOf DEF Logout, OfFamily
    <2>2. Begin(q, r)
      BY <1>6 DEF Logout
    <2>3. r = [FamilyRevocation("logout", t, steps) EXCEPT !.bearer = a]
      OBVIOUS
    <2>4. a # NoToken
      BY TokensAreNumbers
    <2> HIDE DEF steps, r
    <2> QED
      BY <1>2, <2>1, <2>2, <2>3, <2>4
  <1> QED
    BY <1>4, <1>5, <1>6

(***************************************************************************)
(* The statements: s is the session before one, r the session after it.    *)
(***************************************************************************)
\* A statement that leaves the rows alone.
LEMMA ProceedKeeps ==
  ASSUME SessionsInv, NEW q \in Requests, NEW s, NEW r, Proceed(q, s), denied' \subseteq Tokens,
         r = [s EXCEPT !.steps = Tail(@)],
         SessionInv(r), RowsInv(r), RevocationInv(r), RefreshInv(r),
         r.new # NoToken => \A p \in Requests \ {q} : requests[p].new # r.new
  PROVE  SessionsInv'
  <1>1. /\ requests' = [requests EXCEPT ![q] = r]
        /\ UNCHANGED <<user, tokens, history>>
    BY DEF Proceed
  <1>2. made' \in 0 .. MaxRequests /\ faults' \in 0 .. MaxFaults
    BY DEF Proceed, SessionsInv, TypeOK
  <1> QED
    BY <1>1, <1>2, LocalStep

\* What is left of a request is of its kind.
LEMMA StepsAreOfSessions ==
  ASSUME NEW s \in Session, NEW steps \in StepsLeft(s.op), s.op # "none"
  PROVE  [s EXCEPT !.steps = steps] \in Session
  <1>1. s.op \in {"login", "switch", "refresh"} \cup OfFamily \cup OfUser
    BY DEF Session
  <1>2. steps \in UNION {StepsLeft(o) : o \in {"login", "switch", "refresh"} \cup OfFamily \cup OfUser}
    BY <1>1
  <1> QED
    BY <1>2 DEF Session

LEMMA LoadKeeps ==
  ASSUME SessionsInv, NEW q \in Requests, Load(q)
  PROVE  SessionsInv'
  <1> DEFINE s == requests[q]
             t == [s EXCEPT !.seen = user]
             r == [t EXCEPT !.steps = Tail(@)]
  <1>1. /\ s \in Session /\ SessionInv(s) /\ RowsInv(s) /\ RevocationInv(s) /\ RefreshInv(s)
        /\ s.new # NoToken => \A p \in Requests \ {q} : requests[p].new # s.new
        /\ user \in UserRow /\ denied \subseteq Tokens
    BY DEF SessionsInv, TypeOK
  <1>2. s.op = "refresh" /\ s.steps = <<"load", "insert", "rotate">>
        /\ Tail(s.steps) = <<"insert", "rotate">>
    BY <1>1, Places DEF Load
  <1>3. Proceed(q, t) /\ denied' = denied
    BY DEF Load
  <1>4. r = [t EXCEPT !.steps = Tail(@)]
    OBVIOUS
  <1> HIDE DEF s
  <1>5. t \in Session /\ t.op = s.op /\ t.seen = user /\ t.steps = s.steps
        /\ t.new = s.new /\ t.token = s.token /\ t.loaded = s.loaded /\ t.todo = s.todo
        /\ t.rotated = s.rotated /\ t.revoked = s.revoked /\ t.wroteUser = s.wroteUser
    BY <1>1 DEF Session
  <1>6. r = [t EXCEPT !.steps = <<"insert", "rotate">>]
    BY <1>2, <1>4, <1>5
  <1> HIDE DEF t, r
  <1>7. /\ r \in Session /\ r.op = s.op /\ r.seen = user /\ r.steps = <<"insert", "rotate">>
        /\ r.new = s.new /\ r.token = s.token /\ r.loaded = s.loaded /\ r.todo = s.todo
        /\ r.rotated = s.rotated /\ r.revoked = s.revoked /\ r.wroteUser = s.wroteUser
    <2>1. r \in Session
      BY <1>2, <1>5, <1>6, StepsOf, StepsAreOfSessions
    <2> QED
      BY <1>5, <1>6, <2>1 DEF Session
  <1>8. SessionInv(r)
    BY <1>1, <1>2, <1>7, StepsOf, StagesDiffer DEF SessionInv, OfFamily, OfUser
  <1>9. RowsInv(r)
    BY <1>1, <1>7 DEF RowsInv, UserRow
  <1>10. RevocationInv(r) /\ RefreshInv(r)
    BY <1>1, <1>7 DEF RevocationInv, RefreshInv
  <1> QED
    BY <1>1, <1>3, <1>4, <1>7, <1>8, <1>9, <1>10, ProceedKeeps

LEMMA WriteUserKeeps ==
  ASSUME SessionsInv, NEW q \in Requests, WriteUser(q)
  PROVE  SessionsInv'
  <1> DEFINE s == requests[q]
             t == [s EXCEPT !.wroteUser = TRUE]
             r == [t EXCEPT !.steps = Tail(@)]
             rest == Tail(s.steps)
  <1>1. /\ s \in Session /\ SessionInv(s) /\ RowsInv(s) /\ RevocationInv(s) /\ RefreshInv(s)
        /\ s.new # NoToken => \A p \in Requests \ {q} : requests[p].new # s.new
        /\ denied \subseteq Tokens
    BY DEF SessionsInv, TypeOK
  <1>2. \/ s.op = "login" /\ s.steps = <<"user", "insert">> /\ rest = <<"insert">>
        \/ /\ s.op \in {"changePassword", "resetPassword"}
           /\ s.steps = <<"user", "select">> /\ rest = <<"select">>
        \/ s.op = "revokeAll" /\ s.steps = <<"user">> /\ rest = <<>>
    BY <1>1, Places DEF WriteUser
  <1>3. Proceed(q, t) /\ denied' = denied
    BY DEF WriteUser
  <1>4. r = [t EXCEPT !.steps = Tail(@)]
    OBVIOUS
  <1>0. rest = Tail(s.steps)
    OBVIOUS
  <1> HIDE DEF s, rest
  <1>5. t \in Session /\ t.op = s.op /\ t.seen = s.seen /\ t.steps = s.steps
        /\ t.new = s.new /\ t.token = s.token /\ t.loaded = s.loaded /\ t.todo = s.todo
        /\ t.rotated = s.rotated /\ t.revoked = s.revoked /\ t.wroteUser = TRUE
    BY <1>1 DEF Session
  <1>6. r = [t EXCEPT !.steps = rest]
    BY <1>0, <1>4, <1>5
  <1> HIDE DEF t, r
  <1>11. rest \in StepsLeft(s.op) /\ rest \notin BeforeUser /\ s.op \in {"login"} \cup OfUser
    BY <1>2, StepsOf, StagesDiffer DEF OfUser
  <1>7. /\ r \in Session /\ r.op = s.op /\ r.seen = s.seen /\ r.steps = rest
        /\ r.new = s.new /\ r.token = s.token /\ r.loaded = s.loaded /\ r.todo = s.todo
        /\ r.rotated = s.rotated /\ r.revoked = s.revoked /\ r.wroteUser = TRUE
    <2>1. r \in Session
      BY <1>2, <1>5, <1>6, <1>11, StepsAreOfSessions
    <2> QED
      BY <1>5, <1>6, <2>1 DEF Session
  <1>12. s.todo \cup s.revoked # {} => rest \notin BeforeSelect
    BY <1>1, <1>2, StagesDiffer DEF SessionInv, BeforeSelect, OfFamily, OfUser
  <1>8. SessionInv(r)
    <2>1. s.op # "refresh" /\ s.op # "logout"
      BY <1>2
    <2> QED
      BY <1>1, <1>7, <1>11, <1>12, <2>1 DEF SessionInv
  <1>9. RowsInv(r) /\ RevocationInv(r) /\ RefreshInv(r)
    BY <1>1, <1>7 DEF RowsInv, RevocationInv, RefreshInv
  <1> QED
    BY <1>1, <1>3, <1>4, <1>7, <1>8, <1>9, ProceedKeeps

LEMMA InsertKeeps ==
  ASSUME SessionsInv, NEW q \in Requests, Insert(q)
  PROVE  SessionsInv'
  <1>0. PICK new \in Tokens \ Issued :
          /\ \A p \in Requests : requests[p].new # new
          /\ Proceed(q, [requests[q] EXCEPT !.new = new])
    BY DEF Insert
  <1> DEFINE s == requests[q]
             t == [s EXCEPT !.new = new]
             r == [t EXCEPT !.steps = Tail(@)]
             rest == Tail(s.steps)
  <1>1. /\ s \in Session /\ SessionInv(s) /\ RowsInv(s) /\ RevocationInv(s) /\ RefreshInv(s)
        /\ denied \subseteq Tokens
    BY DEF SessionsInv, TypeOK
  <1>2. \/ s.op \in {"login", "switch"} /\ s.steps = <<"insert">> /\ rest = <<>>
        \/ s.op = "refresh" /\ s.steps = <<"insert", "rotate">> /\ rest = <<"rotate">>
    BY <1>1, Places DEF Insert
  <1>3. Proceed(q, t) /\ denied' = denied /\ \A p \in Requests \ {q} : requests[p].new # new
    BY <1>0 DEF Insert
  <1>4. r = [t EXCEPT !.steps = Tail(@)]
    OBVIOUS
  <1>13. rest = Tail(s.steps)
    OBVIOUS
  <1> HIDE DEF s, rest
  <1>5. t \in Session /\ t.op = s.op /\ t.seen = s.seen /\ t.steps = s.steps
        /\ t.new = new /\ t.token = s.token /\ t.loaded = s.loaded /\ t.todo = s.todo
        /\ t.rotated = s.rotated /\ t.revoked = s.revoked /\ t.wroteUser = s.wroteUser
    BY <1>1 DEF Session
  <1>6. r = [t EXCEPT !.steps = rest]
    BY <1>13, <1>4, <1>5
  <1> HIDE DEF t, r
  <1>11. rest \in StepsLeft(s.op) /\ s.op \in {"login", "switch", "refresh"}
         /\ (s.op = "refresh" => rest # <<>> /\ s.steps # <<>>)
         /\ (s.op = "login" => rest \notin BeforeUser)
    BY <1>2, StepsOf, StagesDiffer
  <1>7. /\ r \in Session /\ r.op = s.op /\ r.seen = s.seen /\ r.steps = rest
        /\ r.new = new /\ r.token = s.token /\ r.loaded = s.loaded /\ r.todo = s.todo
        /\ r.rotated = s.rotated /\ r.revoked = s.revoked /\ r.wroteUser = s.wroteUser
    <2>1. r \in Session
      BY <1>2, <1>5, <1>6, <1>11, StepsAreOfSessions
    <2> QED
      BY <1>5, <1>6, <2>1 DEF Session
  <1>8. SessionInv(r)
    BY <1>1, <1>7, <1>11 DEF SessionInv, OfFamily, OfUser
  <1>9. RowsInv(r) /\ RevocationInv(r) /\ RefreshInv(r)
    BY <1>0, <1>1, <1>7 DEF RowsInv, RevocationInv, RefreshInv
  <1> QED
    BY <1>1, <1>3, <1>4, <1>7, <1>8, <1>9, ProceedKeeps

LEMMA RotateKeeps ==
  ASSUME SessionsInv, NEW q \in Requests, Rotate(q)
  PROVE  SessionsInv'
  <1> DEFINE s == requests[q]
             t == [s EXCEPT !.rotated = TRUE]
             r == [t EXCEPT !.steps = Tail(@)]
  <1>1. /\ s \in Session /\ SessionInv(s) /\ RowsInv(s) /\ RevocationInv(s) /\ RefreshInv(s)
        /\ s.new # NoToken => \A p \in Requests \ {q} : requests[p].new # s.new
        /\ denied \subseteq Tokens
    BY DEF SessionsInv, TypeOK
  <1>2. s.op = "refresh" /\ s.steps = <<"rotate">> /\ Tail(s.steps) = <<>>
    BY <1>1, Places DEF Rotate
  <1>3. Proceed(q, t) /\ denied' = denied
    BY DEF Rotate
  <1>4. r = [t EXCEPT !.steps = Tail(@)]
    OBVIOUS
  <1> HIDE DEF s
  <1>5. t \in Session /\ t.op = s.op /\ t.seen = s.seen /\ t.steps = s.steps
        /\ t.new = s.new /\ t.token = s.token /\ t.loaded = s.loaded /\ t.todo = s.todo
        /\ t.rotated = TRUE /\ t.revoked = s.revoked /\ t.wroteUser = s.wroteUser
    BY <1>1 DEF Session
  <1>6. r = [t EXCEPT !.steps = <<>>]
    BY <1>2, <1>4, <1>5
  <1> HIDE DEF t, r
  <1>7. /\ r \in Session /\ r.op = s.op /\ r.seen = s.seen /\ r.steps = <<>>
        /\ r.new = s.new /\ r.token = s.token /\ r.loaded = s.loaded /\ r.todo = s.todo
        /\ r.rotated = TRUE /\ r.revoked = s.revoked /\ r.wroteUser = s.wroteUser
    <2>1. r \in Session
      BY <1>2, <1>5, <1>6, StepsOf, StepsAreOfSessions
    <2> QED
      BY <1>5, <1>6, <2>1 DEF Session
  <1>8. SessionInv(r)
    BY <1>1, <1>2, <1>7, StepsOf, StagesDiffer DEF SessionInv, OfFamily, OfUser
  <1>9. RowsInv(r) /\ RevocationInv(r) /\ RefreshInv(r)
    BY <1>1, <1>7 DEF RowsInv, RevocationInv, RefreshInv
  <1> QED
    BY <1>1, <1>3, <1>4, <1>7, <1>8, <1>9, ProceedKeeps

LEMMA DenyKeeps ==
  ASSUME SessionsInv, NEW q \in Requests, Deny(q)
  PROVE  SessionsInv'
  <1> DEFINE s == requests[q]
             r == [s EXCEPT !.steps = Tail(@)]
  <1>1. /\ s \in Session /\ SessionInv(s) /\ RowsInv(s) /\ RevocationInv(s) /\ RefreshInv(s)
        /\ s.new # NoToken => \A p \in Requests \ {q} : requests[p].new # s.new
        /\ denied \subseteq Tokens
    BY DEF SessionsInv, TypeOK
  <1>2. s.op = "logout" /\ s.steps = <<"deny">> /\ Tail(s.steps) = <<>>
    BY <1>1, Places DEF Deny
  <1>3. Proceed(q, s) /\ denied' \subseteq Tokens
    <2>1. s.bearer \in Tokens
      BY <1>1, <1>2 DEF SessionInv, Session
    <2> QED
      BY <1>1, <2>1 DEF Deny
  <1>4. r = [s EXCEPT !.steps = Tail(@)]
    OBVIOUS
  <1> HIDE DEF s
  <1>6. r = [s EXCEPT !.steps = <<>>]
    BY <1>2, <1>4
  <1> HIDE DEF r
  <1>7. /\ r \in Session /\ r.op = s.op /\ r.seen = s.seen /\ r.steps = <<>>
        /\ r.new = s.new /\ r.token = s.token /\ r.loaded = s.loaded /\ r.todo = s.todo
        /\ r.rotated = s.rotated /\ r.revoked = s.revoked /\ r.wroteUser = s.wroteUser
        /\ r.bearer = s.bearer
    <2>1. r \in Session
      BY <1>1, <1>2, <1>6, StepsOf, StepsAreOfSessions
    <2> QED
      BY <1>1, <1>6, <2>1 DEF Session
  <1>8. SessionInv(r)
    BY <1>1, <1>2, <1>7, StepsOf, StagesDiffer DEF SessionInv, OfFamily, OfUser
  <1>9. RowsInv(r) /\ RevocationInv(r) /\ RefreshInv(r)
    BY <1>1, <1>7 DEF RowsInv, RevocationInv, RefreshInv
  <1> QED
    BY <1>1, <1>3, <1>4, <1>7, <1>8, <1>9, ProceedKeeps

LEMMA SelectKeeps ==
  ASSUME SessionsInv, NEW q \in Requests, SelectNonRevoked(q)
  PROVE  SessionsInv'
  <1> DEFINE s == requests[q]
             found == {t \in Issued : /\ tokens[t].status # "REVOKED"
                                      /\ s.token # NoToken => FamilyOf(t) = FamilyOf(s.token)}
             t == [s EXCEPT !.todo = found]
             r == [t EXCEPT !.steps = Tail(@)]
             rest == Tail(s.steps)
  <1>1. /\ s \in Session /\ SessionInv(s) /\ RowsInv(s) /\ RevocationInv(s) /\ RefreshInv(s)
        /\ s.new # NoToken => \A p \in Requests \ {q} : requests[p].new # s.new
        /\ denied \subseteq Tokens
    BY DEF SessionsInv, TypeOK
  <1>2. \/ /\ s.op \in {"reuse", "revokeSession", "changePassword", "resetPassword"}
           /\ s.steps = <<"select">> /\ rest = <<>>
        \/ s.op = "logout" /\ s.steps = <<"select", "deny">> /\ rest = <<"deny">>
        \/ s.op = "revokeAll" /\ s.steps = <<"select", "user">> /\ rest = <<"user">>
    BY <1>1, Places DEF SelectNonRevoked
  <1>3. Proceed(q, t) /\ denied' = denied
    BY DEF SelectNonRevoked
  <1>4. r = [t EXCEPT !.steps = Tail(@)]
    OBVIOUS
  <1>13. rest = Tail(s.steps)
    OBVIOUS
  <1>14. /\ found \subseteq Issued /\ found \subseteq Tokens
         /\ \A u \in found : s.token # NoToken => FamilyOf(u) = FamilyOf(s.token)
         /\ \A u \in Tokens : /\ tokens[u].status = "ACTIVE"
                              /\ s.token # NoToken => FamilyOf(u) = FamilyOf(s.token)
                              => u \in found
    BY DEF Issued
  <1> HIDE DEF s, rest, found
  <1>15. s.revoked = {} /\ s.todo = {}
    BY <1>1, <1>2 DEF SessionInv, BeforeSelect
  <1>5. t \in Session /\ t.op = s.op /\ t.seen = s.seen /\ t.steps = s.steps
        /\ t.new = s.new /\ t.token = s.token /\ t.loaded = s.loaded /\ t.todo = found
        /\ t.rotated = s.rotated /\ t.revoked = s.revoked /\ t.wroteUser = s.wroteUser
        /\ t.bearer = s.bearer
    BY <1>1, <1>14 DEF Session
  <1>6. r = [t EXCEPT !.steps = rest]
    BY <1>13, <1>4, <1>5
  <1> HIDE DEF t, r
  <1>11. rest \in StepsLeft(s.op) /\ rest \notin BeforeSelect /\ s.op \in OfFamily \cup OfUser
    BY <1>2, StepsOf, StagesDiffer DEF OfFamily, OfUser
  <1>12. s.op \in OfUser => (s.steps \in BeforeUser <=> rest \in BeforeUser)
    BY <1>2, StagesDiffer DEF OfUser, BeforeUser
  <1>7. /\ r \in Session /\ r.op = s.op /\ r.seen = s.seen /\ r.steps = rest
        /\ r.new = s.new /\ r.token = s.token /\ r.loaded = s.loaded /\ r.todo = found
        /\ r.rotated = s.rotated /\ r.revoked = {} /\ r.wroteUser = s.wroteUser
        /\ r.bearer = s.bearer
    <2>1. r \in Session
      BY <1>2, <1>5, <1>6, <1>11, StepsAreOfSessions
    <2> QED
      BY <1>5, <1>6, <1>15, <2>1 DEF Session
  <1>8. SessionInv(r)
    <2>1. s.op # "refresh" /\ s.op # "login"
      BY <1>2
    <2> QED
      BY <1>1, <1>7, <1>11, <1>12, <2>1 DEF SessionInv
  <1>9. RowsInv(r) /\ RefreshInv(r)
    BY <1>1, <1>7, <1>14 DEF RowsInv, RefreshInv
  <1>10. RevocationInv(r)
    BY <1>7, <1>14 DEF RevocationInv, Families
  <1> QED
    BY <1>1, <1>3, <1>4, <1>7, <1>8, <1>9, <1>10, ProceedKeeps

LEMMA RevokeKeeps ==
  ASSUME SessionsInv, NEW q \in Requests, Revoke(q)
  PROVE  SessionsInv'
  <1>0. PICK t \in requests[q].todo :
          /\ \A u \in requests[q].todo : t <= u
          /\ requests' = [requests EXCEPT ![q].todo = @ \ {t}, ![q].revoked = @ \cup {t}]
    BY DEF Revoke
  <1> DEFINE s == requests[q]
             r == [s EXCEPT !.todo = s.todo \ {t}, !.revoked = s.revoked \cup {t}]
  <1>1. /\ s \in Session /\ SessionInv(s) /\ RowsInv(s) /\ RevocationInv(s) /\ RefreshInv(s)
        /\ s.new # NoToken => \A p \in Requests \ {q} : requests[p].new # s.new
        /\ denied \subseteq Tokens /\ requests \in [Requests -> Session]
    BY DEF SessionsInv, TypeOK
  <1>2. requests' = [requests EXCEPT ![q] = r]
    BY <1>0, <1>1
  <1>3. /\ t \in s.todo /\ \A u \in s.todo : t <= u
        /\ s.todo \subseteq Nat
    BY <1>0, <1>1, TokensAreNumbers DEF Session
  <1> HIDE DEF s
  <1>4. /\ r \in Session /\ r.op = s.op /\ r.seen = s.seen /\ r.steps = s.steps
        /\ r.new = s.new /\ r.token = s.token /\ r.loaded = s.loaded
        /\ r.todo = s.todo \ {t} /\ r.revoked = s.revoked \cup {t}
        /\ r.rotated = s.rotated /\ r.wroteUser = s.wroteUser /\ r.bearer = s.bearer
    BY <1>1, <1>3 DEF Session
  <1> HIDE DEF r
  <1>5. \A a \in r.revoked, b \in r.todo : a < b
    BY <1>1, <1>3, <1>4 DEF SessionInv
  <1>6. s.todo # {} /\ r.todo \cup r.revoked = s.todo \cup s.revoked
        /\ r.revoked \cup r.todo = s.revoked \cup s.todo
    BY <1>3, <1>4
  <1>7. SessionInv(r)
    BY <1>1, <1>4, <1>5, <1>6 DEF SessionInv
  <1>8. RowsInv(r) /\ RevocationInv(r) /\ RefreshInv(r)
    BY <1>1, <1>4, <1>6 DEF RowsInv, RevocationInv, RefreshInv
  <1>9. /\ UNCHANGED <<user, tokens, history>> /\ denied' \subseteq Tokens
        /\ made' \in 0 .. MaxRequests /\ faults' \in 0 .. MaxFaults
    BY DEF Revoke, SessionsInv, TypeOK
  <1> QED
    BY <1>1, <1>2, <1>4, <1>7, <1>8, <1>9, LocalStep

(***************************************************************************)
(* The end of a request.                                                   *)
(***************************************************************************)
\* What becomes of the rows of tokens: only a new one becomes usable, and what the session
\* has rotated or revoked does not stay so.
LEMMA TokensCommitted ==
  ASSUME SessionsInv, NEW q \in Requests, Commit(q)
  PROVE  LET r == requests[q] IN
         /\ tokens' \in [Tokens -> TokenRow]
         /\ r.new # NoToken => tokens'[r.new] = NewToken(q)
         /\ \A t \in Tokens \ {r.new} :
              /\ tokens'[t].family = tokens[t].family /\ tokens'[t].ver = tokens[t].ver
              /\ tokens'[t].status = "none" <=> tokens[t].status = "none"
              /\ tokens'[t].status = "ACTIVE" =>
                   /\ tokens[t].status = "ACTIVE"
                   /\ t \notin r.revoked
                   /\ r.rotated => t # r.token
              /\ tokens[t].status \in {"ROTATED", "REVOKED"} =>
                   tokens'[t].status \in {"ROTATED", "REVOKED"}
  <1> DEFINE r == requests[q]
             new == NewToken(q)
  <1>1. /\ r \in Session /\ SessionInv(r) /\ RowsInv(r) /\ tokens \in [Tokens -> TokenRow]
    BY DEF SessionsInv, TypeOK
  <1> DEFINE After(t) ==
               CASE t = r.new -> new
                 [] r.rotated /\ t = r.token ->
                      [tokens[t] EXCEPT !.status = "ROTATED", !.replacedBy = r.new]
                 [] t \in r.revoked /\ ~(t = r.token /\ r.loaded = "REVOKED") ->
                      [tokens[t] EXCEPT !.status = "REVOKED"]
                 [] OTHER -> tokens[t]
  <1>0. tokens' = [t \in Tokens |-> After(t)]
    BY DEF Commit, TokensAfter
  <1> HIDE DEF r, new
  <1>2. ASSUME NEW t \in Tokens
        PROVE  /\ t = r.new => After(t) = new
               /\ t # r.new /\ r.rotated /\ t = r.token =>
                    After(t) = [tokens[t] EXCEPT !.status = "ROTATED", !.replacedBy = r.new]
               /\ /\ t # r.new /\ ~(r.rotated /\ t = r.token) /\ t \in r.revoked
                  /\ ~(t = r.token /\ r.loaded = "REVOKED")
                  => After(t) = [tokens[t] EXCEPT !.status = "REVOKED"]
               /\ /\ t # r.new /\ ~(r.rotated /\ t = r.token)
                  /\ ~(t \in r.revoked /\ ~(t = r.token /\ r.loaded = "REVOKED"))
                  => After(t) = tokens[t]
    <2>1. /\ t = r.new => ~(r.rotated /\ t = r.token) /\ t \notin r.revoked
          /\ r.rotated => t \notin r.revoked
      BY <1>1 DEF SessionInv, RowsInv, OfFamily, OfUser
    <2> QED
      BY <2>1
  <1> HIDE DEF After
  <1>3. /\ tokens' = [t \in Tokens |-> tokens'[t]]
        /\ \A t \in Tokens : tokens'[t] = After(t)
    BY <1>0
  <1>4. r.new # NoToken => new \in TokenRow
    <2>1. r.op = "refresh" => FamilyOf(r.token) \in Tokens \cup {NoToken}
      <3>1. r.op = "refresh" => r.token \in Tokens
        BY <1>1 DEF SessionInv, Session
      <3> QED
        BY <1>1, <3>1 DEF FamilyOf, TokenRow
    <2> QED
      BY <1>1, <2>1 DEF new, r, NewToken, Session, UserRow, TokenRow
  <1>5. ASSUME NEW t \in Tokens \ {r.new}
        PROVE  /\ tokens'[t] \in TokenRow
               /\ tokens'[t].family = tokens[t].family /\ tokens'[t].ver = tokens[t].ver
               /\ tokens'[t].status = "none" <=> tokens[t].status = "none"
               /\ tokens'[t].status = "ACTIVE" =>
                    /\ tokens[t].status = "ACTIVE"
                    /\ t \notin r.revoked
                    /\ r.rotated => t # r.token
               /\ tokens[t].status \in {"ROTATED", "REVOKED"} =>
                    tokens'[t].status \in {"ROTATED", "REVOKED"}
    <2> DEFINE row == tokens[t]
               after == tokens'[t]
    <2>1. row \in TokenRow /\ (t \in r.revoked => row.status # "none")
          /\ (r.rotated => r.revoked = {} /\ r.token \in Issued)
          /\ (t = r.token /\ r.loaded = "REVOKED" => row.status # "ACTIVE")
          /\ r.new \in Tokens \cup {NoToken} /\ (t = r.token => r.token # NoToken)
      BY <1>1, TokensAreNumbers DEF SessionInv, RowsInv, Issued, Session, OfFamily, OfUser
    <2>2. r.rotated /\ t = r.token => row.status # "none"
      <3>1. r.token \in Issued => tokens[r.token].status # "none"
        BY DEF Issued
      <3> QED
        BY <2>1, <3>1
    <2>3. CASE r.rotated /\ t = r.token
      <3>1. after = [row EXCEPT !.status = "ROTATED", !.replacedBy = r.new]
        BY <1>2, <1>3, <2>3
      <3> HIDE DEF row, after
      <3>2. after \in TokenRow /\ after.family = row.family /\ after.ver = row.ver
            /\ after.status = "ROTATED"
        BY <2>1, <3>1 DEF TokenRow
      <3> QED
        BY <2>2, <2>3, <3>2 DEF row, after
    <2>4. CASE ~(r.rotated /\ t = r.token) /\ t \in r.revoked /\ ~(t = r.token /\ r.loaded = "REVOKED")
      <3>1. after = [row EXCEPT !.status = "REVOKED"]
        BY <1>2, <1>3, <2>4
      <3> HIDE DEF row, after
      <3>2. after \in TokenRow /\ after.family = row.family /\ after.ver = row.ver
            /\ after.status = "REVOKED"
        BY <2>1, <3>1 DEF TokenRow
      <3> QED
        BY <2>1, <2>4, <3>2 DEF row, after
    <2>5. CASE /\ ~(r.rotated /\ t = r.token)
               /\ ~(t \in r.revoked /\ ~(t = r.token /\ r.loaded = "REVOKED"))
      <3>1. after = row
        BY <1>2, <1>3, <2>5
      <3> QED
        BY <2>1, <2>5, <3>1
    <2> QED
      BY <2>3, <2>4, <2>5
  <1>6. r.new # NoToken => tokens'[r.new] = new
    BY <1>1, <1>2, <1>3 DEF Session
  <1>7. \A t \in Tokens : tokens'[t] \in TokenRow
    BY <1>1, <1>4, <1>5, <1>6, TokensAreNumbers DEF Session
  <1> QED
    BY <1>3, <1>5, <1>6, <1>7 DEF r, new

\* The same, told by which tokens there are and what family each is of.
LEMMA FamiliesCommitted ==
  ASSUME SessionsInv, NEW q \in Requests, Commit(q)
  PROVE  LET r == requests[q] IN
         /\ \A t \in Issued : /\ t \in Issued' /\ t # r.new
                              /\ tokens'[t].family = tokens[t].family
                              /\ tokens'[t].ver = tokens[t].ver
                              /\ tokens[t].family \in Issued
         /\ \A t \in Issued' : t \in Issued \/ t = r.new
         /\ r.new # NoToken =>
              /\ r.new \in Issued' /\ r.new \notin Issued
              /\ r.op = "refresh" => tokens'[r.new].family = tokens[r.token].family
              /\ r.op # "refresh" => tokens'[r.new].family = r.new
              /\ tokens'[r.new].ver = r.seen.version
         /\ \A t \in Tokens : tokens'[t].status = "ACTIVE" =>
              \/ t = r.new
              \/ /\ t \in Issued /\ tokens[t].status = "ACTIVE" /\ t \notin r.revoked
                 /\ r.rotated => t # r.token
  <1> DEFINE r == requests[q]
  <1>1. /\ r \in Session /\ SessionInv(r) /\ RowsInv(r) /\ RecordInv
    BY DEF SessionsInv
  <1>2. /\ r.new # NoToken => tokens'[r.new] = NewToken(q)
        /\ \A t \in Tokens \ {r.new} :
              /\ tokens'[t].family = tokens[t].family /\ tokens'[t].ver = tokens[t].ver
              /\ tokens'[t].status = "none" <=> tokens[t].status = "none"
              /\ tokens'[t].status = "ACTIVE" =>
                   /\ tokens[t].status = "ACTIVE"
                   /\ t \notin r.revoked
                   /\ r.rotated => t # r.token
    BY TokensCommitted
  <1>3. /\ NewToken(q).status = "ACTIVE" /\ NewToken(q).ver = r.seen.version
        /\ r.op = "refresh" => NewToken(q).family = tokens[r.token].family
        /\ r.op # "refresh" => NewToken(q).family = r.new
    BY DEF NewToken, FamilyOf
  <1> HIDE DEF r
  <1>4. r.new \in Tokens \cup {NoToken} /\ r.new \notin Issued
    BY <1>1 DEF Session, RowsInv
  <1>5. \A t \in Issued : t \in Tokens /\ t # r.new /\ tokens[t].family \in Issued
    BY <1>1, <1>4 DEF Issued, RecordInv, FamilyOf
  <1>6. \A t \in Issued : t \in Issued'
    BY <1>2, <1>5 DEF Issued
  <1>7. \A t \in Issued' : t \in Issued \/ t = r.new
    BY <1>2 DEF Issued
  <1>8. r.new # NoToken => r.new \in Issued'
    BY <1>2, <1>3, <1>4 DEF Issued
  <1>9. \A t \in Tokens : tokens[t].status = "ACTIVE" => t \in Issued
    BY DEF Issued
  <1> QED
    BY <1>2, <1>3, <1>4, <1>5, <1>6, <1>7, <1>8, <1>9 DEF r

LEMMA UserCommitted ==
  ASSUME SessionsInv, NEW q \in Requests, Commit(q)
  PROVE  /\ user' \in UserRow /\ lastSet' \in Nat
         /\ lostUpdate' \in BOOLEAN /\ rehashedOver' \in BOOLEAN
         /\ ~lostUpdate' =>
              /\ ~lostUpdate
              /\ user.version <= user'.version
              /\ Bumps(q) => user'.version = user.version + 1
         /\ PasswordIsTheLastSet'
  <1> DEFINE r == requests[q]
  <1>1. /\ r \in Session /\ SessionInv(r) /\ user \in UserRow /\ lastSet \in Nat
        /\ lostUpdate \in BOOLEAN /\ rehashedOver \in BOOLEAN
        /\ ~rehashedOver => user.password = lastSet
    BY DEF SessionsInv, TypeOK, PasswordIsTheLastSet
  <1>2. /\ r.steps = <<>>
        /\ user' = IF ~r.wroteUser THEN user
                   ELSE CASE r.op = "login" -> [user EXCEPT !.password = r.seen.password,
                                                            !.outdated = FALSE]
                          [] r.op = "revokeAll" -> [user EXCEPT !.version = r.seen.version + 1]
                          [] OTHER -> [version |-> r.seen.version + 1, password |-> r.password,
                                       outdated |-> FALSE]
        /\ lostUpdate' = (lostUpdate \/ (Bumps(q) /\ r.seen.version # user.version))
        /\ lastSet' = IF r.op \in {"changePassword", "resetPassword"} THEN r.password ELSE lastSet
        /\ rehashedOver' = (rehashedOver \/ /\ r.op = "login" /\ r.wroteUser
                                            /\ r.seen.password # user.password)
        /\ Bumps(q) <=> r.op \in {"changePassword", "resetPassword", "revokeAll"}
    BY DEF Commit, Finished, UserAfter, Record, Bumps
  <1> HIDE DEF r
  <1>3. /\ r.wroteUser => r.op \in {"login", "changePassword", "resetPassword", "revokeAll"}
        /\ r.op \in {"changePassword", "resetPassword", "revokeAll"} => r.wroteUser
    BY <1>1, <1>2, StagesDiffer DEF SessionInv, OfUser
  <1>4. /\ r.seen \in UserRow /\ r.seen.version \in Nat /\ r.seen.password \in Nat /\ r.password \in Nat
        /\ user.version \in Nat /\ user.password \in Nat /\ user.outdated \in BOOLEAN
    BY <1>1 DEF Session, UserRow
  <1>5. /\ lostUpdate' \in BOOLEAN /\ rehashedOver' \in BOOLEAN
        /\ ~lostUpdate' => ~lostUpdate /\ (Bumps(q) => r.seen.version = user.version)
        /\ ~rehashedOver' =>
             ~rehashedOver /\ (r.op = "login" /\ r.wroteUser => r.seen.password = user.password)
    BY <1>1, <1>2
  <1>6. /\ user' \in UserRow
        /\ user'.version = IF Bumps(q) THEN r.seen.version + 1 ELSE user.version
        /\ user'.password = IF r.op \in {"changePassword", "resetPassword"} THEN r.password
                            ELSE IF r.op = "login" /\ r.wroteUser THEN r.seen.password
                            ELSE user.password
    <2>1. CASE ~r.wroteUser
      BY <1>1, <1>2, <1>3, <2>1
    <2>2. CASE r.wroteUser /\ r.op = "login"
      <3>1. user' = [version |-> user.version, password |-> r.seen.password, outdated |-> FALSE]
        BY <1>1, <1>2, <2>2 DEF UserRow
      <3> QED
        BY <1>2, <1>4, <2>2, <3>1 DEF UserRow
    <2>3. CASE r.wroteUser /\ r.op = "revokeAll"
      <3>1. user' = [version |-> r.seen.version + 1, password |-> user.password,
                     outdated |-> user.outdated]
        BY <1>1, <1>2, <2>3 DEF UserRow
      <3>2. /\ user' \in UserRow /\ user'.version = r.seen.version + 1
            /\ user'.password = user.password
        BY <1>4, <3>1 DEF UserRow
      <3> QED
        BY <1>2, <2>3, <3>2
    <2>4. CASE r.wroteUser /\ r.op \in {"changePassword", "resetPassword"}
      <3>1. user' = [version |-> r.seen.version + 1, password |-> r.password, outdated |-> FALSE]
        <4>1. r.op # "login" /\ r.op # "revokeAll"
          BY <2>4
        <4> QED
          BY <1>2, <2>4, <4>1
      <3>2. user' \in UserRow /\ user'.version = r.seen.version + 1 /\ user'.password = r.password
        BY <1>4, <3>1 DEF UserRow
      <3> QED
        BY <1>2, <2>4, <3>2
    <2> QED
      BY <1>3, <2>1, <2>2, <2>3, <2>4
  <1>7. lastSet' \in Nat
    BY <1>1, <1>2, <1>4
  <1>8. /\ user.version <= IF Bumps(q) THEN user.version + 1 ELSE user.version
    BY <1>4
  <1>9. PasswordIsTheLastSet'
    <2> SUFFICES ASSUME ~rehashedOver'
                 PROVE  user'.password = lastSet'
      BY DEF PasswordIsTheLastSet
    <2> QED
      BY <1>1, <1>2, <1>5, <1>6
  <1> QED
    BY <1>5, <1>6, <1>7, <1>8, <1>9

\* What the history says after a commit, of the families of the tokens that were there.
LEMMA HistoryCommitted ==
  ASSUME SessionsInv, NEW q \in Requests, Commit(q)
  PROVE  LET r == requests[q] IN
         /\ r.steps = <<>> /\ r.todo = {}
         /\ mixed \subseteq mixed' /\ forked \subseteq forked'
         /\ closed' = closed \cup Families(r.revoked)
         /\ invalidated' = IF Bumps(q) THEN invalidated \cup Issued ELSE invalidated
         /\ r.op = "refresh" =>
              /\ r.revoked = {} /\ r.rotated /\ ~Bumps(q) /\ r.token \in Issued
              /\ \A p \in Requests \ {q} :
                   /\ FamilyOf(r.token) \in Families(requests[p].revoked \cup requests[p].todo) =>
                        FamilyOf(r.token) \in mixed'
                   /\ requests[p].op = "refresh" /\ FamilyOf(requests[p].token) = FamilyOf(r.token) =>
                        FamilyOf(r.token) \in forked'
         /\ \A p \in Requests \ {q} :
              requests[p].op = "refresh" /\ FamilyOf(requests[p].token) \in Families(r.revoked) =>
                FamilyOf(requests[p].token) \in mixed'
  <1> DEFINE r == requests[q]
             others == Requests \ {q}
  <1>1. SessionInv(r) /\ RowsInv(r)
    BY DEF SessionsInv
  <1>2. /\ r.steps = <<>> /\ r.todo = {}
        /\ closed' = closed \cup Revoking(q)
        /\ mixed' = mixed \cup (Refreshing(q) \cap UNION {Revoking(p) : p \in others})
                          \cup (Revoking(q) \cap UNION {Refreshing(p) : p \in others})
        /\ forked' = forked \cup (Refreshing(q) \cap UNION {Refreshing(p) : p \in others})
        /\ invalidated' = IF Bumps(q) THEN invalidated \cup Issued ELSE invalidated
    BY DEF Commit, Finished, Record
  <1>3. Revoking(q) = Families(r.revoked)
    BY <1>2 DEF Revoking
  <1>4. r.op = "refresh" => /\ r.revoked = {} /\ r.rotated /\ ~Bumps(q) /\ r.token \in Issued
                            /\ Refreshing(q) = {FamilyOf(r.token)}
    BY <1>1, <1>2 DEF SessionInv, RowsInv, Bumps, OfFamily, OfUser, Refreshing
  <1>5. \A p \in others :
          /\ Revoking(p) = Families(requests[p].revoked \cup requests[p].todo)
          /\ requests[p].op = "refresh" => Refreshing(p) = {FamilyOf(requests[p].token)}
    BY DEF Revoking, Refreshing
  <1> QED
    BY <1>2, <1>3, <1>4, <1>5

\* The rows of tokens, the row of the user and the history after a commit.
LEMMA CommitRecords ==
  ASSUME SessionsInv, NEW q \in Requests, Commit(q)
  PROVE  TypeOK' /\ RecordInv'
  <1> DEFINE r == requests[q]
  <1>1. /\ SessionInv(r) /\ RowsInv(r) /\ RecordInv /\ TypeOK
        /\ r.seen.version \in Nat
    BY DEF SessionsInv, Session, UserRow
  <1>2. /\ \A t \in Issued : /\ t \in Issued' /\ tokens'[t].family = tokens[t].family
                             /\ tokens'[t].ver = tokens[t].ver /\ tokens[t].family \in Issued
        /\ \A t \in Issued' : t \in Issued \/ t = r.new
        /\ Issued' \subseteq Tokens
        /\ r.new \in Issued' \ Issued =>
              /\ r.op = "refresh" => tokens'[r.new].family = tokens[r.token].family
              /\ r.op # "refresh" => tokens'[r.new].family = r.new
              /\ tokens'[r.new].ver = r.seen.version
    BY FamiliesCommitted, TokensAreNumbers DEF Issued
  <1>3. /\ user' \in UserRow /\ user \in UserRow
        /\ ~lostUpdate' => /\ ~lostUpdate /\ user.version <= user'.version
                           /\ Bumps(q) => user'.version = user.version + 1
    BY <1>1, UserCommitted DEF TypeOK
  <1>4. /\ closed' = closed \cup Families(r.revoked)
        /\ invalidated' = IF Bumps(q) THEN invalidated \cup Issued ELSE invalidated
        /\ r.op = "refresh" => r.token \in Issued
    BY HistoryCommitted
  <1>5. Families(r.revoked) \subseteq Issued
    BY <1>1 DEF RowsInv, RecordInv, Families
  <1> HIDE DEF r
  <1>6. closed' \subseteq Issued' /\ invalidated' \subseteq Issued'
    BY <1>1, <1>2, <1>4, <1>5 DEF RecordInv
  <1>7. \A t \in Issued' : FamilyOf(t)' \in Issued'
    BY <1>2, <1>4 DEF FamilyOf
  <1>8. ASSUME ~lostUpdate'
        PROVE  /\ \A t \in Issued' : tokens'[t].ver <= user'.version
               /\ \A t \in invalidated' : tokens'[t].ver < user'.version
    <2>1. /\ \A t \in Issued : tokens[t].ver <= user.version
          /\ \A t \in invalidated : t \in Issued /\ tokens[t].ver < user.version
          /\ r.seen.version <= user.version
      BY <1>1, <1>3, <1>8 DEF RecordInv, RowsInv
    <2>2. user.version \in Nat /\ user'.version \in Nat /\ user.version <= user'.version
          /\ \A t \in Tokens : tokens[t].ver \in Nat
      BY <1>1, <1>3, <1>8 DEF UserRow, TypeOK, TokenRow
    <2>3. \A t \in Issued' : tokens'[t].ver <= user'.version
      <3> SUFFICES ASSUME NEW t \in Issued'
                   PROVE  tokens'[t].ver <= user'.version
        OBVIOUS
      <3>1. CASE t \in Issued
        <4>1. tokens'[t].ver = tokens[t].ver /\ tokens[t].ver \in Nat /\ tokens[t].ver <= user.version
          BY <1>2, <2>1, <2>2, <3>1
        <4> QED
          BY <2>2, <4>1
      <3>2. CASE t \notin Issued
        <4>1. tokens'[t].ver = r.seen.version
          BY <1>2, <3>2
        <4> QED
          BY <1>1, <2>1, <2>2, <4>1
      <3> QED
        BY <3>1, <3>2
    <2>4. \A t \in invalidated' : tokens'[t].ver < user'.version
      <3> SUFFICES ASSUME NEW t \in invalidated'
                   PROVE  tokens'[t].ver < user'.version
        OBVIOUS
      <3>1. t \in Issued /\ tokens'[t].ver = tokens[t].ver /\ tokens[t].ver \in Nat
        BY <1>2, <1>4, <2>1, <2>2
      <3>2. CASE Bumps(q)
        <4>1. user'.version = user.version + 1 /\ tokens[t].ver <= user.version
          BY <1>3, <1>8, <2>1, <3>1, <3>2
        <4> QED
          BY <2>2, <3>1, <4>1
      <3>3. CASE ~Bumps(q)
        <4>1. tokens[t].ver < user.version
          BY <1>4, <2>1, <3>3
        <4> QED
          BY <2>2, <3>1, <4>1
      <3> QED
        BY <3>2, <3>3
    <2> QED
      BY <2>3, <2>4
  <1>9. RecordInv'
    BY <1>6, <1>7, <1>8 DEF RecordInv
  <1>10. tokens' \in [Tokens -> TokenRow]
    BY TokensCommitted
  <1>11. /\ denied' = denied /\ made' = made /\ faults' = faults
    BY DEF Commit
  <1>12. TypeOK'
    BY <1>1, <1>2, <1>6, <1>10, <1>11, UserCommitted DEF TypeOK
  <1> QED
    BY <1>9, <1>12

\* What the other sessions know stays true when one commits.
LEMMA CommitKeepsOthers ==
  ASSUME SessionsInv, NEW q \in Requests, Commit(q), NEW p \in Requests \ {q}
  PROVE  (RowsInv(requests[p]) /\ RevocationInv(requests[p]) /\ RefreshInv(requests[p]))'
  <1> DEFINE r == requests[q]
             s == requests[p]
             held == s.revoked \cup s.todo
  <1>1. /\ SessionInv(s) /\ RowsInv(s) /\ RevocationInv(s) /\ RefreshInv(s)
        /\ s.seen.version \in Nat
        /\ r.new # NoToken => r.new # s.new
    BY DEF SessionsInv, Session, UserRow
  <1>2. requests'[p] = s
    BY DEF Commit, SessionsInv
  <1>3. /\ \A t \in Issued : /\ t \in Tokens /\ t \in Issued' /\ t # r.new
                             /\ tokens'[t].family = tokens[t].family
                             /\ tokens[t].family \in Issued
        /\ \A t \in Issued' : t \in Issued \/ t = r.new
        /\ Issued' \subseteq Tokens
        /\ r.new # NoToken =>
              /\ r.new \in Issued' /\ r.new \notin Issued
              /\ r.op = "refresh" => tokens'[r.new].family = tokens[r.token].family
              /\ r.op # "refresh" => tokens'[r.new].family = r.new
        /\ \A t \in Tokens : tokens'[t].status = "ACTIVE" =>
              t = r.new \/ (t \in Issued /\ tokens[t].status = "ACTIVE")
    BY FamiliesCommitted DEF Issued
  <1>4. /\ mixed \subseteq mixed' /\ forked \subseteq forked'
        /\ closed' = closed \cup Families(r.revoked)
        /\ r.op = "refresh" =>
             /\ r.token \in Issued
             /\ tokens[r.token].family \in Families(held) => tokens[r.token].family \in mixed'
             /\ s.op = "refresh" /\ tokens[s.token].family = tokens[r.token].family =>
                  tokens[r.token].family \in forked'
        /\ s.op = "refresh" /\ tokens[s.token].family \in Families(r.revoked) =>
             tokens[s.token].family \in mixed'
    BY HistoryCommitted DEF FamilyOf
  <1>5. held \subseteq Issued /\ (s.op = "refresh" => s.token \in Issued)
    BY <1>1 DEF SessionInv, RowsInv
  <1>6. ~lostUpdate' => s.seen.version <= user'.version
    <2> SUFFICES ASSUME ~lostUpdate'
                 PROVE  s.seen.version <= user'.version
      OBVIOUS
    <2>1. /\ user' \in UserRow /\ user \in UserRow /\ ~lostUpdate
          /\ user.version <= user'.version
      BY UserCommitted DEF SessionsInv, TypeOK
    <2>2. s.seen.version <= user.version
      BY <1>1, <2>1 DEF RowsInv
    <2>3. user.version \in Nat /\ user'.version \in Nat
      BY <2>1 DEF UserRow
    <2> QED
      BY <1>1, <2>1, <2>2, <2>3
  <1>7. NoToken \notin Tokens
    BY TokensAreNumbers
  <1> HIDE DEF r, s
  <1>8. RowsInv(requests[p])'
    <2>1. s.new \notin Issued'
      BY <1>1, <1>3, <1>7 DEF RowsInv
    <2>2. s.token # NoToken /\ s.loaded = "REVOKED" => tokens'[s.token].status # "ACTIVE"
      BY <1>1, <1>3 DEF RowsInv
    <2>3. s.token # NoToken => s.token \in Issued'
      BY <1>1, <1>3 DEF RowsInv
    <2>4. s.todo \cup s.revoked \subseteq Issued'
      BY <1>3, <1>5
    <2> QED
      BY <1>2, <1>6, <2>1, <2>2, <2>3, <2>4 DEF RowsInv
  <1>9. RevocationInv(requests[p])'
    <2> SUFFICES ASSUME NEW t \in Tokens, tokens'[t].status = "ACTIVE",
                        tokens'[t].family \notin mixed',
                        NEW u \in held, tokens'[t].family = tokens'[u].family
                 PROVE  t \in held
      BY <1>2 DEF RevocationInv, Families, FamilyOf
    <2>1. tokens'[u].family = tokens[u].family /\ tokens[u].family \in Issued
      BY <1>3, <1>5
    <2>2. tokens[u].family \in Families(held)
      BY DEF Families, FamilyOf
    <2>3. t # r.new
      <3> SUFFICES ASSUME t = r.new
                   PROVE  FALSE
        OBVIOUS
      <3>1. CASE r.op = "refresh"
        BY <1>3, <1>4, <1>7, <2>1, <2>2, <3>1
      <3>2. CASE r.op # "refresh"
        BY <1>3, <1>7, <2>1, <3>2
      <3> QED
        BY <3>1, <3>2
    <2>4. /\ tokens[t].status = "ACTIVE" /\ tokens[t].family = tokens[u].family
          /\ tokens[t].family \notin mixed
      BY <1>3, <1>4, <2>1, <2>3
    <2> QED
      BY <1>1, <2>2, <2>4 DEF RevocationInv, FamilyOf
  <1>10. RefreshInv(requests[p])'
    <2> SUFFICES ASSUME s.op = "refresh"
                 PROVE  /\ tokens'[s.token].family \notin closed' \ mixed'
                        /\ \A t \in Tokens :
                             /\ tokens'[t].status = "ACTIVE"
                             /\ tokens'[t].family = tokens'[s.token].family
                             => t = s.token \/ tokens'[t].family \in forked'
      BY <1>2 DEF RefreshInv, FamilyOf
    <2> DEFINE f == tokens[s.token].family
    <2>1. tokens'[s.token].family = f /\ f \in Issued
      BY <1>3, <1>5
    <2>2. f \notin closed \ mixed
      BY <1>1 DEF RefreshInv, FamilyOf
    <2>3. f \notin closed' \ mixed'
      BY <1>4, <2>2
    <2>4. ASSUME NEW t \in Tokens, tokens'[t].status = "ACTIVE", tokens'[t].family = f, t # s.token
          PROVE  f \in forked'
      <3>1. CASE t = r.new
        <4>1. CASE r.op = "refresh"
          BY <1>3, <1>4, <1>7, <2>4, <3>1, <4>1
        <4>2. CASE r.op # "refresh"
          BY <1>3, <1>7, <2>1, <2>4, <3>1, <4>2
        <4> QED
          BY <4>1, <4>2
      <3>2. CASE t # r.new
        <4>1. tokens[t].status = "ACTIVE" /\ tokens[t].family = f
          BY <1>3, <2>4, <3>2
        <4>2. f \in forked
          BY <1>1, <2>4, <4>1 DEF RefreshInv, FamilyOf
        <4> QED
          BY <1>4, <4>2
      <3> QED
        BY <3>1, <3>2
    <2> QED
      BY <2>1, <2>3, <2>4
  <1> QED
    BY <1>8, <1>9, <1>10

\* The commit of a revocation leaves no usable token, that of a refresh one.
LEMMA CommitKeepsFamilies ==
  ASSUME SessionsInv, NEW q \in Requests, Commit(q)
  PROVE  ClosedStaysClosed' /\ OneActivePerFamily'
  <1> DEFINE r == requests[q]
             fresh == r.op # "refresh"
  <1>1. /\ SessionInv(r) /\ RowsInv(r) /\ RevocationInv(r) /\ RefreshInv(r)
        /\ RecordInv /\ ClosedStaysClosed /\ OneActivePerFamily
    BY DEF SessionsInv
  <1>2. /\ \A t \in Issued : tokens'[t].family = tokens[t].family /\ tokens[t].family \in Issued
        /\ r.new # NoToken =>
              /\ r.new \notin Issued
              /\ r.op = "refresh" => tokens'[r.new].family = tokens[r.token].family
              /\ fresh => tokens'[r.new].family = r.new
        /\ \A t \in Tokens : tokens'[t].status = "ACTIVE" =>
              \/ t = r.new
              \/ /\ t \in Issued /\ tokens[t].status = "ACTIVE" /\ t \notin r.revoked
                 /\ r.rotated => t # r.token
    BY FamiliesCommitted
  <1>3. /\ r.todo = {} /\ mixed \subseteq mixed' /\ forked \subseteq forked'
        /\ closed' = closed \cup Families(r.revoked)
        /\ r.op = "refresh" => r.revoked = {} /\ r.rotated /\ r.token \in Issued
    BY HistoryCommitted
  <1>4. closed' \subseteq Issued /\ NoToken \notin Tokens
    BY <1>1, <1>3, TokensAreNumbers DEF RowsInv, RecordInv, Families
  <1> HIDE DEF r
  <1>5. ASSUME NEW t \in Tokens, t # r.new, tokens'[t].status = "ACTIVE"
        PROVE  /\ tokens[t].status = "ACTIVE" /\ tokens'[t].family = tokens[t].family
               /\ tokens[t].family \in Issued /\ t \notin r.revoked
               /\ r.rotated => t # r.token
    BY <1>2, <1>5
  <1>6. ClosedStaysClosed'
    <2> SUFFICES ASSUME NEW t \in Tokens, tokens'[t].status = "ACTIVE", tokens'[t].family \in closed'
                 PROVE  tokens'[t].family \in mixed'
      BY DEF ClosedStaysClosed, FamilyOf
    <2>1. CASE t # r.new
      <3>1. CASE tokens[t].family \in closed
        BY <1>1, <1>3, <1>5, <2>1, <3>1 DEF ClosedStaysClosed, FamilyOf
      <3>2. CASE tokens[t].family \in Families(r.revoked)
        <4>1. r.revoked \cup r.todo = r.revoked
          BY <1>3
        <4> QED
          BY <1>1, <1>3, <1>5, <2>1, <3>2, <4>1 DEF RevocationInv, FamilyOf
      <3> QED
        BY <1>3, <1>5, <2>1, <3>1, <3>2
    <2>2. CASE t = r.new /\ fresh
      BY <1>2, <1>4, <2>2
    <2>3. CASE t = r.new /\ ~fresh
      <3>1. tokens'[t].family = tokens[r.token].family /\ closed' = closed
        BY <1>2, <1>3, <1>4, <2>3 DEF Families
      <3> QED
        BY <1>1, <1>3, <2>3, <3>1 DEF RefreshInv, FamilyOf
    <2> QED
      BY <2>1, <2>2, <2>3
  <1>7. OneActivePerFamily'
    <2>1. ASSUME NEW t \in Tokens, NEW u \in Tokens, t # u, t # r.new, u # r.new,
                 tokens'[t].status = "ACTIVE", tokens'[u].status = "ACTIVE",
                 tokens'[t].family = tokens'[u].family
          PROVE  tokens'[t].family \in forked'
      <3>1. /\ tokens[t].status = "ACTIVE" /\ tokens[u].status = "ACTIVE"
            /\ tokens[t].family = tokens[u].family /\ tokens'[t].family = tokens[t].family
        BY <1>5, <2>1
      <3>2. tokens[t].family \in forked
        BY <1>1, <2>1, <3>1 DEF OneActivePerFamily, FamilyOf
      <3> QED
        BY <1>3, <3>1, <3>2
    <2>2. ASSUME r.new \in Tokens, NEW u \in Tokens, u # r.new, tokens'[u].status = "ACTIVE",
                 tokens'[r.new].family = tokens'[u].family
          PROVE  tokens'[u].family \in forked'
      <3>1. /\ tokens[u].status = "ACTIVE" /\ tokens'[u].family = tokens[u].family
            /\ tokens[u].family \in Issued /\ (r.rotated => u # r.token)
        BY <1>5, <2>2
      <3>2. CASE fresh
        BY <1>2, <1>4, <2>2, <3>1, <3>2
      <3>3. CASE ~fresh
        <4>1. tokens[u].family = tokens[r.token].family /\ u # r.token
          BY <1>2, <1>3, <1>4, <2>2, <3>1, <3>3
        <4>2. tokens[u].family \in forked
          BY <1>1, <3>1, <3>3, <4>1 DEF RefreshInv, FamilyOf
        <4> QED
          BY <1>3, <3>1, <4>2
      <3> QED
        BY <3>2, <3>3
    <2> QED
      BY <2>1, <2>2 DEF OneActivePerFamily, FamilyOf
  <1> QED
    BY <1>6, <1>7

LEMMA CommitKeeps ==
  ASSUME SessionsInv, NEW q \in Requests, Commit(q)
  PROVE  SessionsInv'
  <1>1. /\ requests \in [Requests -> Session]
        /\ requests' = [requests EXCEPT ![q] = Idle]
        /\ user' \in UserRow
    BY UserCommitted DEF SessionsInv, Commit
  <1>2. /\ Idle.new = NoToken /\ Idle \in Session /\ SessionInv(Idle)
    BY IdleSession DEF SessionsInv, TypeOK, SessionInv
  <1>3. /\ requests' \in [Requests -> Session]
        /\ requests'[q] = Idle
        /\ \A p \in Requests \ {q} : requests'[p] = requests[p]
    BY <1>1, <1>2
  <1>4. (SessionInv(requests[q]) /\ RowsInv(requests[q])
          /\ RevocationInv(requests[q]) /\ RefreshInv(requests[q]))'
    <2>1. /\ Idle.op = "none" /\ Idle.token = NoToken /\ Idle.todo = {} /\ Idle.revoked = {}
          /\ Idle.seen.version = 0
      BY DEF Idle
    <2>2. user'.version \in Nat /\ NoToken \notin Tokens
      BY <1>1, TokensAreNumbers DEF UserRow
    <2>3. SessionInv(requests[q])'
      BY <1>2, <1>3 DEF SessionInv
    <2>4. RowsInv(requests[q])'
      BY <1>2, <1>3, <2>1, <2>2 DEF RowsInv, Issued
    <2>5. (RevocationInv(requests[q]) /\ RefreshInv(requests[q]))'
      BY <1>3, <2>1 DEF RevocationInv, RefreshInv, Families
    <2> QED
      BY <2>3, <2>4, <2>5
  <1>5. \A p \in Requests \ {q} :
          (SessionInv(requests[p]) /\ RowsInv(requests[p])
            /\ RevocationInv(requests[p]) /\ RefreshInv(requests[p]))'
    <2> TAKE p \in Requests \ {q}
    <2>1. SessionInv(requests[p])'
      BY <1>3 DEF SessionsInv, SessionInv
    <2> QED
      BY <2>1, CommitKeepsOthers
  <1>6. \A p, o \in Requests :
          p # o /\ requests'[p].new # NoToken => requests'[p].new # requests'[o].new
    BY <1>2, <1>3 DEF SessionsInv
  <1> QED
    BY <1>3, <1>4, <1>5, <1>6, CommitRecords, CommitKeepsFamilies, UserCommitted DEF SessionsInv

(***************************************************************************)
(* The theorems.                                                           *)
(***************************************************************************)
LEMMA InitSessions == Init => SessionsInv
  <1> SUFFICES ASSUME Init
               PROVE  SessionsInv
    OBVIOUS
  <1>1. /\ user \in UserRow /\ user.password = 0 /\ user.version = 0
        /\ requests = [q \in Requests |-> Idle]
        /\ \A t \in Tokens : tokens[t] = AbsentToken
        /\ closed = {} /\ invalidated = {} /\ lastSet = 0
    BY DEF Init, UserRow
  <1>2. /\ AbsentToken.status = "none" /\ AbsentToken \in TokenRow
    BY DEF AbsentToken, TokenRow
  <1>3. Issued = {} /\ \A t \in Tokens : tokens[t].status # "ACTIVE"
    BY <1>1, <1>2 DEF Issued
  <1>4. tokens \in [Tokens -> TokenRow]
    BY <1>2 DEF Init
  <1>5. TypeOK
    <2>1. lostUpdate \in BOOLEAN /\ rehashedOver \in BOOLEAN
      BY Zenon DEF Init
    <2>2. made \in 0 .. MaxRequests /\ faults \in 0 .. MaxFaults
      BY AuthSessionsAssumption DEF Init, AuthSessionsAssumption
    <2>3. denied = {} /\ lastSet \in Nat
      BY <1>1 DEF Init
    <2> QED
      BY <1>1, <1>4, <2>1, <2>2, <2>3 DEF TypeOK
  <1>6. RecordInv
    BY <1>1, <1>3 DEF RecordInv
  <1>7. PasswordIsTheLastSet /\ ClosedStaysClosed /\ OneActivePerFamily
    BY <1>1, <1>3 DEF PasswordIsTheLastSet, ClosedStaysClosed, OneActivePerFamily
  <1>8. \A q \in Requests : requests[q] = Idle
    BY <1>1
  <1>9. requests \in [Requests -> Session]
    BY <1>1, IdleSession DEF SessionInv
  <1> QED
    BY <1>1, <1>5, <1>6, <1>7, <1>8, <1>9, IdleSession DEF SessionsInv

LEMMA StatementKeeps ==
  ASSUME SessionsInv, NEW q \in Requests, Statement(q)
  PROVE  SessionsInv'
  <1>1. CASE DeadlockVictim(q)
    <2>1. Rollback(q) /\ faults' \in 0 .. MaxFaults
      BY <1>1 DEF DeadlockVictim, SessionsInv, TypeOK
    <2> QED
      BY <2>1, RollbackKeeps
  <1> QED
    BY <1>1, LoadKeeps, WriteUserKeeps, InsertKeeps, RotateKeeps, SelectKeeps, RevokeKeeps,
       DenyKeeps, CommitKeeps
    DEF Statement

LEMMA StepSessions == SessionsInv /\ [Next]_vars => SessionsInv'
  <1> SUFFICES ASSUME SessionsInv, [Next]_vars
               PROVE  SessionsInv'
    OBVIOUS
  <1>1. CASE UNCHANGED vars
    BY <1>1
    DEF vars, history, SessionsInv, TypeOK, RecordInv, RowsInv, RevocationInv, RefreshInv,
        PasswordIsTheLastSet, ClosedStaysClosed, OneActivePerFamily, Issued, Families, FamilyOf
  <1>2. ASSUME NEW q \in Requests, Fail(q)
        PROVE  SessionsInv'
    <2>1. Rollback(q) /\ faults' \in 0 .. MaxFaults
      BY <1>2, AuthSessionsAssumption DEF Fail, SessionsInv, TypeOK, AuthSessionsAssumption
    <2> QED
      BY <2>1, RollbackKeeps
  <1> QED
    BY <1>1, <1>2, UserRequestKeeps, TokenRequestKeeps, StatementKeeps DEF Next

\* The invariant holds in every reachable state.
THEOREM SessionsAreInvariant == Spec => []SessionsInv
  BY InitSessions, StepSessions, PTL DEF Spec

\* TypeOK: the variables have their types.
THEOREM TypeCorrect == Spec => []TypeOK
  <1>1. SessionsInv => TypeOK
    BY DEF SessionsInv
  <1> QED
    BY <1>1, SessionsAreInvariant, PTL

\* Whatever requests overlap, no access token from before a committed "log out everywhere",
\* password change or reset is accepted again, unless such a request wrote a token_version
\* over one it had not read.
THEOREM BumpsLast == Spec => []InvalidatedStaysInvalid
  <1>1. SessionsInv => InvalidatedStaysInvalid
    <2> SUFFICES ASSUME SessionsInv, ~lostUpdate, NEW t \in invalidated
                 PROVE  tokens[t].ver # user.version
      BY DEF InvalidatedStaysInvalid, Accepted
    <2>1. tokens[t].ver < user.version /\ t \in Tokens
      BY DEF SessionsInv, RecordInv, Issued
    <2>2. tokens[t].ver \in Nat /\ user.version \in Nat
      BY <2>1 DEF SessionsInv, TypeOK, TokenRow, UserRow
    <2> QED
      BY <2>1, <2>2
  <1> QED
    BY <1>1, SessionsAreInvariant, PTL

\* The password is the one last set, unless a login has written the hash of a former one.
THEOREM PasswordsLast == Spec => []PasswordIsTheLastSet
  <1>1. SessionsInv => PasswordIsTheLastSet
    BY DEF SessionsInv
  <1> QED
    BY <1>1, SessionsAreInvariant, PTL

\* A family that a revocation has closed has no usable token, unless a refresh in it
\* overlapped the revocation.
THEOREM RevocationsLast == Spec => []ClosedStaysClosed
  <1>1. SessionsInv => ClosedStaysClosed
    BY DEF SessionsInv
  <1> QED
    BY <1>1, SessionsAreInvariant, PTL

\* A family has at most one usable token, unless two refreshes of it overlapped.
THEOREM FamiliesDoNotFork == Spec => []OneActivePerFamily
  <1>1. SessionsInv => OneActivePerFamily
    BY DEF SessionsInv
  <1> QED
    BY <1>1, SessionsAreInvariant, PTL

\* A token that was rotated or revoked is never usable again.
THEOREM TokensAreUsedOnce == Spec => ConsumedStaysConsumed
  <1> DEFINE Consumed == \A t \in Tokens : tokens[t].status \in {"ROTATED", "REVOKED"} =>
                           tokens'[t].status \in {"ROTATED", "REVOKED"}
  <1>1. SessionsInv /\ [Next]_vars => [Consumed]_vars
    <2> SUFFICES ASSUME SessionsInv, Next
                 PROVE  Consumed
      OBVIOUS
    <2>1. ASSUME NEW q \in Requests, Commit(q)
          PROVE  Consumed
      <3>1. requests[q].new \notin Issued
        BY DEF SessionsInv, RowsInv
      <3>2. \A t \in Tokens \ {requests[q].new} :
              tokens[t].status \in {"ROTATED", "REVOKED"} =>
                tokens'[t].status \in {"ROTATED", "REVOKED"}
        BY <2>1, TokensCommitted
      <3> QED
        BY <3>1, <3>2 DEF Issued
    <2>2. (\E q \in Requests : Commit(q)) \/ UNCHANGED tokens
      BY DEF Next, Login, SwitchTenant, Refresh, RevokeSession, Logout, ChangePassword,
             ResetPassword, RevokeAllSessions, Begin, Statement, Load, WriteUser, Insert,
             Rotate, SelectNonRevoked, Revoke, Deny, DeadlockVictim, Fail, Proceed, Rollback
    <2> QED
      BY <2>1, <2>2
  <1> QED
    BY <1>1, SessionsAreInvariant, PTL DEF Spec, ConsumedStaysConsumed

(***************************************************************************)
(* Deadlocks.                                                              *)
(***************************************************************************)
\* A set of numbers that is bounded has a greatest one.
LEMMA GreatestToken ==
  ASSUME NEW W, W \subseteq Tokens, W # {}
  PROVE  \E t \in W : \A u \in W : u <= t
  <1> DEFINE below == {n \in Nat : \E t \in W : n = MaxTokens - t}
             Less == OpToRel(<, Nat)
  <1>1. MaxTokens \in Nat /\ \A t \in W : t \in Nat /\ t <= MaxTokens
    BY AuthSessionsAssumption DEF AuthSessionsAssumption, Tokens
  <1>2. \A t \in W : MaxTokens - t \in below
    BY <1>1
  <1>3. below # {} /\ below \subseteq Nat
    BY <1>2
  <1>4. PICK n \in below : \A m \in below : ~(<<m, n>> \in Less)
    BY <1>3, NatLessThanWellFounded, WFMin
  <1>5. \A m \in below : ~(m < n)
    BY <1>3, <1>4 DEF OpToRel
  <1>6. PICK t \in W : n = MaxTokens - t
    BY DEF below
  <1>7. \A u \in W : u <= t
    <2> TAKE u \in W
    <2>1. ~(MaxTokens - u < MaxTokens - t)
      BY <1>2, <1>5, <1>6
    <2> QED
      BY <1>1, <2>1
  <1> QED
    BY <1>7

\* A request waits for the row of the user, or for that of a token.
LEMMA WaitsOf ==
  ASSUME SessionsInv, NEW p \in Requests, NEW o \in WaitsFor(p)
  PROVE  LET r == requests[p] IN
         \/ /\ r.steps \in BeforeUser /\ HasUser(o)
            /\ (r.op \in {"login", "revokeAll"} \/ r.steps \in BeforeSelect)
         \/ \E u \in Tokens :
              HasToken(o, u) /\ (u \in r.todo \/ (r.op = "refresh" /\ r.steps # <<>>))
  <1> DEFINE r == requests[p]
  <1>1. SessionInv(r) /\ r.todo \subseteq Tokens /\ r.token \in Tokens \cup {NoToken}
    BY DEF SessionsInv, SessionInv, Session
  <1>2. \/ AtStep(p, "user") /\ HasUser(o)
        \/ AtStep(p, "rotate") /\ HasToken(o, r.token)
        \/ \E t \in r.todo : HasToken(o, t)
    BY DEF WaitsFor
  <1>3. CASE AtStep(p, "user") /\ HasUser(o)
    BY <1>1, <1>3, Places DEF BeforeUser, BeforeSelect
  <1>4. CASE AtStep(p, "rotate") /\ HasToken(o, r.token)
    <2>1. r.op = "refresh" /\ r.steps # <<>>
      BY <1>1, <1>4, Places, StagesDiffer
    <2>2. r.token \in Tokens
      BY <1>1, <2>1 DEF SessionInv
    <2> QED
      BY <1>4, <2>1, <2>2
  <1>5. CASE \E t \in r.todo : HasToken(o, t)
    BY <1>1, <1>5
  <1> QED
    BY <1>2, <1>3, <1>4, <1>5

\* Who has the row of a token and waits, waits for that of a later one: but "log out
\* everywhere" also for the user.
LEMMA HoldersWaitUpwards ==
  ASSUME SessionsInv, NEW p \in Requests, requests[p].op # "revokeAll", NEW o \in WaitsFor(p),
         NEW t \in Tokens, HasToken(p, t)
  PROVE  \E u \in Tokens : t < u /\ HasToken(o, u)
  <1> DEFINE r == requests[p]
  <1>1. SessionInv(r)
    BY DEF SessionsInv
  <1>2. t \in r.revoked \/ r.rotated
    BY DEF HasToken, Locks
  <1>3. ~r.rotated /\ t \in r.revoked
    <2>1. ASSUME r.rotated
          PROVE  FALSE
      <3>1. r.op = "refresh" /\ r.steps = <<>> /\ r.todo = {}
        BY <1>1, <2>1 DEF SessionInv, OfFamily, OfUser
      <3> QED
        BY <3>1, WaitsOf, StagesDiffer
    <2> QED
      BY <1>2, <2>1
  <1>4. r.op \in OfFamily \cup OfUser /\ r.steps \notin BeforeSelect /\ \A u \in r.todo : t < u
    BY <1>1, <1>3 DEF SessionInv
  <1>5. r.op \notin {"login", "refresh"}
    BY <1>4 DEF OfFamily, OfUser
  <1> QED
    BY <1>4, <1>5, WaitsOf

\* Who has written the user and waits, waits for the row of a token.
LEMMA UserHoldersWaitForTokens ==
  ASSUME SessionsInv, NEW p \in Requests, NEW o \in WaitsFor(p), HasUser(p)
  PROVE  \E u \in Tokens : HasToken(o, u)
  <1>1. requests[p].steps \notin BeforeUser
    BY DEF SessionsInv, SessionInv, HasUser
  <1> QED
    BY <1>1, WaitsOf

\* The locks of tokens are taken in one order, and that of the user before them but by
\* "log out everywhere": without one of these in it, no circle of waiting requests.
THEOREM DeadlocksNeedRevokeAll == Spec => []DeadlockNeedsRevokeAll
  <1>1. SessionsInv => DeadlockNeedsRevokeAll
    <2> SUFFICES ASSUME SessionsInv, NEW S \in SUBSET Requests, WaitCycle(S),
                        \A q \in S : requests[q].op # "revokeAll"
                 PROVE  FALSE
      BY DEF DeadlockNeedsRevokeAll
    <2> DEFINE Held == {t \in Tokens : \E o \in S : HasToken(o, t)}
    <2>1. S # {} /\ \A p \in S : \E o \in S : o \in WaitsFor(p)
      BY DEF WaitCycle
    <2>2. Held # {}
      <3>1. PICK p \in S, o \in S : o \in WaitsFor(p)
        BY <2>1
      <3>2. CASE HasUser(o)
        <4>1. PICK x \in S : x \in WaitsFor(o)
          BY <2>1
        <4> QED
          BY <3>2, <4>1, UserHoldersWaitForTokens
      <3>3. CASE ~HasUser(o)
        BY <3>1, <3>3, WaitsOf
      <3> QED
        BY <3>2, <3>3
    <2>3. PICK t \in Held : \A u \in Held : u <= t
      BY <2>2, GreatestToken
    <2>4. PICK p \in S : HasToken(p, t)
      OBVIOUS
    <2>5. PICK o \in S : o \in WaitsFor(p)
      BY <2>1
    <2>6. PICK u \in Tokens : t < u /\ HasToken(o, u)
      BY <2>4, <2>5, HoldersWaitUpwards
    <2>7. u <= t
      BY <2>3, <2>6
    <2> QED
      BY <2>6, <2>7, TokensAreNumbers
  <1> QED
    BY <1>1, SessionsAreInvariant, PTL
=============================================================================
