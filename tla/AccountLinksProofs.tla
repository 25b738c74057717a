------------------------- MODULE AccountLinksProofs -------------------------
(***************************************************************************)
(* Which links work: proved for any number of links, requests in progress, *)
(* requests and failures.                                                  *)
(***************************************************************************)
EXTENDS AccountLinks, TLAPS

\* What is left of a request after each of its statements.
LEMMA StepsAreTaken ==
  /\ Tail(RegisterSteps) = IssueSteps /\ Head(RegisterSteps) = "create"
  /\ Tail(IssueSteps) = <<"insert", "mail">> /\ Head(IssueSteps) = "select"
  /\ Tail(<<"insert", "mail">>) = <<"mail">> /\ Head(<<"insert", "mail">>) = "insert"
  /\ Tail(<<"mail">>) = <<>> /\ Head(<<"mail">>) = "mail"
  /\ Tail(<<"user", "consume">>) = <<"consume">> /\ Head(<<"user", "consume">>) = "user"
  /\ Tail(<<"consume">>) = <<>> /\ Head(<<"consume">>) = "consume"
  BY DEF RegisterSteps, IssueSteps

\* A request has looked for older links when at most two statements are left of it.
LEMMA SelectedIsShort ==
  /\ \A s \in Selected : Len(s) < Len(IssueSteps)
  /\ ~(Len(IssueSteps) < Len(IssueSteps)) /\ ~(Len(RegisterSteps) < Len(IssueSteps))
  BY DEF Selected, RegisterSteps, IssueSteps

\* Which steps an operation has.
LEMMA StepsOfOperations ==
  /\ DOMAIN StepsLeft = {"none", "register", "issue", "confirm"}
  /\ StepsLeft["none"] = {<<>>}
  /\ StepsLeft["register"] = Selected \cup {IssueSteps, RegisterSteps}
  /\ StepsLeft["issue"] = Selected \cup {IssueSteps}
  /\ StepsLeft["confirm"] = {<<"user", "consume">>, <<"consume">>, <<>>}
  BY DEF StepsLeft

\* A record with steps of its operation is a session.
LEMMA SessionsHaveTheirSteps ==
  ASSUME NEW r,
         r \in [op : DOMAIN StepsLeft, steps : {r.steps}, purpose : VerificationTokenPurpose,
                token : Tokens \cup {NoToken}, new : Tokens \cup {NoToken},
                todo : SUBSET Tokens, consumed : SUBSET Tokens, wroteUser : BOOLEAN],
         r.steps \in StepsLeft[r.op]
  PROVE  r \in Session
  <1>1. r.steps \in UNION {StepsLeft[op] : op \in DOMAIN StepsLeft}
    OBVIOUS
  <1> QED
    BY <1>1 DEF Session

\* The steps of a session are those of its operation.
LEMMA OperationsOfSteps ==
  ASSUME NEW r, SessionInv(r)
  PROVE  /\ r.op \in {"none", "register", "issue", "confirm"}
         /\ r.op = "none" => r.steps = <<>>
         /\ r.op = "register" => r.steps \in Selected \cup {IssueSteps, RegisterSteps}
         /\ r.op = "issue" => r.steps \in Selected \cup {IssueSteps}
         /\ r.op = "confirm" => r.steps \in {<<"user", "consume">>, <<"consume">>, <<>>}
  BY DEF SessionInv, Session, StepsLeft

\* By the statement it is at, one knows what a session is doing.
LEMMA Places ==
  ASSUME NEW q \in Requests, SessionInv(requests[q])
  PROVE  LET r == requests[q] IN
         /\ AtStep(q, "create") => r.op = "register" /\ r.steps = RegisterSteps
         /\ AtStep(q, "select") => Issuing(q) /\ r.steps = IssueSteps
         /\ AtStep(q, "insert") => Issuing(q) /\ r.steps = <<"insert", "mail">>
         /\ AtStep(q, "mail") => Issuing(q) /\ r.steps = <<"mail">>
         /\ AtStep(q, "user") => Confirming(q) /\ r.steps = <<"user", "consume">>
         /\ AtStep(q, "consume") => Confirming(q) /\ r.steps = <<"consume">>
  BY OperationsOfSteps, StepsAreTaken
     DEF AtStep, Issuing, Confirming, Selected

LEMMA NoTokenIsNone == NoToken \notin Tokens
  BY AccountLinksAssumption DEF AccountLinksAssumption, Tokens, NoToken

\* A step of one session that changes no row and commits nothing.
LEMMA LocalStep ==
  ASSUME LinksInv, NEW q \in Requests, NEW r,
         requests' = [requests EXCEPT ![q] = r],
         UNCHANGED <<tokens, history>>,
         user' \in [exists : BOOLEAN, verified : BOOLEAN],
         mailed' \subseteq Tokens,
         made' \in 0 .. MaxRequests,
         faults' \in 0 .. MaxFaults,
         SessionInv(r), ConfirmationInv(r), ReplacementInv(r),
         \A p \in Requests \ {q} : r.new # NoToken => requests[p].new # r.new
  PROVE  LinksInv'
  <1> USE DEF LinksInv
  <1>0. /\ requests'[q] = r
        /\ \A p \in Requests : p # q => requests'[p] = requests[p]
    OBVIOUS
  <1>1. tokens' = tokens /\ latest' = latest /\ confirmed' = confirmed
        /\ raced' = raced /\ overlapped' = overlapped
    BY DEF history
  <1>2. TypeOK'
    BY <1>1 DEF TypeOK
  <1>3. requests' \in [Requests -> Session]
    BY DEF SessionInv
  <1>4. ASSUME NEW p \in Requests
        PROVE  (SessionInv(requests[p]) /\ ConfirmationInv(requests[p])
                 /\ ReplacementInv(requests[p]))'
    <2>1. CASE p = q
      BY <1>0, <1>1, <2>1 DEF SessionInv, ConfirmationInv, ReplacementInv
    <2>2. CASE p # q
      BY <1>0, <1>1, <2>2 DEF SessionInv, ConfirmationInv, ReplacementInv
    <2> QED
      BY <2>1, <2>2
  <1>5. \A p, o \in Requests :
          p # o /\ requests'[p].new # NoToken => requests'[p].new # requests'[o].new
    BY <1>0
  <1>6. (LinkRowsInv /\ LatestLinkWorks /\ OnlyLatestLinkWorks /\ LinkWorksOnce)'
    BY <1>1 DEF LinkRowsInv, LatestLinkWorks, OnlyLatestLinkWorks, LinkWorksOnce
  <1> QED
    BY <1>2, <1>3, <1>4, <1>5, <1>6

\* A session that is not in use.
LEMMA IdleSession ==
  SessionInv(Idle) /\ ConfirmationInv(Idle) /\ ReplacementInv(Idle) /\ Idle.new = NoToken
  BY DEF SessionInv, ConfirmationInv, ReplacementInv, Idle, Session, StepsLeft,
         VerificationTokenPurpose

\* A request begins.
LEMMA BeginStep ==
  ASSUME LinksInv, NEW q \in Requests,
         \/ Register(q)
         \/ \E p \in VerificationTokenPurpose : RequestLink(q, p)
         \/ \E t \in Tokens : Confirm(q, t)
  PROVE  LinksInv'
  <1> USE DEF LinksInv
  <1>1. ASSUME NEW r, Begin(q, r), SessionInv(r), ConfirmationInv(r), ReplacementInv(r),
               r.new = NoToken
        PROVE  LinksInv'
    <2>1. made' \in 0 .. MaxRequests
      BY <1>1, AccountLinksAssumption DEF Begin, TypeOK, AccountLinksAssumption
    <2> QED
      BY <1>1, <2>1, LocalStep DEF Begin, TypeOK
  <1>2. \A s \in {RegisterSteps, IssueSteps} : s \notin Selected
    BY SelectedIsShort
  <1>3. ~(<<"mail">> = IssueSteps) /\ ~(<<"mail">> = RegisterSteps)
        /\ ~(<<>> = IssueSteps) /\ ~(<<>> = RegisterSteps)
    BY <1>2 DEF Selected
  <1>4. CASE Register(q)
    <2> DEFINE r == [Idle EXCEPT !.op = "register", !.steps = RegisterSteps]
    <2>1. SessionInv(r)
      <3>1. r.op \in DOMAIN StepsLeft /\ r.steps \in StepsLeft[r.op]
        BY StepsOfOperations DEF Idle
      <3>2. r \in Session
        BY <3>1, SessionsHaveTheirSteps DEF Idle, VerificationTokenPurpose
      <3> QED
        BY <1>3, <3>1, <3>2 DEF SessionInv, Idle
    <2>2. ConfirmationInv(r) /\ ReplacementInv(r) /\ r.new = NoToken
      BY <1>2 DEF ConfirmationInv, ReplacementInv, Idle
    <2> QED
      BY <1>1, <1>4, <2>1, <2>2 DEF Register
  <1>5. ASSUME NEW p \in VerificationTokenPurpose, RequestLink(q, p) PROVE LinksInv'
    <2> DEFINE r == [Idle EXCEPT !.op = "issue", !.purpose = p, !.steps = IssueSteps]
    <2>1. SessionInv(r)
      <3>1. r.op \in DOMAIN StepsLeft /\ r.steps \in StepsLeft[r.op]
        BY StepsOfOperations DEF Idle
      <3>2. r \in Session
        BY <3>1, SessionsHaveTheirSteps DEF Idle, VerificationTokenPurpose
      <3> QED
        BY <1>3, <3>1, <3>2 DEF SessionInv, Idle
    <2>2. ConfirmationInv(r) /\ ReplacementInv(r) /\ r.new = NoToken
      BY <1>2 DEF ConfirmationInv, ReplacementInv, Idle
    <2> QED
      BY <1>1, <1>5, <2>1, <2>2 DEF RequestLink
  <1>6. ASSUME NEW t \in Tokens, Confirm(q, t) PROVE LinksInv'
    <2> DEFINE r == [Idle EXCEPT !.op = "confirm", !.purpose = tokens[t].purpose, !.token = t,
                                 !.steps = <<"user", "consume">>]
    <2>1. tokens[t].status = "pending" /\ tokens[t].purpose \in VerificationTokenPurpose
      BY <1>6 DEF Confirm, TypeOK
    <2>2. SessionInv(r)
      <3>1. r.op \in DOMAIN StepsLeft /\ r.steps \in StepsLeft[r.op]
        BY StepsOfOperations DEF Idle
      <3>2. r \in Session
        BY <2>1, <3>1, SessionsHaveTheirSteps DEF Idle, VerificationTokenPurpose
      <3> QED
        BY <2>1, <3>1, <3>2 DEF SessionInv, Idle
    <2>3. ConfirmationInv(r) /\ ReplacementInv(r) /\ r.new = NoToken
      BY <2>1 DEF ConfirmationInv, ReplacementInv, Idle, LinkRowsInv
    <2> QED
      BY <1>1, <1>6, <2>2, <2>3 DEF Confirm
  <1> QED
    BY <1>4, <1>5, <1>6

\* The request is given up: rolled back, refused or lost.
LEMMA RollbackStep ==
  ASSUME LinksInv, NEW q \in Requests, EmailTaken(q) \/ Fail(q)
  PROVE  LinksInv'
  <1>1. Rollback(q) /\ faults' \in 0 .. MaxFaults
    BY AccountLinksAssumption
       DEF EmailTaken, Fail, LinksInv, TypeOK, AccountLinksAssumption
  <1> QED
    BY <1>1, IdleSession, LocalStep DEF Rollback, LinksInv, TypeOK

\* Only two steps are left when a link is inserted, one when it is mailed, none at the end.
LEMMA StagesDiffer ==
  /\ IssueSteps \notin {<<"insert", "mail">>, <<"mail">>, <<>>}
  /\ RegisterSteps \notin {<<"insert", "mail">>, <<"mail">>, <<>>}
  /\ <<"insert", "mail">> \notin {<<"mail">>, <<>>}
  /\ <<"user", "consume">> \notin {<<"insert", "mail">>, <<>>}
  /\ <<"consume">> \notin {<<"insert", "mail">>, <<>>}
  /\ <<"mail">> # <<>>
  BY DEF IssueSteps, RegisterSteps

\* A statement that leaves the new link of the session as it is.
LEMMA StatementStep ==
  ASSUME LinksInv, NEW q \in Requests, NEW r,
         requests' = [requests EXCEPT ![q] = r],
         UNCHANGED <<user, tokens, made, faults, history>>,
         mailed' \subseteq Tokens,
         SessionInv(r), ConfirmationInv(r), ReplacementInv(r),
         r.new \in {requests[q].new} \cup (Tokens \ {requests[p].new : p \in Requests})
  PROVE  LinksInv'
  <1>1. \A p \in Requests \ {q} : r.new # NoToken => requests[p].new # r.new
    BY DEF LinksInv
  <1>2. /\ user' \in [exists : BOOLEAN, verified : BOOLEAN]
        /\ made' \in 0 .. MaxRequests
        /\ faults' \in 0 .. MaxFaults
    BY DEF LinksInv, TypeOK
  <1> QED
    BY <1>1, <1>2, LocalStep

\* The statements of a request that makes a link.
LEMMA IssuingStep ==
  ASSUME LinksInv, NEW q \in Requests,
         CreateUser(q) \/ SelectPending(q) \/ Invalidate(q) \/ InsertLink(q) \/ SendMail(q)
  PROVE  LinksInv'
  <1> USE DEF LinksInv
  <1> DEFINE me == requests[q]
  <1>1. /\ me \in Session /\ SessionInv(me) /\ ConfirmationInv(me) /\ ReplacementInv(me)
        /\ mailed \subseteq Tokens
    BY DEF TypeOK
  <1>2. \A s : s \in Selected <=> s \in {<<"insert", "mail">>, <<"mail">>, <<>>}
    BY DEF Selected
  <1>3. CASE CreateUser(q)
    <2> DEFINE r == [me EXCEPT !.wroteUser = TRUE, !.steps = Tail(@)]
    <2>1. me.op = "register" /\ me.steps = RegisterSteps
      BY <1>1, <1>3, Places DEF CreateUser
    <2>2. r = [me EXCEPT !.wroteUser = TRUE, !.steps = IssueSteps]
      BY <2>1, StepsAreTaken
    <2>3. r \in Session /\ r.steps \in StepsLeft[r.op]
      <3> HIDE DEF LinksInv
      <3>1. r.op = me.op /\ r.steps = IssueSteps
        BY <1>1, <2>2 DEF Session
      <3>2. r.steps \in StepsLeft[r.op]
        BY <3>1, <2>1, StepsOfOperations
      <3>3. r \in [op : DOMAIN StepsLeft, steps : {r.steps}, purpose : VerificationTokenPurpose,
                  token : Tokens \cup {NoToken}, new : Tokens \cup {NoToken},
                  todo : SUBSET Tokens, consumed : SUBSET Tokens, wroteUser : BOOLEAN]
        BY <1>1, <2>2 DEF Session
      <3> QED
        BY <3>2, <3>3, SessionsHaveTheirSteps
    <2>4. SessionInv(r) /\ ConfirmationInv(r) /\ ReplacementInv(r) /\ r.new = me.new
      <3> HIDE DEF LinksInv
      <3>1. r.new = me.new /\ r.op = me.op /\ r.todo = me.todo /\ r.consumed = me.consumed
            /\ r.token = me.token /\ r.purpose = me.purpose /\ r.steps = IssueSteps
        BY <1>1, <2>2 DEF Session
      <3>2. IssueSteps \notin Selected
        BY <1>2, StagesDiffer
      <3> QED
        BY <1>1, <2>1, <2>3, <3>1, <3>2, StagesDiffer
           DEF SessionInv, ConfirmationInv, ReplacementInv
    <2>5. requests' = [requests EXCEPT ![q] = r]
      BY <1>3 DEF CreateUser, Proceed
    <2> HIDE DEF r
    <2> QED
      BY <1>1, <1>3, <2>4, <2>5, StatementStep DEF CreateUser, Proceed
  <1>4. CASE SelectPending(q)
    <2> DEFINE found == {t \in Tokens : tokens[t] = [status |-> "pending", purpose |-> me.purpose]}
               r == [me EXCEPT !.todo = found, !.steps = Tail(@)]
    <2>1. Issuing(q) /\ me.steps = IssueSteps
      BY <1>1, <1>4, Places DEF SelectPending
    <2>2. r = [me EXCEPT !.todo = found, !.steps = <<"insert", "mail">>]
      BY <2>1, StepsAreTaken
    <2>3. \A t \in found : tokens[t].status = "pending" /\ tokens[t].purpose = me.purpose
      OBVIOUS
    <2>4. r \in Session /\ r.steps \in StepsLeft[r.op]
      <3> HIDE DEF LinksInv
      <3>1. r.op = me.op /\ r.steps = <<"insert", "mail">>
        BY <1>1, <2>2 DEF Session
      <3>2. r.steps \in StepsLeft[r.op]
        BY <1>2, <3>1, <2>1, StepsOfOperations DEF Issuing
      <3>3. r \in [op : DOMAIN StepsLeft, steps : {r.steps}, purpose : VerificationTokenPurpose,
                  token : Tokens \cup {NoToken}, new : Tokens \cup {NoToken},
                  todo : SUBSET Tokens, consumed : SUBSET Tokens, wroteUser : BOOLEAN]
        BY <1>1, <2>2 DEF Session
      <3> QED
        BY <3>2, <3>3, SessionsHaveTheirSteps
    <2>5. SessionInv(r) /\ ConfirmationInv(r) /\ ReplacementInv(r) /\ r.new = me.new
      <3> HIDE DEF LinksInv
      <3> QED
        BY <1>1, <1>2, <2>1, <2>2, <2>3, <2>4, StagesDiffer
           DEF SessionInv, ConfirmationInv, ReplacementInv, Session, Issuing
    <2>6. requests' = [requests EXCEPT ![q] = r]
      BY <1>4 DEF SelectPending, Proceed
    <2> HIDE DEF r
    <2> QED
      BY <1>1, <1>4, <2>5, <2>6, StatementStep DEF SelectPending, Proceed
  <1>5. CASE Invalidate(q)
    <2>1. PICK t \in me.todo :
            requests' = [requests EXCEPT ![q].todo = @ \ {t}, ![q].consumed = @ \cup {t}]
      BY <1>5 DEF Invalidate
    <2> DEFINE r == [me EXCEPT !.todo = @ \ {t}, !.consumed = @ \cup {t}]
    <2>2. requests' = [requests EXCEPT ![q] = r]
      BY <2>1
    <2>3. me.steps = <<"insert", "mail">>
      BY <1>1 DEF SessionInv
    <2>4. r \in Session /\ r.steps \in StepsLeft[r.op]
      BY <1>1 DEF Session, SessionInv
    <2>5. me.op # "confirm"
      BY <1>1, <2>3, OperationsOfSteps, StagesDiffer
    <2>6. SessionInv(r) /\ ConfirmationInv(r) /\ ReplacementInv(r) /\ r.new = me.new
      <3> HIDE DEF LinksInv
      <3> QED
        BY <1>1, <2>3, <2>4, <2>5 DEF SessionInv, ConfirmationInv, ReplacementInv, Session
    <2> HIDE DEF r
    <2> QED
      BY <1>1, <1>5, <2>2, <2>6, StatementStep DEF Invalidate
  <1>6. CASE InsertLink(q)
    <2>1. PICK t \in Tokens \ Written :
            /\ \A p \in Requests : requests[p].new # t
            /\ Proceed(q, [me EXCEPT !.new = t])
            /\ UNCHANGED mailed
      BY <1>6 DEF InsertLink
    <2> DEFINE r == [me EXCEPT !.new = t, !.steps = Tail(@)]
    <2>2. Issuing(q) /\ me.steps = <<"insert", "mail">> /\ me.todo = {}
      BY <1>1, <1>6, Places DEF InsertLink, AtStep
    <2>3. r = [me EXCEPT !.new = t, !.steps = <<"mail">>]
      BY <2>2, StepsAreTaken
    <2>4. tokens[t].status = "none" /\ t # NoToken
      BY NoTokenIsNone DEF Written
    <2>5. r \in Session /\ r.steps \in StepsLeft[r.op]
      <3> HIDE DEF LinksInv
      <3>1. r.op = me.op /\ r.steps = <<"mail">>
        BY <1>1, <2>3 DEF Session
      <3>2. r.steps \in StepsLeft[r.op]
        BY <1>2, <3>1, <2>2, StepsOfOperations DEF Issuing
      <3>3. r \in [op : DOMAIN StepsLeft, steps : {r.steps}, purpose : VerificationTokenPurpose,
                  token : Tokens \cup {NoToken}, new : Tokens \cup {NoToken},
                  todo : SUBSET Tokens, consumed : SUBSET Tokens, wroteUser : BOOLEAN]
        BY <1>1, <2>3 DEF Session
      <3> QED
        BY <3>2, <3>3, SessionsHaveTheirSteps
    <2>6. SessionInv(r) /\ ConfirmationInv(r) /\ ReplacementInv(r) /\ r.new = t
      <3> HIDE DEF LinksInv
      <3> QED
        BY <1>1, <1>2, <2>2, <2>3, <2>4, <2>5
           DEF SessionInv, ConfirmationInv, ReplacementInv, Session, Issuing
    <2>7. /\ requests' = [requests EXCEPT ![q] = r]
          /\ UNCHANGED <<user, tokens, made, faults, history>>
      BY <2>1 DEF Proceed
    <2>8. t \in Tokens \ {requests[p].new : p \in Requests}
      BY <2>1
    <2> HIDE DEF r
    <2> QED
      BY <1>1, <2>1, <2>6, <2>7, <2>8, StatementStep
  <1>7. CASE SendMail(q)
    <2> DEFINE r == [me EXCEPT !.steps = Tail(@)]
    <2>1. Issuing(q) /\ me.steps = <<"mail">> /\ me.todo = {}
      BY <1>1, <1>7, Places DEF SendMail, AtStep
    <2>2. r = [me EXCEPT !.steps = <<>>]
      BY <2>1, StepsAreTaken
    <2>3. me.new \in Tokens
      BY <1>1, <2>1 DEF SessionInv, Session, Issuing
    <2>4. r \in Session /\ r.steps \in StepsLeft[r.op]
      <3> HIDE DEF LinksInv
      <3>1. r.op = me.op /\ r.steps = <<>>
        BY <1>1, <2>2 DEF Session
      <3>2. r.steps \in StepsLeft[r.op]
        BY <1>2, <3>1, <2>1, StepsOfOperations DEF Issuing
      <3>3. r \in [op : DOMAIN StepsLeft, steps : {r.steps}, purpose : VerificationTokenPurpose,
                  token : Tokens \cup {NoToken}, new : Tokens \cup {NoToken},
                  todo : SUBSET Tokens, consumed : SUBSET Tokens, wroteUser : BOOLEAN]
        BY <1>1, <2>2 DEF Session
      <3> QED
        BY <3>2, <3>3, SessionsHaveTheirSteps
    <2>5. SessionInv(r) /\ ConfirmationInv(r) /\ ReplacementInv(r) /\ r.new = me.new
      <3> HIDE DEF LinksInv
      <3> QED
        BY <1>1, <1>2, <2>1, <2>2, <2>4
           DEF SessionInv, ConfirmationInv, ReplacementInv, Session, Issuing
    <2>6. mailed' \subseteq Tokens
      BY <1>7, <2>3 DEF SendMail, TypeOK
    <2>7. requests' = [requests EXCEPT ![q] = r]
      BY <1>7 DEF SendMail, Proceed
    <2> HIDE DEF r
    <2> QED
      BY <1>1, <1>7, <2>5, <2>6, <2>7, StatementStep DEF SendMail, Proceed
  <1> QED
    BY <1>3, <1>4, <1>5, <1>6, <1>7

\* The statements of a request that uses a link.
LEMMA ConfirmingStep ==
  ASSUME LinksInv, NEW q \in Requests, WriteUser(q) \/ Consume(q)
  PROVE  LinksInv'
  <1> USE DEF LinksInv
  <1> DEFINE me == requests[q]
  <1>1. /\ me \in Session /\ SessionInv(me) /\ ConfirmationInv(me) /\ ReplacementInv(me)
        /\ mailed \subseteq Tokens
    BY DEF TypeOK
  <1>2. CASE WriteUser(q)
    <2> DEFINE r == [me EXCEPT !.wroteUser = TRUE, !.steps = Tail(@)]
    <2>1. me.op = "confirm" /\ me.steps = <<"user", "consume">>
      BY <1>1, <1>2, Places DEF WriteUser, Confirming
    <2>2. r = [me EXCEPT !.wroteUser = TRUE, !.steps = <<"consume">>]
      BY <2>1, StepsAreTaken
    <2>3. r \in Session /\ r.steps \in StepsLeft[r.op]
      <3> HIDE DEF LinksInv
      <3>1. r.op = me.op /\ r.steps = <<"consume">>
        BY <1>1, <2>2 DEF Session
      <3>2. r.steps \in StepsLeft[r.op]
        BY <3>1, <2>1, StepsOfOperations
      <3>3. r \in [op : DOMAIN StepsLeft, steps : {r.steps}, purpose : VerificationTokenPurpose,
                  token : Tokens \cup {NoToken}, new : Tokens \cup {NoToken},
                  todo : SUBSET Tokens, consumed : SUBSET Tokens, wroteUser : BOOLEAN]
        BY <1>1, <2>2 DEF Session
      <3> QED
        BY <3>2, <3>3, SessionsHaveTheirSteps
    <2>4. SessionInv(r) /\ ConfirmationInv(r) /\ ReplacementInv(r) /\ r.new = me.new
      <3> HIDE DEF LinksInv
      <3> QED
        BY <1>1, <2>1, <2>2, <2>3, StagesDiffer
           DEF SessionInv, ConfirmationInv, ReplacementInv, Session
    <2>5. requests' = [requests EXCEPT ![q] = r]
      BY <1>2 DEF WriteUser, Proceed
    <2> HIDE DEF r
    <2> QED
      BY <1>1, <1>2, <2>4, <2>5, StatementStep DEF WriteUser, Proceed
  <1>3. CASE Consume(q)
    <2> DEFINE r == [me EXCEPT !.consumed = {me.token}, !.steps = Tail(@)]
    <2>1. me.op = "confirm" /\ me.steps = <<"consume">>
      BY <1>1, <1>3, Places DEF Consume, Confirming
    <2>2. r = [me EXCEPT !.consumed = {me.token}, !.steps = <<>>]
      BY <2>1, StepsAreTaken
    <2>3. me.token \in Tokens
      BY <1>1, <2>1 DEF SessionInv
    <2>4. r \in Session /\ r.steps \in StepsLeft[r.op]
      BY <1>1, <2>1, <2>2, <2>3, StepsOfOperations, SessionsHaveTheirSteps DEF Session
    <2>5. SessionInv(r) /\ ConfirmationInv(r) /\ ReplacementInv(r) /\ r.new = me.new
      <3> HIDE DEF LinksInv
      <3> QED
        BY <1>1, <2>1, <2>2, <2>3, <2>4, StagesDiffer
           DEF SessionInv, ConfirmationInv, ReplacementInv, Session
    <2>6. requests' = [requests EXCEPT ![q] = r]
      BY <1>3 DEF Consume, Proceed
    <2> HIDE DEF r
    <2> QED
      BY <1>1, <1>3, <2>5, <2>6, StatementStep DEF Consume, Proceed
  <1> QED
    BY <1>2, <1>3

\* A link expires: what is said of links that work, and of rows that are there, stays true.
LEMMA ExpireStep ==
  ASSUME LinksInv, NEW t \in Tokens, Expire(t)
  PROVE  LinksInv'
  <1> USE DEF LinksInv
  <1>1. /\ tokens[t].status = "pending"
        /\ tokens' = [tokens EXCEPT ![t].status = "expired"]
        /\ UNCHANGED <<user, mailed, requests, made, faults>>
        /\ latest' = latest /\ confirmed' = confirmed /\ raced' = raced
        /\ overlapped' = overlapped
    BY DEF Expire, history
  <1>2. TypeOK'
    BY <1>1 DEF TypeOK
  <1>3. /\ tokens'[t].status = "expired" /\ tokens'[t].purpose = tokens[t].purpose
        /\ \A u \in Tokens : u # t => tokens'[u] = tokens[u]
    BY <1>1 DEF TypeOK
  <1>4. ASSUME NEW q \in Requests
        PROVE  (SessionInv(requests[q]) /\ ConfirmationInv(requests[q])
                 /\ ReplacementInv(requests[q]))'
    <2> DEFINE r == requests[q]
    <2>1. requests'[q] = r /\ SessionInv(r) /\ ConfirmationInv(r) /\ ReplacementInv(r)
          /\ r \in Session
      BY <1>1
    <2>2. r.new # NoToken => r.new # t /\ r.new \in Tokens
      BY <1>1, <2>1 DEF SessionInv, Session
    <2>3. \A u \in r.todo \cup r.consumed : u \in Tokens
      BY <2>1 DEF Session
    <2> HIDE DEF LinksInv, r
    <2>4. SessionInv(requests[q])'
      BY <1>1, <1>3, <2>1, <2>2, <2>3 DEF SessionInv
    <2>5. ConfirmationInv(requests[q])'
      BY <1>1, <2>1 DEF ConfirmationInv
    <2>6. ReplacementInv(requests[q])'
      BY <1>1, <1>3, <2>1 DEF ReplacementInv
    <2> QED
      BY <2>4, <2>5, <2>6
  <1>5. (LinkRowsInv /\ LatestLinkWorks /\ OnlyLatestLinkWorks /\ LinkWorksOnce)'
    <2>1. \A p \in VerificationTokenPurpose : latest[p] \in Tokens \cup {NoToken}
      BY DEF TypeOK
    <2> HIDE DEF LinksInv
    <2>2. LinkRowsInv'
      BY <1>1, <1>3, <2>1 DEF LinksInv, LinkRowsInv
    <2>3. LatestLinkWorks'
      BY <1>1, <1>3, <2>1 DEF LinksInv, LatestLinkWorks
    <2>4. OnlyLatestLinkWorks'
      BY <1>1, <1>3 DEF LinksInv, OnlyLatestLinkWorks
    <2>5. LinkWorksOnce'
      BY <1>1 DEF LinksInv, LinkWorksOnce
    <2> QED
      BY <2>2, <2>3, <2>4, <2>5
  <1>6. requests' = requests
    BY <1>1
  <1> QED
    BY <1>2, <1>4, <1>5, <1>6

\* What a commit does to the rows, whatever the request is.
LEMMA CommittedRows ==
  ASSUME LinksInv, NEW q \in Requests, Commit(q)
  PROVE  LET r == requests[q] IN
         /\ r.op \in {"register", "issue", "confirm"} /\ r.steps = <<>>
         /\ r.new # NoToken <=> r.op \in {"register", "issue"}
         /\ r.new # NoToken => /\ r.new \in Tokens /\ tokens[r.new].status = "none"
                               /\ tokens'[r.new] = [status |-> "pending", purpose |-> r.purpose]
         /\ \A t \in r.consumed : /\ t \in Tokens /\ t # r.new
                                  /\ tokens[t].status # "none"
                                  /\ tokens'[t].status = "consumed"
                                  /\ tokens'[t].purpose = tokens[t].purpose
         /\ \A t \in Tokens \ r.consumed : t # r.new => tokens'[t] = tokens[t]
         /\ tokens' \in [Tokens -> [status : {"none", "pending", "consumed", "expired"},
                                    purpose : VerificationTokenPurpose]]
         /\ \A t \in Tokens : tokens[t].status # "none" =>
              tokens'[t].status # "none" /\ tokens'[t].purpose = tokens[t].purpose
  <1> DEFINE r == requests[q]
  <1>1. /\ r \in Session /\ SessionInv(r)
        /\ tokens \in [Tokens -> [status : {"none", "pending", "consumed", "expired"},
                                  purpose : VerificationTokenPurpose]]
    BY DEF LinksInv, TypeOK
  <1>2. r.op \in {"register", "issue", "confirm"} /\ r.steps = <<>>
    BY <1>1, OperationsOfSteps DEF Commit
  <1>3. r.new # NoToken <=> r.op \in {"register", "issue"}
    BY <1>1, <1>2 DEF SessionInv
  <1>4. r.new # NoToken => r.new \in Tokens /\ tokens[r.new].status = "none"
    BY <1>1 DEF SessionInv, Session
  <1>5. \A t \in r.consumed : t \in Tokens /\ t # r.new /\ tokens[t].status # "none"
    BY <1>1, <1>4, NoTokenIsNone DEF SessionInv, Session
  <1>6. tokens' = [t \in Tokens |->
          CASE t = r.new -> [status |-> "pending", purpose |-> r.purpose]
            [] t \in r.consumed -> [tokens[t] EXCEPT !.status = "consumed"]
            [] OTHER -> tokens[t]]
    BY DEF Commit, TokensAfter
  <1>7. r.new \in Tokens => tokens'[r.new] = [status |-> "pending", purpose |-> r.purpose]
    <2> SUFFICES ASSUME NEW t \in Tokens, t = r.new
                 PROVE  tokens'[t] = [status |-> "pending", purpose |-> r.purpose]
      OBVIOUS
    <2> DEFINE row == CASE t = r.new -> [status |-> "pending", purpose |-> r.purpose]
                        [] t \in r.consumed -> [tokens[t] EXCEPT !.status = "consumed"]
                        [] OTHER -> tokens[t]
    <2>1. tokens'[t] = row
      BY <1>6
    <2>2. t \notin r.consumed
      BY <1>5
    <2>3. row = [status |-> "pending", purpose |-> r.purpose]
      BY <2>2
    <2> QED
      BY <2>1, <2>3
  <1>8. \A t \in r.consumed : tokens'[t] = [tokens[t] EXCEPT !.status = "consumed"]
    BY <1>5, <1>6
  <1>9. \A t \in Tokens \ r.consumed : t # r.new => tokens'[t] = tokens[t]
    <2> SUFFICES ASSUME NEW t \in Tokens, t \notin r.consumed, t # r.new
                 PROVE  tokens'[t] = tokens[t]
      OBVIOUS
    <2> DEFINE row == CASE t = r.new -> [status |-> "pending", purpose |-> r.purpose]
                        [] t \in r.consumed -> [tokens[t] EXCEPT !.status = "consumed"]
                        [] OTHER -> tokens[t]
    <2>1. tokens'[t] = row
      BY <1>6
    <2>2. row = tokens[t]
      OBVIOUS
    <2> QED
      BY <2>1, <2>2
  <1>10. r.purpose \in VerificationTokenPurpose
    BY <1>1 DEF Session
  <1>11. \A t \in r.consumed : /\ tokens'[t].status = "consumed"
                               /\ tokens'[t].purpose = tokens[t].purpose
                               /\ tokens'[t].purpose \in VerificationTokenPurpose
                               /\ tokens'[t] \in [status : {"none", "pending", "consumed", "expired"},
                                                  purpose : VerificationTokenPurpose]
    <2> SUFFICES ASSUME NEW t \in r.consumed
                 PROVE  /\ tokens'[t].status = "consumed"
                        /\ tokens'[t].purpose = tokens[t].purpose
                        /\ tokens'[t].purpose \in VerificationTokenPurpose
                        /\ tokens'[t] \in [status : {"none", "pending", "consumed", "expired"},
                                           purpose : VerificationTokenPurpose]
      OBVIOUS
    <2> DEFINE row == tokens[t]
    <2>1. row \in [status : {"none", "pending", "consumed", "expired"},
                   purpose : VerificationTokenPurpose]
      BY <1>1, <1>5
    <2>2. tokens'[t] = [row EXCEPT !.status = "consumed"]
      BY <1>8
    <2> HIDE DEF row
    <2>3. tokens'[t].status = "consumed" /\ tokens'[t].purpose = row.purpose
      BY <2>1, <2>2
    <2> QED
      BY <2>1, <2>2, <2>3 DEF row
  <1>12. \A t \in Tokens : tokens'[t] \in [status : {"none", "pending", "consumed", "expired"},
                                           purpose : VerificationTokenPurpose]
    BY <1>1, <1>7, <1>9, <1>10, <1>11
  <1>13. tokens' \in [Tokens -> [status : {"none", "pending", "consumed", "expired"},
                                 purpose : VerificationTokenPurpose]]
    <2>1. tokens' = [t \in Tokens |-> tokens'[t]]
      BY <1>6
    <2> QED
      BY <1>12, <2>1
  <1>14. \A t \in Tokens : tokens[t].status # "none" =>
           tokens'[t].status # "none" /\ tokens'[t].purpose = tokens[t].purpose
    BY <1>4, <1>9, <1>11, NoTokenIsNone
  <1> HIDE DEF r
  <1>15. /\ r.new # NoToken => /\ r.new \in Tokens /\ tokens[r.new].status = "none"
                               /\ tokens'[r.new] = [status |-> "pending", purpose |-> r.purpose]
    BY <1>4, <1>7
  <1> QED
    BY <1>2, <1>3, <1>5, <1>9, <1>11, <1>13, <1>14, <1>15 DEF r

\* The row a commit inserts.
LEMMA InsertedRow ==
  ASSUME LinksInv, NEW q \in Requests, Commit(q), requests[q].new # NoToken
  PROVE  /\ requests[q].op \in {"register", "issue"}
         /\ requests[q].new \in Tokens
         /\ tokens'[requests[q].new].status = "pending"
         /\ tokens'[requests[q].new].purpose = requests[q].purpose
  <1>1. tokens'[requests[q].new] = [status |-> "pending", purpose |-> requests[q].purpose]
    BY CommittedRows
  <1>2. requests[q].op \in {"register", "issue"} /\ requests[q].new \in Tokens
    BY CommittedRows
  <1> QED
    BY <1>1, <1>2

\* The rows a commit marks as consumed.
LEMMA ConsumedRows ==
  ASSUME LinksInv, NEW q \in Requests, Commit(q), NEW t \in requests[q].consumed
  PROVE  /\ t \in Tokens /\ t # requests[q].new
         /\ tokens[t].status # "none" /\ tokens'[t].status = "consumed"
  BY CommittedRows

\* What a commit remembers.
LEMMA CommittedHistory ==
  ASSUME LinksInv, NEW q \in Requests, Commit(q)
  PROVE  LET r == requests[q] IN
         /\ r.op # "confirm" => /\ latest' = [latest EXCEPT ![r.purpose] = r.new]
                                /\ confirmed' = confirmed /\ raced' = raced
                                /\ \A p \in Requests \ {q} :
                                     /\ requests[p].op \in {"register", "issue"}
                                     /\ requests[p].steps \in Selected
                                     /\ requests[p].purpose = r.purpose
                                     => r.purpose \in overlapped'
         /\ r.op = "confirm" => /\ latest' = latest
                                /\ confirmed' = [confirmed EXCEPT ![r.token] = @ + 1]
                                /\ overlapped' = overlapped
                                /\ \A p \in Requests \ {q} :
                                     requests[p].op = "confirm" /\ requests[p].token = r.token
                                     => r.token \in raced'
         /\ raced \subseteq raced' /\ raced' \subseteq Tokens
         /\ overlapped \subseteq overlapped' /\ overlapped' \subseteq VerificationTokenPurpose
  <1> DEFINE r == requests[q]
  <1>1. /\ r.op \in {"register", "issue", "confirm"}
        /\ r.purpose \in VerificationTokenPurpose
        /\ r.op = "confirm" => r.token \in Tokens
    BY CommittedRows DEF LinksInv, SessionInv, Session
  <1>2. Record(q)
    BY DEF Commit
  <1>3. \A p \in Requests : requests[p].op \in {"register", "issue"} /\ requests[p].steps \in Selected
                            => HasSelected(p)
    BY SelectedIsShort DEF HasSelected, Issuing
  <1>4. raced \subseteq raced' /\ raced' \subseteq Tokens
        /\ overlapped \subseteq overlapped' /\ overlapped' \subseteq VerificationTokenPurpose
    BY <1>2 DEF Record, LinksInv, TypeOK
  <1>5. CASE r.op # "confirm"
    <2>1. Issuing(q) /\ ~Confirming(q)
      BY <1>1, <1>5 DEF Issuing, Confirming
    <2>2. /\ latest' = [latest EXCEPT ![r.purpose] = r.new]
          /\ confirmed' = confirmed /\ raced' = raced
      BY <1>2, <2>1 DEF Record
    <2>3. \A p \in Requests \ {q} : HasSelected(p) /\ requests[p].purpose = r.purpose
                                    => r.purpose \in overlapped'
      BY <1>1, <1>2, <2>1 DEF Record
    <2> HIDE DEF r
    <2> QED
      BY <1>3, <1>4, <1>5, <2>2, <2>3 DEF r
  <1>6. CASE r.op = "confirm"
    <2>1. ~Issuing(q) /\ Confirming(q)
      BY <1>6 DEF Issuing, Confirming
    <2>2. /\ latest' = latest /\ overlapped' = overlapped
          /\ confirmed' = [confirmed EXCEPT ![r.token] = @ + 1]
      BY <1>2, <2>1 DEF Record
    <2>3. \A p \in Requests \ {q} : Confirming(p) /\ requests[p].token = r.token
                                    => r.token \in raced'
      BY <1>1, <1>2, <1>6, <2>1 DEF Record
    <2> QED
      BY <1>4, <1>6, <2>2, <2>3 DEF Confirming
  <1> QED
    BY <1>5, <1>6

\* A commit leaves the other sessions what they rest on.
LEMMA OthersKeepTheirSessions ==
  ASSUME LinksInv, NEW q \in Requests, Commit(q), NEW p \in Requests \ {q}
  PROVE  (SessionInv(requests[p]) /\ ConfirmationInv(requests[p])
           /\ ReplacementInv(requests[p]))'
  <1> DEFINE r == requests[q]
             o == requests[p]
  <1>1. /\ requests'[p] = o /\ o \in Session
        /\ SessionInv(o) /\ ConfirmationInv(o) /\ ReplacementInv(o)
    BY DEF LinksInv, Commit
  <1>2. o.new # NoToken => o.new # r.new /\ o.new \in Tokens
    BY <1>1 DEF LinksInv, Session
  <1>3. \A t \in o.todo \cup o.consumed : t \in Tokens
    BY <1>1 DEF Session
  <1>4. o.new # NoToken => o.new \notin r.consumed /\ tokens'[o.new] = tokens[o.new]
    <2>1. o.new # NoToken => tokens[o.new].status = "none"
      BY <1>1 DEF SessionInv
    <2>2. o.new # NoToken => o.new \notin r.consumed
      BY <2>1, ConsumedRows
    <2>3. \A t \in Tokens \ r.consumed : t # r.new => tokens'[t] = tokens[t]
      BY CommittedRows
    <2> QED
      BY <1>2, <2>2, <2>3
  <1>5. \A t \in Tokens : tokens[t].status # "none" =>
          tokens'[t].status # "none" /\ tokens'[t].purpose = tokens[t].purpose
    BY CommittedRows
  <1>6. SessionInv(requests[p])'
    <2> HIDE DEF o, r
    <2> QED
      BY <1>1, <1>3, <1>2, <1>4, <1>5 DEF SessionInv
  <1>7. ConfirmationInv(requests[p])'
    <2> SUFFICES ASSUME o.op = "confirm" PROVE confirmed'[o.token] = 0 \/ o.token \in raced'
      BY <1>1 DEF ConfirmationInv
    <2>1. confirmed[o.token] = 0 \/ o.token \in raced
      BY <1>1 DEF ConfirmationInv
    <2>2. raced \subseteq raced'
      BY CommittedHistory
    <2>3. CASE r.op # "confirm"
      BY <2>1, <2>2, <2>3, CommittedHistory
    <2>4. CASE r.op = "confirm" /\ r.token = o.token
      BY <2>4, CommittedHistory
    <2>5. CASE r.op = "confirm" /\ r.token # o.token
      <3>1. confirmed' = [confirmed EXCEPT ![r.token] = @ + 1]
        BY <2>5, CommittedHistory
      <3>2. confirmed \in [Tokens -> Nat] /\ o.token \in Tokens
        BY <1>1 DEF LinksInv, TypeOK, SessionInv
      <3>3. confirmed'[o.token] = confirmed[o.token]
        BY <2>5, <3>1, <3>2
      <3> QED
        BY <2>1, <2>2, <3>3
    <2> QED
      BY <2>3, <2>4, <2>5
  <1>8. ReplacementInv(requests[p])'
    <2> SUFFICES ASSUME o.op \in {"register", "issue"}, o.steps \in Selected,
                        o.purpose \notin overlapped',
                        NEW t \in Tokens,
                        tokens'[t] = [status |-> "pending", purpose |-> o.purpose]
                 PROVE  t \in o.todo \cup o.consumed
      BY <1>1 DEF ReplacementInv
    <2>1. o.purpose \notin overlapped
      BY CommittedHistory
    <2>2. t \notin r.consumed
      <3>1. tokens'[t].status = "pending"
        OBVIOUS
      <3> QED
        BY <3>1, ConsumedRows
    <2>3. t # r.new
      <3> SUFFICES ASSUME t = r.new PROVE FALSE
        OBVIOUS
      <3>1. r.new # NoToken
        BY NoTokenIsNone
      <3>2. r.op \in {"register", "issue"} /\ tokens'[t].purpose = r.purpose
        BY <3>1, InsertedRow
      <3>3. r.purpose = o.purpose
        BY <3>2
      <3>4. r.purpose \in overlapped'
        BY <3>2, <3>3, CommittedHistory
      <3> QED
        BY <3>3, <3>4
    <2>4. tokens'[t] = tokens[t]
      BY <2>2, <2>3, CommittedRows
    <2> QED
      BY <1>1, <2>1, <2>4 DEF ReplacementInv
  <1> QED
    BY <1>6, <1>7, <1>8

\* The link that a commit makes is the only one that works, and a link is used up with the
\* commit that confirms it.
LEMMA CommitStep ==
  ASSUME LinksInv, NEW q \in Requests, Commit(q)
  PROVE  LinksInv'
  <1> DEFINE r == requests[q]
  <1>1. /\ r \in Session /\ SessionInv(r) /\ ConfirmationInv(r) /\ ReplacementInv(r)
        /\ r.purpose \in VerificationTokenPurpose /\ r.new \in Tokens \cup {NoToken}
        /\ r.op \in {"register", "issue", "confirm"} /\ r.steps = <<>>
        /\ r.new # NoToken <=> r.op \in {"register", "issue"}
    BY CommittedRows DEF LinksInv, Session
  <1>2. /\ requests' = [requests EXCEPT ![q] = Idle]
        /\ UNCHANGED <<mailed, made, faults>>
        /\ user' = UserAfter(q)
    BY DEF Commit
  <1>3. TypeOK'
    <2>1. user' \in [exists : BOOLEAN, verified : BOOLEAN]
      BY <1>2 DEF UserAfter, LinksInv, TypeOK
    <2>2. latest' \in [VerificationTokenPurpose -> Tokens \cup {NoToken}]
      BY <1>1, CommittedHistory DEF LinksInv, TypeOK
    <2>3. confirmed' \in [Tokens -> Nat]
      <3>1. confirmed \in [Tokens -> Nat]
        BY DEF LinksInv, TypeOK
      <3>2. confirmed' = confirmed \/ confirmed' = [confirmed EXCEPT ![r.token] = @ + 1]
        BY CommittedHistory
      <3> HIDE DEF r
      <3> QED
        BY <3>1, <3>2
    <2> QED
      BY <1>2, <2>1, <2>2, <2>3, CommittedRows, CommittedHistory DEF LinksInv, TypeOK
  <1>4. requests' \in [Requests -> Session]
    BY <1>2, IdleSession DEF LinksInv, SessionInv
  <1>5. ASSUME NEW p \in Requests
        PROVE  (SessionInv(requests[p]) /\ ConfirmationInv(requests[p])
                 /\ ReplacementInv(requests[p]))'
    <2>1. CASE p # q
      BY <2>1, OthersKeepTheirSessions
    <2>2. CASE p = q
      <3>1. requests'[p] = Idle
        BY <1>2, <2>2 DEF LinksInv
      <3>2. Idle \in Session /\ Idle.steps \in StepsLeft[Idle.op] /\ Idle.op = "none"
            /\ Idle.new = NoToken /\ Idle.todo = {} /\ Idle.consumed = {}
        BY IdleSession DEF SessionInv, Idle
      <3> QED
        BY <3>1, <3>2 DEF SessionInv, ConfirmationInv, ReplacementInv
    <2> QED
      BY <2>1, <2>2
  <1>6. \A p, o \in Requests :
          p # o /\ requests'[p].new # NoToken => requests'[p].new # requests'[o].new
    <2>1. /\ requests'[q].new = NoToken
          /\ \A p \in Requests : p # q => requests'[p] = requests[p]
      BY <1>2, IdleSession DEF LinksInv
    <2> QED
      BY <2>1 DEF LinksInv
  <1>7. LinkRowsInv'
    <2>1. ASSUME NEW t \in Tokens, tokens'[t].status \in {"none", "pending"}
          PROVE  confirmed'[t] = 0
      <3>1. t \notin r.consumed /\ tokens[t].status \in {"none", "pending"}
        BY <2>1, CommittedRows, NoTokenIsNone
      <3>2. confirmed[t] = 0
        BY <3>1 DEF LinksInv, LinkRowsInv
      <3>3. CASE r.op # "confirm"
        BY <3>2, <3>3, CommittedHistory
      <3>4. CASE r.op = "confirm"
        <4>1. r.token \in Tokens /\ r.token # t
          BY <1>1, <3>1, <3>4 DEF SessionInv
        <4> QED
          BY <3>2, <3>4, <4>1, CommittedHistory DEF LinksInv, TypeOK
      <3> QED
        BY <3>3, <3>4
    <2>2. ASSUME NEW p \in VerificationTokenPurpose, latest'[p] # NoToken
          PROVE  tokens'[latest'[p]].status # "none" /\ tokens'[latest'[p]].purpose = p
      <3>1. CASE r.op # "confirm" /\ p = r.purpose
        <4>1. latest'[p] = r.new
          BY <1>1, <3>1, CommittedHistory DEF LinksInv, TypeOK
        <4> QED
          BY <1>1, <3>1, <4>1, InsertedRow
      <3>2. CASE r.op = "confirm" \/ p # r.purpose
        <4>1. latest'[p] = latest[p]
          BY <1>1, <3>2, CommittedHistory DEF LinksInv, TypeOK
        <4>2. latest[p] \in Tokens
          BY <2>2, <4>1 DEF LinksInv, TypeOK
        <4>3. tokens[latest[p]].status # "none" /\ tokens[latest[p]].purpose = p
          BY <2>2, <4>1 DEF LinksInv, LinkRowsInv
        <4> QED
          BY <4>1, <4>2, <4>3, CommittedRows
      <3> QED
        BY <1>1, <3>1, <3>2
    <2> QED
      BY <2>1, <2>2 DEF LinkRowsInv
  <1>8. LatestLinkWorks'
    <2> SUFFICES ASSUME NEW p \in VerificationTokenPurpose, latest'[p] # NoToken,
                        tokens'[latest'[p]].status = "consumed"
                 PROVE  confirmed'[latest'[p]] > 0
      BY DEF LatestLinkWorks
    <2>1. CASE r.op # "confirm" /\ p = r.purpose
      <3>1. latest'[p] = r.new
        BY <1>1, <2>1, CommittedHistory DEF LinksInv, TypeOK
      <3> QED
        BY <1>1, <2>1, <3>1, InsertedRow
    <2>2. CASE r.op # "confirm" /\ p # r.purpose
      <3>1. latest'[p] = latest[p]
        BY <1>1, <2>2, CommittedHistory DEF LinksInv, TypeOK
      <3>2. latest[p] \in Tokens /\ tokens[latest[p]].purpose = p
            /\ tokens[latest[p]].status # "none"
        BY <3>1 DEF LinksInv, TypeOK, LinkRowsInv
      <3>3. latest[p] \notin r.consumed
        BY <1>1, <2>2, <3>2 DEF SessionInv
      <3>4. latest[p] # r.new
        BY <3>2, CommittedRows, NoTokenIsNone
      <3>5. tokens'[latest[p]] = tokens[latest[p]]
        BY <3>2, <3>3, <3>4, CommittedRows
      <3> QED
        BY <2>2, <3>1, <3>5, CommittedHistory DEF LinksInv, LatestLinkWorks
    <2>3. CASE r.op = "confirm"
      <3>1. latest'[p] = latest[p] /\ latest[p] \in Tokens
        BY <2>3, CommittedHistory DEF LinksInv, TypeOK
      <3>2. r.token \in Tokens /\ r.consumed = {r.token} /\ r.new = NoToken
        BY <1>1, <2>3 DEF SessionInv
      <3>3. confirmed' = [confirmed EXCEPT ![r.token] = @ + 1] /\ confirmed \in [Tokens -> Nat]
        BY <2>3, CommittedHistory DEF LinksInv, TypeOK
      <3>4. CASE latest[p] = r.token
        BY <3>1, <3>2, <3>3, <3>4
      <3>5. CASE latest[p] # r.token
        <4>1. tokens'[latest[p]] = tokens[latest[p]]
          BY <3>1, <3>2, <3>5, CommittedRows, NoTokenIsNone
        <4>2. confirmed[latest[p]] > 0
          BY <3>1, <4>1 DEF LinksInv, LatestLinkWorks
        <4> QED
          BY <3>1, <3>2, <3>3, <3>5, <4>2
      <3> QED
        BY <3>4, <3>5
    <2> QED
      BY <2>1, <2>2, <2>3
  <1>9. OnlyLatestLinkWorks'
    <2> SUFFICES ASSUME NEW t \in Tokens, NEW u \in Tokens,
                        tokens'[t].status = "pending", tokens'[u].status = "pending",
                        tokens'[t].purpose = tokens'[u].purpose,
                        tokens'[t].purpose \notin overlapped'
                 PROVE  t = u
      BY DEF OnlyLatestLinkWorks
    <2>1. tokens'[t].purpose \notin overlapped
      BY CommittedHistory
    <2>2. ASSUME NEW x \in Tokens, tokens'[x].status = "pending", x # r.new
          PROVE  x \notin r.consumed /\ tokens'[x] = tokens[x]
      BY <2>2, CommittedRows
    <2>3. ASSUME NEW x \in Tokens, NEW y \in Tokens, x = r.new, y # r.new,
                 tokens'[y].status = "pending", tokens'[x].purpose = tokens'[y].purpose,
                 tokens'[x].purpose \notin overlapped
          PROVE  FALSE
      <3>1. r.op \in {"register", "issue"} /\ tokens'[x].purpose = r.purpose
        BY <1>1, <2>3, InsertedRow, NoTokenIsNone
      <3>2. tokens[y].status = "pending" /\ tokens[y].purpose = r.purpose /\ y \notin r.consumed
        BY <2>2, <2>3, <3>1
      <3>3. tokens[y] = [status |-> "pending", purpose |-> r.purpose]
        BY <3>2 DEF LinksInv, TypeOK
      <3>4. r.steps \in Selected /\ r.todo = {}
        BY <1>1, StagesDiffer DEF Selected, SessionInv
      <3> QED
        BY <1>1, <2>3, <3>1, <3>2, <3>3, <3>4 DEF ReplacementInv
    <2>4. CASE t # r.new /\ u # r.new
      BY <2>1, <2>2, <2>4 DEF LinksInv, OnlyLatestLinkWorks
    <2>5. CASE t = r.new \/ u = r.new
      BY <2>1, <2>3, <2>5
    <2> QED
      BY <2>4, <2>5
  <1>10. LinkWorksOnce'
    <2> SUFFICES ASSUME NEW t \in Tokens, confirmed'[t] > 1 PROVE t \in raced'
      BY DEF LinkWorksOnce
    <2>1. raced \subseteq raced'
      BY CommittedHistory
    <2>2. CASE r.op # "confirm"
      BY <2>1, <2>2, CommittedHistory DEF LinksInv, LinkWorksOnce
    <2>3. CASE r.op = "confirm"
      <3>1. confirmed' = [confirmed EXCEPT ![r.token] = @ + 1] /\ confirmed \in [Tokens -> Nat]
        BY <2>3, CommittedHistory DEF LinksInv, TypeOK
      <3>2. CASE t # r.token
        <4>1. confirmed[t] > 1
          BY <3>1, <3>2
        <4> QED
          BY <2>1, <4>1 DEF LinksInv, LinkWorksOnce
      <3>3. CASE t = r.token
        <4>1. confirmed[t] # 0
          BY <3>1, <3>3
        <4> QED
          BY <1>1, <2>1, <2>3, <3>3, <4>1 DEF ConfirmationInv
      <3> QED
        BY <3>2, <3>3
    <2> QED
      BY <2>2, <2>3
  <1> QED
    BY <1>3, <1>4, <1>5, <1>6, <1>7, <1>8, <1>9, <1>10 DEF LinksInv

\* The invariant holds before anybody has signed up, and every step keeps it.
THEOREM LinksAreInvariant == Spec => []LinksInv
  <1>1. Init => LinksInv
    <2> SUFFICES ASSUME Init PROVE LinksInv
      OBVIOUS
    <2>1. TypeOK
      BY AccountLinksAssumption
         DEF Init, TypeOK, AccountLinksAssumption, VerificationTokenPurpose
    <2>2. \A t \in Tokens : tokens[t].status = "none"
      BY DEF Init
    <2>3. \A q \in Requests : requests[q] = Idle
      BY DEF Init
    <2>4. /\ requests \in [Requests -> Session]
          /\ \A q \in Requests : SessionInv(requests[q]) /\ ConfirmationInv(requests[q])
                                   /\ ReplacementInv(requests[q])
          /\ \A q \in Requests : requests[q].new = NoToken
      BY <2>3, IdleSession DEF Init, SessionInv
    <2>5. LinkRowsInv /\ LatestLinkWorks /\ LinkWorksOnce
      BY DEF Init, LinkRowsInv, LatestLinkWorks, LinkWorksOnce
    <2>6. OnlyLatestLinkWorks
      BY <2>2 DEF OnlyLatestLinkWorks
    <2> QED
      BY <2>1, <2>4, <2>5, <2>6 DEF LinksInv
  <1>2. LinksInv /\ [Next]_vars => LinksInv'
    <2> SUFFICES ASSUME LinksInv, [Next]_vars PROVE LinksInv'
      OBVIOUS
    <2>1. CASE UNCHANGED vars
      BY <2>1 DEF vars, history, LinksInv, TypeOK, SessionInv, ConfirmationInv, ReplacementInv,
                  LinkRowsInv, LatestLinkWorks, OnlyLatestLinkWorks, LinkWorksOnce
    <2>2. CASE Next
      BY <2>2, BeginStep, RollbackStep, IssuingStep, ConfirmingStep, CommitStep, ExpireStep
         DEF Next
    <2> QED
      BY <2>1, <2>2
  <1> QED
    BY <1>1, <1>2, PTL DEF Spec

\* The user, the rows and the sessions keep their types.
THEOREM TypeCorrect == Spec => []TypeOK
  <1>1. LinksInv => TypeOK
    BY DEF LinksInv
  <1> QED
    BY <1>1, LinksAreInvariant, PTL

\* Nothing but its use takes the newest link away.
THEOREM NewestLinkStays == Spec => []LatestLinkWorks
  <1>1. LinksInv => LatestLinkWorks
    BY DEF LinksInv
  <1> QED
    BY <1>1, LinksAreInvariant, PTL

\* Unless two requests overlapped, one link per purpose works.
THEOREM OneLinkWorks == Spec => []OnlyLatestLinkWorks
  <1>1. LinksInv => OnlyLatestLinkWorks
    BY DEF LinksInv
  <1> QED
    BY <1>1, LinksAreInvariant, PTL

\* Unless two confirmations overlapped, a link is honoured once.
THEOREM LinksAreUsedOnce == Spec => []LinkWorksOnce
  <1>1. LinksInv => LinkWorksOnce
    BY DEF LinksInv
  <1> QED
    BY <1>1, LinksAreInvariant, PTL
=============================================================================
