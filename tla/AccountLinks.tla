---------------------------- MODULE AccountLinks ----------------------------
(***************************************************************************)
(* Sign-up with one email address, and the links that are mailed to it: to *)
(* verify the address and to reset the password. A link is a row of        *)
(* user_verification_tokens; a new one is to replace those before it, and  *)
(* each is to work once.                                                   *)
(*                                                                         *)
(* As in AuthSessions a request is a transaction at READ COMMITTED and a   *)
(* step one statement. What a reset does to sessions is said there.        *)
(***************************************************************************)
EXTENDS Naturals, Sequences, FiniteSets

CONSTANTS
  MaxTokens,    \* bound: links that may be made
  Requests,     \* requests that may be in progress at a time
  MaxRequests,  \* bound: requests that are made
  MaxFaults     \* bound: requests that fail between two statements

ASSUME AccountLinksAssumption ==
  /\ MaxTokens \in Nat
  /\ MaxRequests \in Nat
  /\ MaxFaults \in Nat

Tokens == 1 .. MaxTokens

NoToken == 0

VerificationTokenPurpose == {"EMAIL_VERIFICATION", "PASSWORD_RESET"}

VARIABLES
  user,        \* the users row with the address
  tokens,      \* the user_verification_tokens rows
  mailed,      \* the links that were sent
  requests,    \* the session and the remaining statements of each request
  made,
  faults,
  latest,      \* history: the link of each purpose that was committed last
  confirmed,   \* history: how many confirmations of a link were committed
  raced,       \* history: links two confirmations of which overlapped
  overlapped   \* history: purposes for which two links were made at a time

history == <<latest, confirmed, raced, overlapped>>

vars == <<user, tokens, mailed, requests, made, faults, history>>

Idle ==
  [op |-> "none", steps |-> <<>>, purpose |-> "EMAIL_VERIFICATION", token |-> NoToken,
   new |-> NoToken, todo |-> {}, consumed |-> {}, wroteUser |-> FALSE]

Init ==
  /\ user = [exists |-> FALSE, verified |-> FALSE]
  /\ tokens = [t \in Tokens |-> [status |-> "none", purpose |-> "EMAIL_VERIFICATION"]]
  /\ mailed = {}
  /\ requests = [q \in Requests |-> Idle]
  /\ made = 0
  /\ faults = 0
  /\ latest = [p \in VerificationTokenPurpose |-> NoToken]
  /\ confirmed = [t \in Tokens |-> 0]
  /\ raced = {}
  /\ overlapped = {}

Issuing(q) == requests[q].op \in {"register", "issue"}

Confirming(q) == requests[q].op = "confirm"

Written == {t \in Tokens : tokens[t].status # "none"}

(***************************************************************************)
(* The requests.                                                           *)
(***************************************************************************)
Begin(q, request) ==
  /\ requests[q].op = "none"
  /\ made < MaxRequests
  /\ made' = made + 1
  /\ requests' = [requests EXCEPT ![q] = request]
  /\ UNCHANGED <<user, tokens, mailed, faults, history>>

\* Bound: a name is left for the link of each request that makes one.
NameLeft ==
  Cardinality(Written \cup mailed) + Cardinality({q \in Requests : Issuing(q)}) < MaxTokens

IssueSteps == <<"select", "insert", "mail">>

RegisterSteps == <<"create", "select", "insert", "mail">>

\* The lookup of the address has found nobody.
Register(q) ==
  /\ ~user.exists
  /\ NameLeft
  /\ Begin(q, [Idle EXCEPT !.op = "register", !.steps = RegisterSteps])

\* request_password_reset, and request_email_verification of a user not yet verified.
RequestLink(q, p) ==
  /\ user.exists
  /\ p = "EMAIL_VERIFICATION" => ~user.verified
  /\ NameLeft
  /\ Begin(q, [Idle EXCEPT !.op = "issue", !.purpose = p, !.steps = IssueSteps])

\* Mutant of Confirm: get_valid_by_hashed_token does not look at consumed_at.
Confirm_Consumed(q, t) ==
  /\ t \in mailed
  /\ tokens[t].status \in {"pending", "consumed"}
  /\ Begin(q, [Idle EXCEPT !.op = "confirm", !.purpose = tokens[t].purpose, !.token = t,
                           !.steps = <<"user", "consume">>])

\* confirm_email_verification, confirm_password_reset: the link is valid when it is read.
Confirm(q, t) ==
  /\ t \in mailed
  /\ tokens[t].status = "pending"
  /\ Begin(q, [Idle EXCEPT !.op = "confirm", !.purpose = tokens[t].purpose, !.token = t,
                           !.steps = <<"user", "consume">>])

(***************************************************************************)
(* The statements.                                                         *)
(***************************************************************************)
AtStep(q, step) ==
  /\ requests[q].steps # <<>>
  /\ Head(requests[q].steps) = step
  /\ requests[q].todo = {}

Proceed(q, request) ==
  /\ requests' = [requests EXCEPT ![q] = [request EXCEPT !.steps = Tail(@)]]
  /\ UNCHANGED <<user, tokens, made, faults, history>>

Rollback(q) ==
  /\ requests' = [requests EXCEPT ![q] = Idle]
  /\ UNCHANGED <<user, tokens, mailed, made, history>>

UserLocked == \E p \in Requests : requests[p].wroteUser

TokenLocked(t) == \E p \in Requests : t \in requests[p].consumed

\* The INSERT waits for one of the same address that is not committed.
CreateUser(q) ==
  /\ AtStep(q, "create")
  /\ ~user.exists
  /\ ~UserLocked
  /\ Proceed(q, [requests[q] EXCEPT !.wroteUser = TRUE])
  /\ UNCHANGED mailed

\* The address is UNIQUE: IntegrityError.
EmailTaken(q) ==
  /\ AtStep(q, "create")
  /\ user.exists
  /\ Rollback(q)
  /\ UNCHANGED faults

\* Mutant of SelectPending: older links are not looked for.
SelectPending_Nothing(q) ==
  /\ AtStep(q, "select")
  /\ Proceed(q, requests[q])
  /\ UNCHANGED mailed

\* The SELECT of invalidate_pending_for_user.
SelectPending(q) ==
  /\ AtStep(q, "select")
  /\ Proceed(q, [requests[q] EXCEPT !.todo =
       {t \in Tokens : tokens[t] = [status |-> "pending", purpose |-> requests[q].purpose]}])
  /\ UNCHANGED mailed

\* Mutant of Invalidate: each link is invalidated in a transaction of its own.
Invalidate_Commits(q) ==
  /\ \E t \in requests[q].todo :
       /\ ~TokenLocked(t)
       /\ tokens' = [tokens EXCEPT ![t].status = "consumed"]
       /\ requests' = [requests EXCEPT ![q].todo = @ \ {t}]
  /\ UNCHANGED <<user, mailed, made, faults, history>>

\* One UPDATE of its flush, in the order of the keys.
Invalidate(q) ==
  /\ \E t \in requests[q].todo :
       /\ \A u \in requests[q].todo : t <= u
       /\ ~TokenLocked(t)
       /\ requests' = [requests EXCEPT ![q].todo = @ \ {t}, ![q].consumed = @ \cup {t}]
  /\ UNCHANGED <<user, tokens, mailed, made, faults, history>>

InsertLink(q) ==
  /\ AtStep(q, "insert")
  /\ \E t \in Tokens \ Written :
       /\ \A p \in Requests : requests[p].new # t
       /\ t \notin mailed
       /\ Proceed(q, [requests[q] EXCEPT !.new = t])
  /\ UNCHANGED mailed

\* The mail is sent before the commit.
SendMail(q) ==
  /\ AtStep(q, "mail")
  /\ mailed' = mailed \cup {requests[q].new}
  /\ Proceed(q, requests[q])

\* mark_email_verified, set_password.
WriteUser(q) ==
  /\ AtStep(q, "user")
  /\ ~UserLocked
  /\ Proceed(q, [requests[q] EXCEPT !.wroteUser = TRUE])
  /\ UNCHANGED mailed

\* Waits for the lock and then overwrites consumed_at.
Consume(q) ==
  /\ AtStep(q, "consume")
  /\ ~TokenLocked(requests[q].token)
  /\ Proceed(q, [requests[q] EXCEPT !.consumed = {requests[q].token}])
  /\ UNCHANGED mailed

(***************************************************************************)
(* The end of a request.                                                   *)
(***************************************************************************)
UserAfter(q) ==
  CASE requests[q].op = "register" -> [exists |-> TRUE, verified |-> FALSE]
    [] Confirming(q) /\ requests[q].purpose = "EMAIL_VERIFICATION" ->
         [user EXCEPT !.verified = TRUE]
    [] OTHER -> user

TokensAfter(q) ==
  [t \in Tokens |->
     CASE t = requests[q].new -> [status |-> "pending", purpose |-> requests[q].purpose]
       [] t \in requests[q].consumed -> [tokens[t] EXCEPT !.status = "consumed"]
       [] OTHER -> tokens[t]]

\* A request that has looked for older links, and will not see those committed from now on.
HasSelected(p) == Issuing(p) /\ Len(requests[p].steps) < Len(IssueSteps)

Record(q) ==
  LET r == requests[q]
      others == Requests \ {q} IN
  /\ latest' = IF Issuing(q) THEN [latest EXCEPT ![r.purpose] = r.new] ELSE latest
  /\ confirmed' = IF Confirming(q) THEN [confirmed EXCEPT ![r.token] = @ + 1] ELSE confirmed
  /\ raced' = raced \cup {t \in Tokens :
       /\ Confirming(q) /\ t = r.token
       /\ \E p \in others : Confirming(p) /\ requests[p].token = t}
  /\ overlapped' = overlapped \cup {p \in VerificationTokenPurpose :
       /\ Issuing(q) /\ p = r.purpose
       /\ \E o \in others : HasSelected(o) /\ requests[o].purpose = p}

Commit(q) ==
  /\ requests[q].op # "none" /\ requests[q].steps = <<>>
  /\ user' = UserAfter(q)
  /\ tokens' = TokensAfter(q)
  /\ Record(q)
  /\ requests' = [requests EXCEPT ![q] = Idle]
  /\ UNCHANGED <<mailed, made, faults>>

\* An exception, a weak password, a process that dies. What was mailed is mailed.
Fail(q) ==
  /\ requests[q].op # "none"
  /\ faults < MaxFaults
  /\ faults' = faults + 1
  /\ Rollback(q)

\* expires_at passes.
Expire(t) ==
  /\ tokens[t].status = "pending"
  /\ tokens' = [tokens EXCEPT ![t].status = "expired"]
  /\ UNCHANGED <<user, mailed, requests, made, faults, history>>

Next ==
  \/ \E q \in Requests :
       \/ Register(q)
       \/ \E p \in VerificationTokenPurpose : RequestLink(q, p)
       \/ \E t \in Tokens : Confirm(q, t)
       \/ CreateUser(q) \/ EmailTaken(q)
       \/ SelectPending(q) \/ Invalidate(q) \/ InsertLink(q) \/ SendMail(q)
       \/ WriteUser(q) \/ Consume(q)
       \/ Commit(q) \/ Fail(q)
  \/ \E t \in Tokens : Expire(t)

Spec == Init /\ [][Next]_vars

-----------------------------------------------------------------------------
(***************************************************************************)
(* Properties.                                                             *)
(***************************************************************************)
TypeOK ==
  /\ user \in [exists : BOOLEAN, verified : BOOLEAN]
  /\ tokens \in [Tokens -> [status : {"none", "pending", "consumed", "expired"},
                            purpose : VerificationTokenPurpose]]
  /\ mailed \subseteq Tokens
  /\ made \in 0 .. MaxRequests
  /\ faults \in 0 .. MaxFaults
  /\ latest \in [VerificationTokenPurpose -> Tokens \cup {NoToken}]
  /\ confirmed \in [Tokens -> Nat]
  /\ raced \subseteq Tokens
  /\ overlapped \subseteq VerificationTokenPurpose

\* The statements that may be left of a request.
Selected == {<<"insert", "mail">>, <<"mail">>, <<>>}

StepsLeft ==
  [none     |-> {<<>>},
   register |-> Selected \cup {IssueSteps, RegisterSteps},
   issue    |-> Selected \cup {IssueSteps},
   confirm  |-> {<<"user", "consume">>, <<"consume">>, <<>>}]

Session ==
  [op : DOMAIN StepsLeft, steps : UNION {StepsLeft[op] : op \in DOMAIN StepsLeft},
   purpose : VerificationTokenPurpose, token : Tokens \cup {NoToken},
   new : Tokens \cup {NoToken}, todo : SUBSET Tokens, consumed : SUBSET Tokens,
   wroteUser : BOOLEAN]

\* A session has the links it is about, and its new link is in no table yet.
SessionInv(r) ==
  /\ r \in Session
  /\ r.steps \in StepsLeft[r.op]
  /\ r.new # NoToken <=> r.op \in {"register", "issue"} /\ r.steps \in {<<"mail">>, <<>>}
  /\ r.new # NoToken => tokens[r.new].status = "none"
  /\ r.todo # {} => r.steps = <<"insert", "mail">>
  /\ \A t \in r.todo \cup r.consumed : tokens[t].status # "none"
  /\ r.op \in {"register", "issue"} =>
       \A t \in r.todo \cup r.consumed : tokens[t].purpose = r.purpose
  /\ r.op = "confirm" =>
       /\ r.token \in Tokens
       /\ tokens[r.token].status # "none"
       /\ r.consumed \subseteq {r.token}
       /\ r.steps = <<>> => r.consumed = {r.token}

\* A confirmation in progress is the first of its link, or is known to have raced.
ConfirmationInv(r) ==
  r.op = "confirm" => confirmed[r.token] = 0 \/ r.token \in raced

\* A request that replaces links has every link that works, or was overlapped.
ReplacementInv(r) ==
  r.op \in {"register", "issue"} /\ r.steps \in Selected /\ r.purpose \notin overlapped =>
    \A t \in Tokens :
      tokens[t] = [status |-> "pending", purpose |-> r.purpose] => t \in r.todo \cup r.consumed

LinkRowsInv ==
  /\ \A t \in Tokens : tokens[t].status \in {"none", "pending"} => confirmed[t] = 0
  /\ \A p \in VerificationTokenPurpose : latest[p] # NoToken =>
       tokens[latest[p]].status # "none" /\ tokens[latest[p]].purpose = p

\* The link that was committed last is never invalidated by anything but its own use: a
\* request that replaces links does so together with the new one, or not at all.
LatestLinkWorks ==
  \A p \in VerificationTokenPurpose :
    latest[p] # NoToken /\ tokens[latest[p]].status = "consumed"
      => confirmed[latest[p]] > 0

\* Of the links for one purpose only one can be used, unless a link was committed after
\* another request had looked for those it was to invalidate.
OnlyLatestLinkWorks ==
  \A t, u \in Tokens :
    /\ tokens[t].status = "pending" /\ tokens[u].status = "pending"
    /\ tokens[t].purpose = tokens[u].purpose
    /\ tokens[t].purpose \notin overlapped
    => t = u

\* A link is honoured once, unless two confirmations of it overlapped.
LinkWorksOnce ==
  \A t \in Tokens : confirmed[t] > 1 => t \in raced

\* The inductive invariant.
LinksInv ==
  /\ TypeOK
  /\ requests \in [Requests -> Session]
  /\ \A q \in Requests :
       SessionInv(requests[q]) /\ ConfirmationInv(requests[q]) /\ ReplacementInv(requests[q])
  /\ \A p, q \in Requests : p # q /\ requests[p].new # NoToken => requests[p].new # requests[q].new
  /\ LinkRowsInv
  /\ LatestLinkWorks /\ OnlyLatestLinkWorks /\ LinkWorksOnce
=============================================================================
