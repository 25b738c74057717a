---------------------------- MODULE RedisGuards -----------------------------
(***************************************************************************)
(* What the API keeps in Redis: the counter of one client at one endpoint  *)
(* (rate_limit) and the denylist entry of one access token (logout).       *)
(*                                                                         *)
(* Time passes in ticks, some to a second. No clock is kept: a key has the *)
(* ticks that are left to it, a token those to its exp, and a request that *)
(* was admitted its age. Counts beyond the limit are the same to the code, *)
(* so the counter stops at MaxRequests + 2, and nothing has to be bounded. *)
(***************************************************************************)
EXTENDS Naturals, FiniteSets, FiniteSetsExt

CONSTANTS
  TicksPerSecond,
  Window,       \* window_seconds
  MaxRequests,  \* max_requests
  Lifetime,     \* seconds an access token is issued for
  Requests      \* requests of the client that may be in progress at a time

ASSUME RedisGuardsAssumption ==
  /\ {TicksPerSecond, Window, MaxRequests, Lifetime} \subseteq Nat \ {0}

Ticks(seconds) == seconds * TicksPerSecond

\* A key without a TTL.
Persistent == Ticks(Window) + 1

VARIABLES
  counter,   \* the value of the key of the client, 0 if there is none, and its TTL
  requests,  \* where each request is in the dependency
  admitted,  \* history: how many requests were admitted each number of ticks ago
  token,     \* ticks to the exp of the access token, and whether logout was answered
  logout,    \* the TTL a logout in progress has computed
  denied     \* ticks to the end of the denylist entry, 0 if there is none

vars == <<counter, requests, admitted, token, logout, denied>>

limiter == <<counter, requests, admitted>>

denylist == <<token, logout, denied>>

NoKey == [value |-> 0, ttl |-> Persistent]

NoLogout == [asked |-> FALSE, ttl |-> 0]

\* exp is cut to whole seconds.
NewToken(part) == [left |-> Ticks(Lifetime) - part, out |-> FALSE]

Parts == 0 .. TicksPerSecond - 1

Init ==
  /\ counter = NoKey
  /\ requests = [q \in Requests |-> "none"]
  /\ admitted = [a \in 0 .. Ticks(Window) - 1 |-> 0]
  /\ token \in {NewToken(part) : part \in Parts}
  /\ logout = NoLogout
  /\ denied = 0

(***************************************************************************)
(* rate_limit.                                                             *)
(***************************************************************************)
\* Mutant of Exceeds: one request more is let through.
Exceeds_Next(current) == current > MaxRequests + 1

Exceeds(current) == current > MaxRequests

Answer(q, current) ==
  /\ requests' = [requests EXCEPT ![q] = "none"]
  /\ admitted' = IF Exceeds(current) THEN admitted ELSE [admitted EXCEPT ![0] = @ + 1]

\* Mutant of Incr: every request sets the TTL of the key.
Incr_EveryTime(q) ==
  LET current == Min({counter.value + 1, MaxRequests + 2}) IN
  /\ requests[q] = "none"
  /\ counter' = [value |-> current, ttl |-> Ticks(Window)]
  /\ Answer(q, current)
  /\ UNCHANGED denylist

\* INCR; only the request that has created the key sets its TTL.
Incr(q) ==
  LET current == Min({counter.value + 1, MaxRequests + 2}) IN
  /\ requests[q] = "none"
  /\ counter' = [counter EXCEPT !.value = current]
  /\ IF current = 1
       THEN requests' = [requests EXCEPT ![q] = "expire"] /\ UNCHANGED admitted
       ELSE Answer(q, current)
  /\ UNCHANGED denylist

Expire(q) ==
  /\ requests[q] = "expire"
  /\ counter' = [counter EXCEPT !.ttl = Ticks(Window)]
  /\ Answer(q, 1)
  /\ UNCHANGED denylist

\* The process dies or the connection is lost after INCR; EXPIRE may have been executed.
Fail(q) ==
  /\ requests[q] = "expire"
  /\ \/ UNCHANGED counter
     \/ counter' = [counter EXCEPT !.ttl = Ticks(Window)]
  /\ requests' = [requests EXCEPT ![q] = "none"]
  /\ UNCHANGED <<admitted, denylist>>

(***************************************************************************)
(* The access token.                                                       *)
(***************************************************************************)
\* get_access_token_payload: not expired, and not on the denylist.
Accepted == token.left > 0 /\ denied = 0

\* The user logs in again.
Login ==
  /\ token.left = 0
  /\ ~logout.asked
  /\ \E part \in Parts : token' = NewToken(part)
  /\ UNCHANGED <<limiter, logout, denied>>

\* Mutant of Logout: the lifetime is rounded to minutes, here to steps of two seconds.
Logout_Coarse ==
  /\ ~logout.asked
  /\ logout' = [asked |-> TRUE, ttl |-> 2 * (token.left \div Ticks(2))]
  /\ UNCHANGED <<limiter, token, denied>>

\* int(exp - time.time()) at the end of a logout, which was accepted when it came: since
\* then the token may have expired, or another logout of it may have ended.
Logout ==
  /\ ~logout.asked
  /\ logout' = [asked |-> TRUE, ttl |-> token.left \div TicksPerSecond]
  /\ UNCHANGED <<limiter, token, denied>>

\* deny_token; the request is answered.
Deny ==
  /\ logout.asked
  /\ denied' = IF logout.ttl > 0 THEN Ticks(logout.ttl) ELSE denied
  /\ logout' = NoLogout
  /\ token' = [token EXCEPT !.out = TRUE]
  /\ UNCHANGED limiter

\* Redis is not reached: logout answers with an error.
DenyFails ==
  /\ logout.asked
  /\ logout' = NoLogout
  /\ UNCHANGED <<limiter, token, denied>>

(***************************************************************************)
(* Time.                                                                   *)
(***************************************************************************)
Less(left) == IF left > 0 THEN left - 1 ELSE 0

Tick ==
  /\ counter' = CASE counter.ttl = Persistent -> counter
                  [] counter.ttl = 1 -> NoKey
                  [] OTHER -> [counter EXCEPT !.ttl = @ - 1]
  /\ admitted' = [a \in DOMAIN admitted |-> IF a = 0 THEN 0 ELSE admitted[a - 1]]
  /\ token' = [token EXCEPT !.left = Less(@)]
  /\ denied' = Less(denied)
  /\ UNCHANGED <<requests, logout>>

Next ==
  \/ \E q \in Requests : Incr(q) \/ Expire(q) \/ Fail(q)
  \/ Login \/ Logout \/ Deny \/ DenyFails
  \/ Tick

\* Time passes, and a request that has begun goes on.
Spec ==
  /\ Init /\ [][Next]_vars
  /\ WF_vars(Tick)
  /\ \A q \in Requests : WF_vars(Expire(q) \/ Fail(q))

-----------------------------------------------------------------------------
(***************************************************************************)
(* Properties.                                                             *)
(***************************************************************************)
TypeOK ==
  /\ counter \in [value : 0 .. MaxRequests + 2, ttl : 1 .. Persistent]
  /\ requests \in [Requests -> {"none", "expire"}]
  /\ admitted \in [0 .. Ticks(Window) - 1 -> Nat]
  /\ token \in [left : 0 .. Ticks(Lifetime), out : BOOLEAN]
  /\ logout \in [asked : BOOLEAN, ttl : 0 .. Lifetime]
  /\ denied \in 0 .. Ticks(Lifetime)

\* The denylist entry, or the one a logout is about to set, ends at most a second before
\* the token does.
DenylistInv ==
  /\ TypeOK
  /\ token.out => token.left < denied + TicksPerSecond
  /\ logout.asked => token.left < Ticks(logout.ttl) + TicksPerSecond

\* The requests that were admitted at some ages, each with its number at its age.
Admissions(numbers, ages) == UNION {{a} \X (1 .. numbers[a]) : a \in ages}

\* A client gets at most two budgets into any span of window_seconds: the end of one
\* window and the beginning of the next, however late EXPIRE is.
TwoBudgetsAWindow ==
  Cardinality(Admissions(admitted, DOMAIN admitted)) <= 2 * MaxRequests

\* A request has created the key, and has still to set its TTL.
Creating == \E q \in Requests : requests[q] = "expire"

\* The last k ticks are those of the key that is there, or of none. What was admitted
\* before them belongs to the key before: a key that goes has lasted for a whole window.
BudgetsSplitAt(k) ==
  /\ \A budget \in {counter.value, MaxRequests} :
       Cardinality(Admissions(admitted, 0 .. k - 1)) + (IF Creating THEN 1 ELSE 0) <= budget
  /\ Cardinality(Admissions(admitted, k .. Ticks(Window) - 1)) <= MaxRequests
  /\ IF counter.value = 0 THEN k = 0 ELSE k > 0 /\ k + counter.ttl > Ticks(Window)

\* What holds of the counter and of the requests it has admitted.
BudgetInv ==
  /\ TypeOK
  /\ IsFiniteSet(Admissions(admitted, DOMAIN admitted))
  /\ counter.value = 0 => counter.ttl = Persistent /\ admitted[0] = 0 /\ ~Creating
  /\ Creating => counter.ttl = Persistent
  /\ \A p, q \in Requests : requests[p] = "expire" /\ requests[q] = "expire" => p = q
  /\ \E k \in 0 .. Ticks(Window) : BudgetsSplitAt(k)

\* INCR has created the key, and no request is left that would set its TTL.
NeverExpires ==
  counter.value > 0 /\ counter.ttl = Persistent /\ \A q \in Requests : requests[q] # "expire"

\* A client that is refused is served again, also if it goes on asking all the time, unless
\* the request that created its counter failed before EXPIRE.
LimitIsLifted ==
  counter.value > MaxRequests ~> counter.value = 0 \/ NeverExpires

\* An access token that was logged out is not accepted again, but for its last second:
\* int() cuts the TTL of the denylist entry.
LoggedOutToTheLastSecond ==
  token.out /\ Accepted => token.left < TicksPerSecond
=============================================================================
