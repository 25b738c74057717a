------------------------- MODULE RedisGuardsProofs -------------------------
(***************************************************************************)
(* The safety of logout: the denylist entry lasts as long as the token,    *)
(* but for less than a second.                                             *)
(***************************************************************************)
EXTENDS RedisGuards, FiniteSetTheorems, TLAPS

\* What int() does to a lifetime: it cuts less than a second of it.
LEMMA WholeSeconds ==
  ASSUME NEW left \in Nat
  PROVE  /\ left \div TicksPerSecond \in Nat
         /\ Ticks(left \div TicksPerSecond) \in Nat
         /\ Ticks(left \div TicksPerSecond) <= left
         /\ left < Ticks(left \div TicksPerSecond) + TicksPerSecond
  BY RedisGuardsAssumption DEF RedisGuardsAssumption, Ticks

\* A number of seconds is as many ticks, and more seconds are more ticks.
LEMMA TicksAreOrdered ==
  /\ \A s \in Nat : Ticks(s) \in Nat
  /\ \A s, u \in Nat : s <= u => Ticks(s) <= Ticks(u)
  BY RedisGuardsAssumption DEF RedisGuardsAssumption, Ticks

\* A request that INCR answers within the limit is counted, and others are not.
LEMMA AnswerKeepsTypes ==
  ASSUME TypeOK, NEW q \in Requests, NEW current, Answer(q, current)
  PROVE  /\ requests' \in [Requests -> {"none", "expire"}]
         /\ admitted' \in [0 .. Ticks(Window) - 1 -> Nat]
  <1>1. 0 \in 0 .. Ticks(Window) - 1 => admitted[0] + 1 \in Nat
    BY DEF TypeOK
  <1> QED
    BY <1>1 DEF TypeOK, Answer

\* The counter stops where a further request makes no difference.
LEMMA CounterIsBounded ==
  ASSUME TypeOK
  PROVE  Min({counter.value + 1, MaxRequests + 2}) \in 0 .. MaxRequests + 2
  <1>1. /\ counter.value + 1 \in Nat
        /\ MaxRequests + 2 \in Nat
    BY RedisGuardsAssumption DEF RedisGuardsAssumption, TypeOK
  <1>2. /\ Min({counter.value + 1, MaxRequests + 2}) \in {counter.value + 1, MaxRequests + 2}
        /\ Min({counter.value + 1, MaxRequests + 2}) <= MaxRequests + 2
    <2>1. \E m \in {counter.value + 1, MaxRequests + 2} :
            \A n \in {counter.value + 1, MaxRequests + 2} : m <= n
      BY <1>1
    <2> QED
      BY <2>1 DEF Min
  <1> QED
    BY <1>1, <1>2

\* The denylist entry is bound to the token from the start and by every step.
THEOREM DenylistIsInvariant == Spec => []DenylistInv
  <1>1. Init => DenylistInv
    <2> SUFFICES ASSUME Init PROVE DenylistInv
      OBVIOUS
    <2>1. /\ Ticks(Window) \in Nat /\ Ticks(Window) > 0
          /\ Ticks(Lifetime) \in Nat /\ Ticks(Lifetime) >= TicksPerSecond
      BY RedisGuardsAssumption DEF RedisGuardsAssumption, Ticks
    <2>2. \A part \in Parts : Ticks(Lifetime) - part \in 0 .. Ticks(Lifetime)
      BY <2>1, RedisGuardsAssumption DEF RedisGuardsAssumption, Parts
    <2>3. token \in [left : 0 .. Ticks(Lifetime), out : BOOLEAN] /\ ~token.out
      <3>1. PICK part \in Parts : token = NewToken(part)
        BY DEF Init
      <3> QED
        BY <2>2, <3>1 DEF NewToken
    <2> QED
      BY <2>1, <2>3, RedisGuardsAssumption
         DEF RedisGuardsAssumption, Init, DenylistInv, TypeOK, NoKey, NoLogout, Persistent
  <1>2. DenylistInv /\ [Next]_vars => DenylistInv'
    <2> SUFFICES ASSUME DenylistInv, [Next]_vars PROVE DenylistInv'
      OBVIOUS
    <2> USE DEF DenylistInv
    <2>0. /\ TicksPerSecond \in Nat /\ TicksPerSecond > 0
          /\ Ticks(Window) \in Nat /\ Ticks(Window) > 0 /\ Persistent = Ticks(Window) + 1
          /\ Ticks(Lifetime) \in Nat /\ Ticks(Lifetime) >= TicksPerSecond
          /\ Lifetime \in Nat /\ MaxRequests \in Nat
      BY RedisGuardsAssumption DEF RedisGuardsAssumption, Ticks, Persistent
    <2>1. ASSUME NEW q \in Requests, Incr(q) PROVE DenylistInv'
      <3> DEFINE current == Min({counter.value + 1, MaxRequests + 2})
      <3>1. current \in 0 .. MaxRequests + 2
        BY CounterIsBounded
      <3> HIDE DEF current
      <3>2. counter' = [counter EXCEPT !.value = current] /\ UNCHANGED denylist
        BY <2>1 DEF Incr, current
      <3>3. counter' \in [value : 0 .. MaxRequests + 2, ttl : 1 .. Persistent]
        BY <3>1, <3>2 DEF TypeOK
      <3>4. /\ requests' \in [Requests -> {"none", "expire"}]
            /\ admitted' \in [0 .. Ticks(Window) - 1 -> Nat]
        <4>1. CASE current = 1
          <5>1. requests' = [requests EXCEPT ![q] = "expire"] /\ UNCHANGED admitted
            BY <2>1, <4>1 DEF Incr, current
          <5> QED
            BY <5>1 DEF TypeOK
        <4>2. CASE current # 1
          <5>1. Answer(q, current)
            BY <2>1, <4>2 DEF Incr, current
          <5> QED
            BY <5>1, AnswerKeepsTypes
        <4> QED
          BY <4>1, <4>2
      <3> QED
        BY <3>2, <3>3, <3>4 DEF TypeOK, denylist
    <2>2. ASSUME NEW q \in Requests, Expire(q) PROVE DenylistInv'
      <3>1. Answer(q, 1)
        BY <2>2 DEF Expire
      <3>2. counter' \in [value : 0 .. MaxRequests + 2, ttl : 1 .. Persistent]
        <4>1. counter' = [counter EXCEPT !.ttl = Ticks(Window)]
          BY <2>2 DEF Expire
        <4>2. counter \in [value : 0 .. MaxRequests + 2, ttl : 1 .. Persistent]
          BY DEF TypeOK
        <4>3. Ticks(Window) \in 1 .. Persistent
          BY <2>0
        <4> QED
          BY <4>1, <4>2, <4>3
      <3> QED
        <4>1. UNCHANGED <<token, logout, denied>>
          BY <2>2 DEF Expire, denylist
        <4>2. /\ requests' \in [Requests -> {"none", "expire"}]
              /\ admitted' \in [0 .. Ticks(Window) - 1 -> Nat]
          BY <3>1, AnswerKeepsTypes
        <4> QED
          BY <3>2, <4>1, <4>2 DEF TypeOK
    <2>3. ASSUME NEW q \in Requests, Fail(q) PROVE DenylistInv'
      <3>1. counter' \in [value : 0 .. MaxRequests + 2, ttl : 1 .. Persistent]
        BY <2>3, <2>0 DEF Fail, TypeOK
      <3> QED
        BY <2>3, <3>1 DEF Fail, TypeOK, denylist
    <2>4. CASE Login
      <3>1. \A part \in Parts : Ticks(Lifetime) - part \in 0 .. Ticks(Lifetime)
        BY <2>0 DEF Parts
      <3>2. token' \in [left : 0 .. Ticks(Lifetime), out : BOOLEAN] /\ ~token'.out
        BY <2>4, <3>1 DEF Login, NewToken
      <3> QED
        BY <2>4, <3>2 DEF Login, TypeOK, limiter
    <2>5. CASE Logout
      <3> DEFINE cut == token.left \div TicksPerSecond
      <3>1. token.left \in Nat /\ token.left <= Ticks(Lifetime)
        BY <2>0 DEF TypeOK
      <3>2. cut \in Nat /\ Ticks(cut) <= token.left /\ token.left < Ticks(cut) + TicksPerSecond
        BY <3>1, WholeSeconds
      <3>3. logout' = [asked |-> TRUE, ttl |-> cut] /\ UNCHANGED <<limiter, token, denied>>
        BY <2>5 DEF Logout
      <3> HIDE DEF cut
      <3>4. cut <= Lifetime
        BY <2>0, <3>1, <3>2 DEF Ticks
      <3> QED
        BY <2>0, <3>2, <3>3, <3>4 DEF TypeOK, limiter
    <2>6. CASE Deny
      <3>1. denied' \in 0 .. Ticks(Lifetime) /\ token.left < denied' + TicksPerSecond
        <4>1. logout.ttl \in Nat /\ logout.ttl <= Lifetime
              /\ token.left \in Nat /\ denied \in 0 .. Ticks(Lifetime)
              /\ token.left < Ticks(logout.ttl) + TicksPerSecond
          BY <2>0, <2>6 DEF TypeOK, Deny
        <4>2. CASE logout.ttl > 0
          BY <2>0, <2>6, <4>1, <4>2, TicksAreOrdered DEF Deny
        <4>3. CASE logout.ttl = 0
          <5>1. Ticks(0) = 0
            BY <2>0 DEF Ticks
          <5> QED
            BY <2>0, <2>6, <4>1, <4>3, <5>1 DEF Deny
        <4> QED
          BY <4>1, <4>2, <4>3
      <3>2. logout' = NoLogout /\ token' = [token EXCEPT !.out = TRUE] /\ UNCHANGED limiter
        BY <2>6 DEF Deny
      <3>3. /\ logout' \in [asked : BOOLEAN, ttl : 0 .. Lifetime] /\ ~logout'.asked
            /\ token' \in [left : 0 .. Ticks(Lifetime), out : BOOLEAN]
            /\ token'.left = token.left
        <4>1. logout' \in [asked : BOOLEAN, ttl : 0 .. Lifetime] /\ ~logout'.asked
          BY <2>0, <3>2 DEF NoLogout
        <4>2. token \in [left : 0 .. Ticks(Lifetime), out : BOOLEAN]
          BY DEF TypeOK
        <4> HIDE DEF DenylistInv
        <4> QED
          BY <3>2, <4>1, <4>2
      <3> QED
        BY <3>1, <3>2, <3>3 DEF TypeOK, limiter
    <2>7. CASE DenyFails
      BY <2>0, <2>7 DEF DenyFails, TypeOK, limiter, NoLogout
    <2>8. CASE Tick
      <3>1. counter' \in [value : 0 .. MaxRequests + 2, ttl : 1 .. Persistent]
        <4> DEFINE next == CASE counter.ttl = Persistent -> counter
                             [] counter.ttl = 1 -> NoKey
                             [] OTHER -> [counter EXCEPT !.ttl = @ - 1]
        <4>0. counter' = next
          BY <2>8 DEF Tick
        <4>1. CASE counter.ttl = Persistent
          <5>1. next = counter
            BY <2>0, <4>1
          <5> QED
            BY <4>0, <5>1 DEF TypeOK
        <4>2. CASE counter.ttl # Persistent /\ counter.ttl = 1
          <5>1. counter' = NoKey
            BY <4>0, <4>2
          <5>2. NoKey \in [value : 0 .. MaxRequests + 2, ttl : 1 .. Persistent]
            BY <2>0 DEF NoKey
          <5> QED
            BY <5>1, <5>2
        <4>3. CASE counter.ttl # Persistent /\ counter.ttl # 1
          <5>1. next = [counter EXCEPT !.ttl = @ - 1]
            BY <4>3
          <5>2. counter.ttl - 1 \in 1 .. Persistent
            BY <2>0, <4>3 DEF TypeOK
          <5> HIDE DEF next
          <5> QED
            BY <4>0, <5>1, <5>2 DEF TypeOK
        <4> QED
          BY <4>1, <4>2, <4>3
      <3>2. admitted' \in [0 .. Ticks(Window) - 1 -> Nat]
        <4>1. \A a \in 0 .. Ticks(Window) - 1 :
                (IF a = 0 THEN 0 ELSE admitted[a - 1]) \in Nat
          <5>1. \A a \in 0 .. Ticks(Window) - 1 : a # 0 => a - 1 \in 0 .. Ticks(Window) - 1
            BY <2>0
          <5>2. \A a \in 0 .. Ticks(Window) - 1 : admitted[a] \in Nat
            BY DEF TypeOK
          <5> HIDE DEF DenylistInv
          <5> QED
            BY <5>1, <5>2
        <4>2. admitted' = [a \in 0 .. Ticks(Window) - 1 |-> IF a = 0 THEN 0 ELSE admitted[a - 1]]
          BY <2>8 DEF Tick, TypeOK
        <4> QED
          BY <4>1, <4>2
      <3>3. /\ token' = [token EXCEPT !.left = Less(token.left)]
            /\ denied' = Less(denied)
            /\ UNCHANGED <<requests, logout>>
        BY <2>8 DEF Tick
      <3>4. /\ token.left \in 0 .. Ticks(Lifetime) /\ denied \in 0 .. Ticks(Lifetime)
            /\ token \in [left : 0 .. Ticks(Lifetime), out : BOOLEAN]
            /\ logout.ttl \in Nat /\ Ticks(logout.ttl) \in Nat
        <4>1. /\ token \in [left : 0 .. Ticks(Lifetime), out : BOOLEAN]
              /\ denied \in 0 .. Ticks(Lifetime) /\ logout.ttl \in 0 .. Lifetime
          BY DEF TypeOK
        <4> HIDE DEF DenylistInv
        <4> QED
          BY <2>0, <4>1, TicksAreOrdered
      <3>5. /\ token'.left = Less(token.left) /\ token'.out = token.out
            /\ token'.left \in 0 .. Ticks(Lifetime) /\ denied' \in 0 .. Ticks(Lifetime)
            /\ token' \in [left : 0 .. Ticks(Lifetime), out : BOOLEAN]
        <4>1. ASSUME NEW n \in 0 .. Ticks(Lifetime)
              PROVE  Less(n) \in 0 .. Ticks(Lifetime)
          BY <2>0 DEF Less
        <4> HIDE DEF DenylistInv
        <4> QED
          BY <3>3, <3>4, <4>1
      <3>6. token'.out => token'.left < denied' + TicksPerSecond
        BY <2>0, <3>3, <3>4, <3>5 DEF Less
      <3>7. logout'.asked => token'.left < Ticks(logout'.ttl) + TicksPerSecond
        BY <2>0, <3>3, <3>4, <3>5 DEF Less
      <3> QED
        BY <3>1, <3>2, <3>3, <3>5, <3>6, <3>7 DEF TypeOK
    <2>9. CASE UNCHANGED vars
      BY <2>9 DEF TypeOK, vars
    <2> QED
      BY <2>1, <2>2, <2>3, <2>4, <2>5, <2>6, <2>7, <2>8, <2>9 DEF Next
  <1> QED
    BY <1>1, <1>2, PTL DEF Spec

\* The keys and the requests keep their types.
THEOREM TypeCorrect == Spec => []TypeOK
  <1>1. DenylistInv => TypeOK
    BY DEF DenylistInv
  <1> QED
    BY <1>1, DenylistIsInvariant, PTL

\* For every lifetime, every resolution of time and any number of overlapping logouts: a
\* token that was logged out is accepted again in its last second at most.
THEOREM LogoutLasts == Spec => []LoggedOutToTheLastSecond
  <1>1. DenylistInv => LoggedOutToTheLastSecond
    BY RedisGuardsAssumption
       DEF RedisGuardsAssumption, DenylistInv, TypeOK, LoggedOutToTheLastSecond, Accepted
  <1> QED
    BY <1>1, DenylistIsInvariant, PTL

(***************************************************************************)
(* The rate limit. A counter, and a set of admissions whose cardinality is *)
(* compared with it: what one more admission, and a tick, do to the set.   *)
(***************************************************************************)
\* What is admitted at some ages is a part of what is admitted at more.
LEMMA FewerAges ==
  ASSUME NEW numbers, NEW ages, NEW more, ages \subseteq more,
         IsFiniteSet(Admissions(numbers, more))
  PROVE  /\ IsFiniteSet(Admissions(numbers, ages))
         /\ Cardinality(Admissions(numbers, ages)) \in Nat
         /\ Cardinality(Admissions(numbers, ages)) <= Cardinality(Admissions(numbers, more))
  <1>1. Admissions(numbers, ages) \in SUBSET Admissions(numbers, more)
    BY DEF Admissions
  <1> QED
    BY <1>1, FS_Subset, FS_CardinalityType

\* Two spans have at most what each of them has.
LEMMA TwoSpans ==
  ASSUME NEW numbers, NEW ages, NEW others,
         IsFiniteSet(Admissions(numbers, ages \cup others))
  PROVE  Cardinality(Admissions(numbers, ages \cup others))
           <= Cardinality(Admissions(numbers, ages)) + Cardinality(Admissions(numbers, others))
  <1> DEFINE S == Admissions(numbers, ages)
             T == Admissions(numbers, others)
  <1>1. Admissions(numbers, ages \cup others) = S \cup T
    BY DEF Admissions
  <1>2. /\ IsFiniteSet(S) /\ Cardinality(S) \in Nat
        /\ IsFiniteSet(T) /\ Cardinality(T) \in Nat
    BY FewerAges
  <1> HIDE DEF S, T
  <1>3. /\ Cardinality(S \cup T) = Cardinality(S) + Cardinality(T) - Cardinality(S \cap T)
        /\ Cardinality(S \cap T) \in Nat
    BY <1>2, FS_Union, FS_Intersection, FS_CardinalityType
  <1>4. Cardinality(S \cup T) <= Cardinality(S) + Cardinality(T)
    BY <1>2, <1>3
  <1> QED
    BY <1>1, <1>4 DEF S, T

\* No ages, no admissions; and none at an age with the number 0.
LEMMA NoAdmissions ==
  ASSUME NEW numbers, NEW ages, \A a \in ages : numbers[a] = 0
  PROVE  /\ IsFiniteSet(Admissions(numbers, ages))
         /\ Cardinality(Admissions(numbers, ages)) = 0
  <1>1. Admissions(numbers, ages) = {}
    BY DEF Admissions
  <1> QED
    BY <1>1, FS_EmptySet

\* One more request is admitted now.
LEMMA OneMore ==
  ASSUME NEW span \in SUBSET Nat, 0 \in span, NEW numbers \in [span -> Nat],
         NEW ages \in SUBSET span, IsFiniteSet(Admissions(numbers, ages)),
         NEW after, after = [numbers EXCEPT ![0] = @ + 1]
  PROVE  /\ IsFiniteSet(Admissions(after, ages))
         /\ Cardinality(Admissions(after, ages)) <= Cardinality(Admissions(numbers, ages)) + 1
         /\ 0 \notin ages =>
              Cardinality(Admissions(after, ages)) = Cardinality(Admissions(numbers, ages))
  <1> DEFINE S == Admissions(numbers, ages)
             new == <<0, numbers[0] + 1>>
  <1>1. /\ after[0] = numbers[0] + 1 /\ numbers[0] \in Nat
        /\ \A a \in ages : a # 0 => after[a] = numbers[a]
    OBVIOUS
  <1>2. CASE 0 \in ages
    <2>1. 1 .. after[0] = (1 .. numbers[0]) \cup {numbers[0] + 1}
      BY <1>1
    <2>2. Admissions(after, ages) = S \cup {new}
      <3>1. ASSUME NEW x
            PROVE  x \in Admissions(after, ages) <=> x \in S \cup {new}
        <4>1. x \in Admissions(after, ages) <=> \E a \in ages : x \in {a} \X (1 .. after[a])
          BY DEF Admissions
        <4>2. x \in S <=> \E a \in ages : x \in {a} \X (1 .. numbers[a])
          BY DEF Admissions
        <4>3. x \in {0} \X (1 .. after[0]) <=> x \in {0} \X (1 .. numbers[0]) \/ x = new
          BY <2>1
        <4>4. \A a \in ages : a # 0 =>
                (x \in {a} \X (1 .. after[a]) <=> x \in {a} \X (1 .. numbers[a]))
          BY <1>1
        <4> HIDE DEF S, new
        <4> QED
          BY <1>2, <4>1, <4>2, <4>3, <4>4
      <3> QED
        BY <3>1
    <2> HIDE DEF S, new
    <2>3. IsFiniteSet(S)
      BY DEF S
    <2>4. /\ IsFiniteSet(S \cup {new})
          /\ Cardinality(S \cup {new}) <= Cardinality(S) + 1
      <3>1. /\ IsFiniteSet(S \cup {new})
            /\ Cardinality(S \cup {new}) =
                 IF new \in S THEN Cardinality(S) ELSE Cardinality(S) + 1
        BY <2>3, FS_AddElement
      <3>2. Cardinality(S) \in Nat
        BY <2>3, FS_CardinalityType
      <3> QED
        BY <3>1, <3>2
    <2> QED
      BY <1>2, <2>2, <2>4 DEF S
  <1>3. CASE 0 \notin ages
    <2>1. Admissions(after, ages) = Admissions(numbers, ages)
      BY <1>1, <1>3 DEF Admissions
    <2> QED
      BY <1>3, <2>1, FS_CardinalityType
  <1> QED
    BY <1>2, <1>3

\* A tick later everything is one tick older.
LEMMA OneOlder ==
  ASSUME NEW numbers, NEW after, NEW ages \in SUBSET Nat, NEW before,
         IsFiniteSet(Admissions(numbers, before)),
         \A a \in ages : IF a = 0 THEN after[a] = 0
                         ELSE a - 1 \in before /\ after[a] = numbers[a - 1]
  PROVE  /\ IsFiniteSet(Admissions(after, ages))
         /\ Cardinality(Admissions(after, ages)) <= Cardinality(Admissions(numbers, before))
  <1> DEFINE S == Admissions(after, ages)
             T == Admissions(numbers, before)
             younger == [x \in S |-> <<x[1] - 1, x[2]>>]
  <1>1. ASSUME NEW x \in S
        PROVE  /\ x = <<x[1], x[2]>> /\ x[1] \in Nat
               /\ <<x[1] - 1, x[2]>> \in T
    <2>1. PICK a \in ages : x \in {a} \X (1 .. after[a])
      BY DEF Admissions
    <2>2. a # 0 /\ a - 1 \in before /\ after[a] = numbers[a - 1]
      BY <2>1
    <2>3. x = <<a, x[2]>> /\ x[1] = a /\ x[2] \in 1 .. numbers[a - 1]
      BY <2>1, <2>2
    <2> QED
      BY <2>2, <2>3 DEF Admissions
  <1>2. \A x \in S, y \in S : younger[x] = younger[y] => x = y
    <2> SUFFICES ASSUME NEW x \in S, NEW y \in S, younger[x] = younger[y]
                 PROVE  x = y
      OBVIOUS
    <2>1. <<x[1] - 1, x[2]>> = <<y[1] - 1, y[2]>>
      OBVIOUS
    <2>2. x[1] = y[1] /\ x[2] = y[2]
      BY <1>1, <2>1
    <2> QED
      BY <1>1, <2>2
  <1>3. younger \in Injection(S, T)
    BY <1>1, <1>2 DEF Injection, IsInjective
  <1>4. IsFiniteSet(T)
    OBVIOUS
  <1> HIDE DEF S, T, younger
  <1>5. IsFiniteSet(S) /\ Cardinality(S) <= Cardinality(T)
    BY <1>3, <1>4, FS_Injection
  <1> QED
    BY <1>5 DEF S, T

\* The smaller of two numbers.
LEMMA Smaller ==
  ASSUME NEW m \in Nat, NEW n \in Nat
  PROVE  Min({m, n}) = IF m < n THEN m ELSE n
  <1>1. Min({m, n}) \in {m, n} /\ Min({m, n}) <= m /\ Min({m, n}) <= n
    <2>1. \E x \in {m, n} : x <= m /\ x <= n
      OBVIOUS
    <2> QED
      BY <2>1 DEF Min
  <1> QED
    BY <1>1

\* The span of the history, and what a span that ends at k is.
LEMMA Spans ==
  ASSUME TypeOK
  PROVE  /\ Ticks(Window) \in Nat /\ Ticks(Window) > 0 /\ Persistent = Ticks(Window) + 1
         /\ MaxRequests \in Nat /\ MaxRequests > 0
         /\ DOMAIN admitted = 0 .. Ticks(Window) - 1
         /\ counter.value \in Nat /\ counter.ttl \in 1 .. Persistent
  <1>1. Ticks(Window) \in Nat /\ Ticks(Window) > 0
    BY RedisGuardsAssumption DEF RedisGuardsAssumption, Ticks
  <1> QED
    BY <1>1, RedisGuardsAssumption DEF RedisGuardsAssumption, Persistent, TypeOK

\* Nothing is counted that does not fit into the history.
LEMMA SpansAreFinite ==
  ASSUME TypeOK, IsFiniteSet(Admissions(admitted, DOMAIN admitted)),
         NEW ages \in SUBSET DOMAIN admitted
  PROVE  /\ IsFiniteSet(Admissions(admitted, ages))
         /\ Cardinality(Admissions(admitted, ages)) \in Nat
         /\ Cardinality(Admissions(admitted, ages))
              <= Cardinality(Admissions(admitted, DOMAIN admitted))
  BY FewerAges

\* INCR, by the request that creates the key and by one that finds it.
LEMMA IncrStep ==
  ASSUME BudgetInv, TypeOK', NEW q \in Requests, Incr(q)
  PROVE  BudgetInv'
  <1> DEFINE W == Ticks(Window)
             current == Min({counter.value + 1, MaxRequests + 2})
             Mine(k) == Cardinality(Admissions(admitted, 0 .. k - 1))
             Former(k) == Cardinality(Admissions(admitted, k .. W - 1))
  <1>0. TypeOK
    BY DEF BudgetInv
  <1>1. /\ W \in Nat /\ W > 0 /\ Persistent = W + 1 /\ MaxRequests \in Nat /\ MaxRequests > 0
        /\ DOMAIN admitted = 0 .. W - 1 /\ counter.value \in Nat
        /\ counter.ttl \in 1 .. Persistent
    BY <1>0, Spans
  <1>2. current = IF counter.value < MaxRequests + 1 THEN counter.value + 1 ELSE MaxRequests + 2
    BY <1>1, Smaller
  <1> PICK k \in 0 .. W : BudgetsSplitAt(k)
    BY DEF BudgetInv
  <1>3. /\ IsFiniteSet(Admissions(admitted, 0 .. k - 1)) /\ Mine(k) \in Nat
        /\ IsFiniteSet(Admissions(admitted, k .. W - 1)) /\ Former(k) \in Nat
    <2>1. 0 .. k - 1 \in SUBSET DOMAIN admitted /\ k .. W - 1 \in SUBSET DOMAIN admitted
      BY <1>1
    <2> QED
      BY <1>0, <2>1, SpansAreFinite DEF BudgetInv
  <1>4. counter' = [counter EXCEPT !.value = current] /\ requests[q] = "none"
    BY DEF Incr
  <1> HIDE DEF current
  <1>5. counter'.value = current /\ counter'.ttl = counter.ttl
    BY <1>0, <1>4 DEF TypeOK
  <1>6. CASE counter.value = 0
    <2>1. current = 1
      BY <1>1, <1>2, <1>6
    <2>2. requests' = [requests EXCEPT ![q] = "expire"] /\ UNCHANGED admitted
      BY <2>1 DEF Incr, current
    <2>3. ~Creating /\ k = 0 /\ counter.ttl = Persistent /\ admitted[0] = 0
      BY <1>6 DEF BudgetInv, BudgetsSplitAt
    <2>4. Creating' /\ \A p \in Requests : requests'[p] = "expire" => p = q
      BY <1>0, <2>2, <2>3 DEF Creating, TypeOK
    <2>5. Mine(1) = 0
      <3>1. \A a \in 0 .. 1 - 1 : admitted[a] = 0
        BY <2>3
      <3> QED
        BY <3>1, NoAdmissions
    <2>6. Former(1) \in Nat /\ Former(1) <= MaxRequests
      <3>1. 1 .. W - 1 \subseteq k .. W - 1
        BY <2>3
      <3>2. Former(k) <= MaxRequests
        BY DEF BudgetsSplitAt
      <3>3. Former(1) \in Nat /\ Former(1) <= Former(k)
        BY <1>3, <3>1, FewerAges
      <3> QED
        BY <1>1, <1>3, <3>2, <3>3
    <2>7. BudgetsSplitAt(1)'
      BY <1>1, <1>5, <2>1, <2>2, <2>3, <2>4, <2>5, <2>6 DEF BudgetsSplitAt
    <2> QED
      BY <1>1, <1>5, <2>1, <2>2, <2>3, <2>4, <2>7 DEF BudgetInv
  <1>7. CASE counter.value > 0
    <2>2. Answer(q, current) /\ current # 1
      BY <1>1, <1>2, <1>7 DEF Incr, current
    <2>3. requests' = requests
      BY <1>0, <1>4, <2>2 DEF Answer, TypeOK
    <2>4. Creating' <=> Creating
      BY <2>3 DEF Creating
    <2>5. k > 0 /\ k + counter.ttl > W /\ Former(k) <= MaxRequests
          /\ Mine(k) + (IF Creating THEN 1 ELSE 0) <= counter.value
          /\ Mine(k) + (IF Creating THEN 1 ELSE 0) <= MaxRequests
      <3>1. /\ Former(k) <= MaxRequests
            /\ IF counter.value = 0 THEN k = 0 ELSE k > 0 /\ k + counter.ttl > W
            /\ \A budget \in {counter.value, MaxRequests} :
                 Mine(k) + (IF Creating THEN 1 ELSE 0) <= budget
        BY DEF BudgetsSplitAt
      <3> HIDE DEF Mine, Former
      <3> QED
        BY <1>1, <1>7, <3>1
    <2>6. /\ IsFiniteSet(Admissions(admitted', 0 .. W - 1))
          /\ Cardinality(Admissions(admitted', k .. W - 1)) <= MaxRequests
          /\ Cardinality(Admissions(admitted', 0 .. k - 1)) + (IF Creating THEN 1 ELSE 0)
               <= current
          /\ Cardinality(Admissions(admitted', 0 .. k - 1)) + (IF Creating THEN 1 ELSE 0)
               <= MaxRequests
      <3>1. CASE current > MaxRequests
        <4>1. admitted' = admitted
          BY <2>2, <3>1 DEF Answer, Exceeds
        <4> QED
          BY <1>1, <1>3, <2>5, <3>1, <4>1, <1>2 DEF BudgetInv
      <3>2. CASE ~(current > MaxRequests)
        <4>1. admitted' = [admitted EXCEPT ![0] = @ + 1]
          BY <2>2, <3>2 DEF Answer, Exceeds
        <4>2. current = counter.value + 1 /\ current <= MaxRequests
          BY <1>1, <1>2, <3>2
        <4>3. /\ 0 .. W - 1 \in SUBSET Nat /\ 0 \in 0 .. W - 1
              /\ admitted \in [0 .. W - 1 -> Nat]
              /\ 0 .. k - 1 \in SUBSET (0 .. W - 1) /\ k .. W - 1 \in SUBSET (0 .. W - 1)
              /\ 0 \notin k .. W - 1
              /\ IsFiniteSet(Admissions(admitted, 0 .. W - 1))
          <5>1. admitted \in [0 .. W - 1 -> Nat]
            BY <1>0 DEF TypeOK
          <5>2. IsFiniteSet(Admissions(admitted, 0 .. W - 1))
            BY <1>1 DEF BudgetInv
          <5> HIDE DEF W
          <5> QED
            BY <1>1, <2>5, <5>1, <5>2
        <4>4. IsFiniteSet(Admissions(admitted', 0 .. W - 1))
          BY <4>1, <4>3, OneMore
        <4>5. Cardinality(Admissions(admitted', k .. W - 1)) = Former(k)
          BY <1>3, <4>1, <4>3, OneMore
        <4>6. /\ IsFiniteSet(Admissions(admitted', 0 .. k - 1))
              /\ Cardinality(Admissions(admitted', 0 .. k - 1)) <= Mine(k) + 1
          BY <1>3, <4>1, <4>3, OneMore
        <4>7. Cardinality(Admissions(admitted', 0 .. k - 1)) \in Nat
          BY <4>6, FS_CardinalityType
        <4> HIDE DEF Mine, Former
        <4> QED
          BY <1>1, <1>3, <2>5, <4>2, <4>4, <4>5, <4>6, <4>7
      <3> QED
        BY <3>1, <3>2
    <2>7. BudgetsSplitAt(k)'
      BY <1>1, <1>2, <1>5, <1>7, <2>4, <2>5, <2>6 DEF BudgetsSplitAt
    <2>8. DOMAIN admitted' = 0 .. W - 1
      BY DEF TypeOK
    <2> QED
      BY <1>1, <1>2, <1>5, <1>7, <2>3, <2>4, <2>6, <2>7, <2>8 DEF BudgetInv
  <1> QED
    BY <1>1, <1>6, <1>7

\* The request that has created the key goes on: it sets the TTL and is admitted, or fails.
LEMMA CreatorStep ==
  ASSUME BudgetInv, TypeOK', NEW q \in Requests, Expire(q) \/ Fail(q)
  PROVE  BudgetInv'
  <1> DEFINE W == Ticks(Window)
             Mine(k) == Cardinality(Admissions(admitted, 0 .. k - 1))
             Former(k) == Cardinality(Admissions(admitted, k .. W - 1))
  <1>0. TypeOK
    BY DEF BudgetInv
  <1>1. /\ W \in Nat /\ W > 0 /\ Persistent = W + 1 /\ MaxRequests \in Nat /\ MaxRequests > 0
        /\ DOMAIN admitted = 0 .. W - 1 /\ counter.value \in Nat
        /\ counter.ttl \in 1 .. Persistent
    BY <1>0, Spans
  <1>2. requests[q] = "expire" /\ requests' = [requests EXCEPT ![q] = "none"]
    BY DEF Expire, Fail, Answer
  <1>3. Creating /\ counter.value > 0 /\ counter.ttl = Persistent
    BY <1>1, <1>2 DEF Creating, BudgetInv
  <1>4. ~Creating' /\ \A p \in Requests : requests'[p] # "expire"
    <2>1. \A p \in Requests : p # q => requests[p] # "expire"
      BY <1>2 DEF BudgetInv
    <2> QED
      BY <1>0, <1>2, <2>1 DEF Creating, TypeOK
  <1>5. counter'.value = counter.value /\ counter'.ttl \in {W, Persistent}
    BY <1>0, <1>3 DEF Expire, Fail, TypeOK
  <1>6. admitted' = admitted \/ admitted' = [admitted EXCEPT ![0] = @ + 1]
    BY DEF Expire, Fail, Answer
  <1> PICK k \in 0 .. W : BudgetsSplitAt(k)
    BY DEF BudgetInv
  <1>7. /\ Former(k) <= MaxRequests /\ k > 0
        /\ Mine(k) + 1 <= counter.value /\ Mine(k) + 1 <= MaxRequests
    <2>1. /\ Former(k) <= MaxRequests
          /\ IF counter.value = 0 THEN k = 0 ELSE k > 0 /\ k + counter.ttl > W
          /\ \A budget \in {counter.value, MaxRequests} : Mine(k) + 1 <= budget
      BY <1>3 DEF BudgetsSplitAt
    <2> HIDE DEF Mine, Former
    <2> QED
      BY <1>1, <1>3, <2>1
  <1>8. /\ 0 .. k - 1 \in SUBSET (0 .. W - 1) /\ k .. W - 1 \in SUBSET (0 .. W - 1)
        /\ 0 .. W - 1 \in SUBSET Nat /\ 0 \in 0 .. W - 1 /\ 0 \notin k .. W - 1
    <2> HIDE DEF W
    <2> QED
      BY <1>1, <1>7
  <1>9. /\ IsFiniteSet(Admissions(admitted, 0 .. W - 1))
        /\ IsFiniteSet(Admissions(admitted, 0 .. k - 1)) /\ Mine(k) \in Nat
        /\ IsFiniteSet(Admissions(admitted, k .. W - 1)) /\ Former(k) \in Nat
    BY <1>0, <1>1, <1>8, SpansAreFinite DEF BudgetInv
  <1>10. /\ IsFiniteSet(Admissions(admitted', 0 .. W - 1))
         /\ Cardinality(Admissions(admitted', k .. W - 1)) = Former(k)
         /\ IsFiniteSet(Admissions(admitted', 0 .. k - 1))
         /\ Cardinality(Admissions(admitted', 0 .. k - 1)) <= Mine(k) + 1
    <2>1. CASE admitted' = admitted
      BY <1>9, <2>1
    <2>2. CASE admitted' = [admitted EXCEPT ![0] = @ + 1]
      <3>1. admitted \in [0 .. W - 1 -> Nat]
        BY <1>0 DEF TypeOK
      <3> QED
        BY <1>8, <1>9, <2>2, <3>1, OneMore
    <2> QED
      BY <1>6, <2>1, <2>2
  <1>11. BudgetsSplitAt(k)'
    <2>1. Cardinality(Admissions(admitted', 0 .. k - 1)) \in Nat
      BY <1>10, FS_CardinalityType
    <2>2. /\ Cardinality(Admissions(admitted', 0 .. k - 1)) + 0 <= counter'.value
          /\ Cardinality(Admissions(admitted', 0 .. k - 1)) + 0 <= MaxRequests
      <3> HIDE DEF Mine
      <3> QED
        BY <1>1, <1>5, <1>7, <1>9, <1>10, <2>1
    <2>3. k + counter'.ttl > W /\ counter'.value # 0
      BY <1>1, <1>3, <1>5, <1>7
    <2> QED
      BY <1>4, <1>7, <1>10, <2>2, <2>3 DEF BudgetsSplitAt
  <1>12. DOMAIN admitted' = 0 .. W - 1
    BY DEF TypeOK
  <1> QED
    BY <1>1, <1>3, <1>4, <1>5, <1>10, <1>11, <1>12 DEF BudgetInv

\* A tick: a key that goes leaves a window that is all its own.
LEMMA TickStep ==
  ASSUME BudgetInv, TypeOK', Tick
  PROVE  BudgetInv'
  <1> DEFINE W == Ticks(Window)
             Mine(k) == Cardinality(Admissions(admitted, 0 .. k - 1))
             Former(k) == Cardinality(Admissions(admitted, k .. W - 1))
  <1>0. TypeOK
    BY DEF BudgetInv
  <1>1. /\ W \in Nat /\ W > 0 /\ Persistent = W + 1 /\ MaxRequests \in Nat /\ MaxRequests > 0
        /\ DOMAIN admitted = 0 .. W - 1 /\ counter.value \in Nat
        /\ counter.ttl \in 1 .. Persistent
    BY <1>0, Spans
  <1>2. /\ requests' = requests /\ (Creating' <=> Creating)
        /\ admitted' = [a \in 0 .. W - 1 |-> IF a = 0 THEN 0 ELSE admitted[a - 1]]
    BY <1>1 DEF Tick, Creating
  <1>3. \/ counter.ttl = Persistent /\ counter' = counter
        \/ counter.ttl # Persistent /\ counter.ttl = 1 /\ counter' = NoKey
        \/ /\ counter.ttl # Persistent /\ counter.ttl > 1
           /\ counter'.value = counter.value /\ counter'.ttl = counter.ttl - 1
    <2>1. CASE counter.ttl = Persistent
      <3>1. counter.ttl # 1
        BY <1>1, <2>1
      <3> QED
        BY <2>1, <3>1 DEF Tick
    <2>2. CASE counter.ttl # Persistent /\ counter.ttl = 1
      BY <2>2 DEF Tick
    <2>3. CASE counter.ttl # Persistent /\ counter.ttl # 1
      <3>1. counter' = [counter EXCEPT !.ttl = @ - 1]
        BY <2>3 DEF Tick
      <3> QED
        BY <1>0, <1>1, <2>3, <3>1 DEF TypeOK
    <2> QED
      BY <2>1, <2>2, <2>3
  <1>4. counter.ttl # Persistent => counter.value > 0 /\ ~Creating
    BY <1>1 DEF BudgetInv
  <1> PICK k \in 0 .. W : BudgetsSplitAt(k)
    BY DEF BudgetInv
  <1>5. /\ Former(k) <= MaxRequests
        /\ IF counter.value = 0 THEN k = 0 ELSE k > 0 /\ k + counter.ttl > W
        /\ \A budget \in {counter.value, MaxRequests} :
             Mine(k) + (IF Creating THEN 1 ELSE 0) <= budget
    BY DEF BudgetsSplitAt
  <1>6. ASSUME NEW ages \in SUBSET (0 .. W - 1), NEW before \in SUBSET (0 .. W - 1),
               \A a \in ages : a = 0 \/ a - 1 \in before
        PROVE  /\ IsFiniteSet(Admissions(admitted', ages))
               /\ Cardinality(Admissions(admitted', ages)) \in Nat
               /\ Cardinality(Admissions(admitted, before)) \in Nat
               /\ Cardinality(Admissions(admitted', ages))
                    <= Cardinality(Admissions(admitted, before))
    <2>1. /\ IsFiniteSet(Admissions(admitted, before))
          /\ Cardinality(Admissions(admitted, before)) \in Nat
      BY <1>0, <1>1, SpansAreFinite DEF BudgetInv
    <2>2. \A a \in ages : IF a = 0 THEN admitted'[a] = 0
                          ELSE a - 1 \in before /\ admitted'[a] = admitted[a - 1]
      BY <1>2, <1>6
    <2>3. ages \in SUBSET Nat
      BY <1>1
    <2>4. /\ IsFiniteSet(Admissions(admitted', ages))
          /\ Cardinality(Admissions(admitted', ages))
               <= Cardinality(Admissions(admitted, before))
      BY <2>1, <2>2, <2>3, OneOlder
    <2> QED
      BY <2>1, <2>4, FS_CardinalityType
  <1>7. /\ IsFiniteSet(Admissions(admitted', 0 .. W - 1)) /\ admitted'[0] = 0
        /\ Cardinality(Admissions(admitted', 0 .. 0 - 1)) = 0
    <2>1. \A a \in 0 .. W - 1 : a = 0 \/ a - 1 \in 0 .. W - 1
      BY <1>1
    <2>2. \A a \in 0 .. 0 - 1 : admitted'[a] = 0
      OBVIOUS
    <2>3. IsFiniteSet(Admissions(admitted', 0 .. W - 1))
      BY <1>6, <2>1
    <2>4. Cardinality(Admissions(admitted', 0 .. 0 - 1)) = 0
      BY <2>2, NoAdmissions
    <2>5. admitted'[0] = 0
      BY <1>1, <1>2
    <2> QED
      BY <2>3, <2>4, <2>5
  <1> PICK next \in 0 .. W :
        next = IF counter'.value = 0 THEN 0 ELSE IF k < W THEN k + 1 ELSE W
    BY <1>1
  <1>8. BudgetsSplitAt(next)'
    <2>1. CASE counter'.value = 0
      <3>1. ~Creating
        BY <1>1, <1>3, <1>4, <2>1 DEF BudgetInv
      <3>2. Cardinality(Admissions(admitted', 0 .. W - 1)) <= MaxRequests
        <4>1. CASE counter.value = 0
          <5>1. k = 0
            BY <1>5, <4>1
          <5>2. \A a \in 0 .. W - 1 : a = 0 \/ a - 1 \in k .. W - 1
            BY <1>1, <5>1
          <5>3. k .. W - 1 \in SUBSET (0 .. W - 1)
            BY <5>1
          <5>4. /\ Cardinality(Admissions(admitted', 0 .. W - 1)) <= Former(k)
                /\ Cardinality(Admissions(admitted', 0 .. W - 1)) \in Nat
                /\ Former(k) \in Nat
            BY <1>6, <5>2, <5>3
          <5> HIDE DEF Former
          <5> QED
            BY <1>1, <1>5, <5>4
        <4>2. CASE counter.value # 0
          <5>1. counter.ttl = 1
            BY <1>1, <1>3, <2>1, <4>2
          <5>2. k = W
            BY <1>1, <1>5, <4>2, <5>1
          <5>3. \A a \in 0 .. W - 1 : a = 0 \/ a - 1 \in 0 .. k - 1
            BY <1>1, <5>2
          <5>4. /\ Cardinality(Admissions(admitted', 0 .. W - 1)) <= Mine(k)
                /\ Cardinality(Admissions(admitted', 0 .. W - 1)) \in Nat
                /\ Mine(k) \in Nat
            BY <1>6, <5>2, <5>3
          <5> HIDE DEF Mine
          <5>5. Mine(k) + 0 <= MaxRequests
            BY <1>5, <3>1
          <5> QED
            BY <1>1, <5>4, <5>5
        <4> QED
          BY <4>1, <4>2
      <3>3. \A budget \in {counter'.value, MaxRequests} : 0 + 0 <= budget
        BY <1>1, <2>1
      <3>4. BudgetsSplitAt(0)'
        BY <1>2, <1>7, <2>1, <3>1, <3>2, <3>3 DEF BudgetsSplitAt
      <3> QED
        BY <1>1, <2>1, <3>4
    <2>2. CASE counter'.value # 0
      <3>1. counter.value # 0 /\ counter'.value = counter.value
        BY <1>3, <2>2 DEF NoKey
      <3>2. next \in 0 .. W /\ next > 0 /\ next + counter'.ttl > W
        <4>1. next = IF k < W THEN k + 1 ELSE W
          BY <2>2
        <4>2. \/ counter.ttl = Persistent /\ counter'.ttl = counter.ttl
              \/ counter.ttl > 1 /\ counter'.ttl = counter.ttl - 1
          <5>1. counter' # NoKey
            BY <2>2 DEF NoKey
          <5> QED
            BY <1>3, <5>1
        <4>3. k > 0 /\ k + counter.ttl > W
          BY <1>5, <3>1
        <4> HIDE DEF W
        <4> QED
          BY <1>1, <4>1, <4>2, <4>3
      <3>3. /\ \A a \in 0 .. next - 1 : a = 0 \/ a - 1 \in 0 .. k - 1
            /\ \A a \in next .. W - 1 : a = 0 \/ a - 1 \in k .. W - 1
            /\ 0 .. next - 1 \in SUBSET (0 .. W - 1) /\ next .. W - 1 \in SUBSET (0 .. W - 1)
            /\ 0 .. k - 1 \in SUBSET (0 .. W - 1) /\ k .. W - 1 \in SUBSET (0 .. W - 1)
        <4>1. next = IF k < W THEN k + 1 ELSE W
          BY <2>2
        <4>2. k > 0
          BY <1>5, <3>1
        <4> HIDE DEF W
        <4> QED
          BY <1>1, <4>1, <4>2
      <3>4. /\ Cardinality(Admissions(admitted', 0 .. next - 1)) <= Mine(k)
            /\ Cardinality(Admissions(admitted', 0 .. next - 1)) \in Nat /\ Mine(k) \in Nat
        BY <1>6, <3>3
      <3>5. /\ Cardinality(Admissions(admitted', next .. W - 1)) <= Former(k)
            /\ Cardinality(Admissions(admitted', next .. W - 1)) \in Nat /\ Former(k) \in Nat
        BY <1>6, <3>3
      <3> HIDE DEF Mine, Former
      <3>6. Cardinality(Admissions(admitted', next .. W - 1)) <= MaxRequests
        BY <1>1, <1>5, <3>5
      <3>7. ASSUME NEW budget \in {counter'.value, MaxRequests}
            PROVE  Cardinality(Admissions(admitted', 0 .. next - 1))
                     + (IF Creating THEN 1 ELSE 0) <= budget
        <4>1. budget \in Nat /\ Mine(k) + (IF Creating THEN 1 ELSE 0) <= budget
          BY <1>1, <1>5, <3>1, <3>7
        <4> QED
          BY <3>4, <4>1
      <3>8. IF counter'.value = 0 THEN next = 0 ELSE next > 0 /\ next + counter'.ttl > W
        BY <2>2, <3>2
      <3> QED
        BY <1>2, <3>2, <3>6, <3>7, <3>8 DEF BudgetsSplitAt
    <2> QED
      BY <2>1, <2>2
  <1>9. counter'.value = 0 => counter'.ttl = Persistent /\ ~Creating
    BY <1>1, <1>3, <1>4 DEF NoKey, BudgetInv
  <1>10. Creating => counter'.ttl = Persistent
    BY <1>3, <1>4
  <1>11. DOMAIN admitted' = 0 .. W - 1
    BY <1>2
  <1>12. \A p, r \in Requests : requests'[p] = "expire" /\ requests'[r] = "expire" => p = r
    BY <1>2 DEF BudgetInv
  <1>13. \E j \in 0 .. Ticks(Window) : BudgetsSplitAt(j)'
    BY <1>8
  <1> QED
    BY <1>2, <1>7, <1>9, <1>10, <1>11, <1>12, <1>13 DEF BudgetInv

\* What holds of the counter holds always, whatever the requests do and however late they are.
THEOREM BudgetsHold == Spec => []BudgetInv
  <1>1. Init /\ TypeOK => BudgetInv
    <2> SUFFICES ASSUME Init, TypeOK PROVE BudgetInv
      OBVIOUS
    <2> DEFINE W == Ticks(Window)
    <2>2. /\ W \in Nat /\ W > 0 /\ MaxRequests \in Nat /\ MaxRequests > 0
          /\ DOMAIN admitted = 0 .. W - 1
      BY Spans
    <2>3. ~Creating /\ counter.value = 0 /\ counter.ttl = Persistent
          /\ (\A q \in Requests : requests[q] # "expire") /\ \A a \in 0 .. W - 1 : admitted[a] = 0
      BY DEF Init, NoKey, Creating
    <2>4. /\ IsFiniteSet(Admissions(admitted, 0 .. W - 1))
          /\ Cardinality(Admissions(admitted, 0 .. W - 1)) = 0
          /\ Cardinality(Admissions(admitted, 0 .. 0 - 1)) = 0
      <3>1. \A a \in 0 .. 0 - 1 : admitted[a] = 0
        OBVIOUS
      <3> QED
        BY <2>3, <3>1, NoAdmissions
    <2>5. BudgetsSplitAt(0)
      BY <2>2, <2>3, <2>4 DEF BudgetsSplitAt
    <2> QED
      BY <2>2, <2>3, <2>4, <2>5 DEF BudgetInv
  <1>2. BudgetInv /\ TypeOK' /\ [Next]_vars => BudgetInv'
    <2> SUFFICES ASSUME BudgetInv, TypeOK', [Next]_vars PROVE BudgetInv'
      OBVIOUS
    <2>1. CASE \E q \in Requests : Incr(q)
      BY <2>1, IncrStep
    <2>2. CASE \E q \in Requests : Expire(q) \/ Fail(q)
      BY <2>2, CreatorStep
    <2>3. CASE UNCHANGED limiter
      <3>1. counter' = counter /\ requests' = requests /\ admitted' = admitted
        BY <2>3 DEF limiter
      <3> QED
        BY <3>1 DEF BudgetInv, BudgetsSplitAt, Creating
    <2>4. CASE Tick
      BY <2>4, TickStep
    <2> QED
      BY <2>1, <2>2, <2>3, <2>4 DEF Next, vars, limiter, Login, Logout, Deny, DenyFails
  <1> QED
    BY <1>1, <1>2, TypeCorrect, PTL DEF Spec

\* For every window, every limit and every resolution of time: however the requests of a
\* client overlap, and whenever EXPIRE comes or fails to come, no window of time has more
\* than two budgets.
THEOREM AtMostTwoBudgets == Spec => []TwoBudgetsAWindow
  <1>1. BudgetInv => TwoBudgetsAWindow
    <2> SUFFICES ASSUME BudgetInv PROVE TwoBudgetsAWindow
      OBVIOUS
    <2> DEFINE W == Ticks(Window)
    <2>0. TypeOK
      BY DEF BudgetInv
    <2>1. /\ W \in Nat /\ MaxRequests \in Nat /\ DOMAIN admitted = 0 .. W - 1
          /\ counter.value \in Nat
      BY <2>0, Spans
    <2> PICK k \in 0 .. W : BudgetsSplitAt(k)
      BY DEF BudgetInv
    <2> DEFINE mine == Cardinality(Admissions(admitted, 0 .. k - 1))
               former == Cardinality(Admissions(admitted, k .. W - 1))
               all == Cardinality(Admissions(admitted, DOMAIN admitted))
    <2>2. DOMAIN admitted = (0 .. k - 1) \cup (k .. W - 1)
      BY <2>1
    <2>3. all <= mine + former
      BY <2>2, TwoSpans DEF BudgetInv
    <2>4. mine \in Nat /\ former \in Nat /\ all \in Nat
      BY <2>0, <2>2, SpansAreFinite DEF BudgetInv
    <2>5. mine + (IF Creating THEN 1 ELSE 0) <= MaxRequests /\ former <= MaxRequests
      BY DEF BudgetsSplitAt
    <2> HIDE DEF mine, former
    <2>6. all <= 2 * MaxRequests
      <3> HIDE DEF all
      <3> QED
        BY <2>1, <2>3, <2>4, <2>5
    <2> QED
      BY <2>6 DEF TwoBudgetsAWindow
  <1> QED
    BY <1>1, BudgetsHold, PTL
=============================================================================
