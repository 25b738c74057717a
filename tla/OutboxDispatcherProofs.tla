------------------------ MODULE OutboxDispatcherProofs ----------------------
(***************************************************************************)
(* Theorems about OutboxDispatcher, for any rows, dispatchers, batch size, *)
(* number of refused sends and number of lost records.                     *)
(***************************************************************************)
EXTENDS OutboxDispatcher, TLAPS

RowRecord == [state : {"none", "pending", "published"}, attempts : Nat]

DispatcherRecord ==
  [pc : {"idle", "claim", "claimed", "sent"}, row : Rows \cup {NoRow},
   attempts : Nat, left : 0 .. BatchSize]

\* A tick names a row exactly while it holds its lock.
Holds(me) == me.row # NoRow <=> me.pc \in {"claimed", "sent"}

LEMMA Numbers ==
  /\ Rows \subseteq Nat /\ NoRow \notin Rows
  /\ BatchSize \in Nat \ {0} /\ MaxFailures \in Nat /\ MaxFaults \in Nat
BY OutboxDispatcherAssumption DEF Rows, NoRow

LEMMA IdleTick ==
  Idle \in DispatcherRecord /\ Holds(Idle) /\ Idle.row = NoRow /\ Idle.pc = "idle"
BY Numbers DEF Idle, DispatcherRecord, Holds, NoRow

\* The initial state is one of the invariant's.
LEMMA InitDispatch == Init => DispatchInv
<1> SUFFICES ASSUME Init PROVE DispatchInv
  OBVIOUS
<1>1. TypeOK
  BY Numbers, IdleTick DEF Init, TypeOK, DispatcherRecord, Holds
<1>2. LocksAreExclusive /\ ClaimIsCurrent
  BY IdleTick DEF Init, LocksAreExclusive, ClaimIsCurrent
<1>3. \A r \in Rows : ~Open(r)
  BY IdleTick DEF Init, Open
<1>4. CountLagsByOne
  BY <1>3 DEF Init, CountLagsByOne
<1> QED
  BY <1>1, <1>2, <1>4 DEF DispatchInv

\* Which messages are open after one tick has moved on.
LEMMA OpenAfter ==
  ASSUME TypeOK, NEW d \in Dispatchers, NEW me,
         dispatchers' = [dispatchers EXCEPT ![d] = me]
  PROVE  \A r \in Rows :
           Open(r)' <=> \/ me.pc = "sent" /\ me.row = r
                        \/ \E c \in Dispatchers \ {d} :
                             dispatchers[c].pc = "sent" /\ dispatchers[c].row = r
<1>1. dispatchers'[d] = me
      /\ \A c \in Dispatchers : c # d => dispatchers'[c] = dispatchers[c]
  BY DEF TypeOK
<1> QED
  BY <1>1 DEF Open

\* A tick that moves on without a lock, or keeps the one it has, and sends nothing.
LEMMA LocalStep ==
  ASSUME DispatchInv, NEW d \in Dispatchers, NEW me \in DispatcherRecord,
         dispatchers' = [dispatchers EXCEPT ![d] = me],
         UNCHANGED <<table, sends, refused>>,
         crashes' \in Nat, errors' \in Nat, crashes' + errors' \in 0 .. MaxFaults,
         \/ UNCHANGED <<crashes, errors>> /\ dispatchers[d].pc # "sent"
         \/ crashes' + errors' # 0,
         me.pc # "sent",
         Holds(me),
         me.row # NoRow =>
           /\ \A c \in Dispatchers \ {d} : dispatchers[c].row # me.row
           /\ table[me.row].state = "pending"
           /\ table[me.row].attempts = me.attempts
  PROVE  DispatchInv'
<1> USE DEF DispatchInv
<1>0. dispatchers'[d] = me
      /\ \A c \in Dispatchers : c # d => dispatchers'[c] = dispatchers[c]
  BY DEF TypeOK
<1>1. TypeOK'
  BY <1>0 DEF TypeOK, DispatcherRecord, Holds
<1>2. LocksAreExclusive'
  BY <1>0 DEF LocksAreExclusive
<1>3. ClaimIsCurrent'
  BY <1>0 DEF ClaimIsCurrent
<1>4. CountLagsByOne'
  <2>1. CASE UNCHANGED <<crashes, errors>> /\ dispatchers[d].pc # "sent"
    <3>1. \A r \in Rows : Open(r)' <=> Open(r)
      BY <2>1, OpenAfter DEF Open
    <3> QED
      BY <2>1, <3>1 DEF CountLagsByOne
  <2>2. CASE crashes' + errors' # 0
    BY <2>2 DEF CountLagsByOne
  <2> QED
    BY <2>1, <2>2
<1> QED
  BY <1>1, <1>2, <1>3, <1>4

\* The steps of a tick up to its send, and its loss after it.
LEMMA TickSteps ==
  ASSUME DispatchInv, NEW d \in Dispatchers,
         StartTick(d) \/ Claim(d) \/ EndTick(d) \/ RecordFails(d) \/ Crash(d)
  PROVE  DispatchInv'
<1> DEFINE me == dispatchers[d]
<1>0. /\ TypeOK /\ me \in DispatcherRecord /\ Holds(me)
      /\ crashes \in Nat /\ errors \in Nat /\ crashes + errors \in 0 .. MaxFaults
  BY DEF DispatchInv, TypeOK, DispatcherRecord, Holds
<1>1. CASE StartTick(d)
  <2> DEFINE r == [Idle EXCEPT !.pc = "claim", !.left = BatchSize]
  <2>0. BatchSize \in 0 .. BatchSize /\ 0 \in Nat
    BY Numbers
  <2>1. r \in DispatcherRecord /\ Holds(r) /\ r.row = NoRow /\ r.pc = "claim"
    BY <2>0 DEF Idle, DispatcherRecord, Holds
  <2>2. dispatchers' = [dispatchers EXCEPT ![d] = r]
    BY <1>1 DEF StartTick
  <2> HIDE DEF r
  <2> QED
    BY <1>0, <1>1, <2>1, <2>2, LocalStep DEF StartTick
<1>2. CASE Claim(d)
  <2> PICK q \in Claimable :
        dispatchers' = [dispatchers EXCEPT ![d].pc = "claimed", ![d].row = q,
                                           ![d].attempts = table[q].attempts,
                                           ![d].left = @ - 1]
    BY <1>2 DEF Claim
  <2> DEFINE r == [me EXCEPT !.pc = "claimed", !.row = q, !.attempts = table[q].attempts,
                             !.left = me.left - 1]
  <2>1. dispatchers' = [dispatchers EXCEPT ![d] = r]
    BY <1>0 DEF TypeOK
  <2>2. q \in Rows /\ table[q].state = "pending" /\ ~Locked(q) /\ table[q].attempts \in Nat
    BY <1>0 DEF Claimable, TypeOK
  <2>3. me.left - 1 \in 0 .. BatchSize
    <3>1. me.left \in 0 .. BatchSize /\ me.left > 0
      BY <1>0, <1>2 DEF DispatcherRecord, Claim
    <3> QED
      BY <3>1, Numbers
  <2>4. /\ r \in DispatcherRecord /\ Holds(r)
        /\ r.pc = "claimed" /\ r.row = q /\ r.attempts = table[q].attempts
    BY <1>0, <2>2, <2>3, Numbers DEF DispatcherRecord, Holds
  <2>5. \A c \in Dispatchers \ {d} : dispatchers[c].row # q
    BY <2>2 DEF Locked
  <2> HIDE DEF r
  <2> QED
    BY <1>0, <1>2, <2>1, <2>2, <2>4, <2>5, LocalStep DEF Claim
<1>3. CASE EndTick(d)
  BY <1>0, <1>3, IdleTick, LocalStep DEF EndTick
<1>4. CASE RecordFails(d) \/ Crash(d)
  <2>1. /\ crashes' \in Nat /\ errors' \in Nat
        /\ crashes' + errors' \in 0 .. MaxFaults /\ crashes' + errors' # 0
        /\ UNCHANGED <<table, sends, refused>>
        /\ dispatchers' = [dispatchers EXCEPT ![d] = Idle]
    BY <1>0, <1>4, Numbers DEF RecordFails, Crash
  <2> QED
    BY <2>1, IdleTick, LocalStep
<1> QED
  BY <1>1, <1>2, <1>3, <1>4

\* The steps that send a message, have it refused, or record it: the lock holder's
\* row is nobody else's, so the count it writes is the one it read plus one.
LEMMA RowSteps ==
  ASSUME DispatchInv, NEW d \in Dispatchers,
         Send(d) \/ SendRefused(d) \/ Record(d)
  PROVE  DispatchInv'
<1> USE DEF DispatchInv
<1> DEFINE me == dispatchers[d]
<1> PICK q \in Rows : q = me.row /\ q # NoRow
  BY Numbers DEF TypeOK, Send, SendRefused, Record
<1>0. /\ me \in DispatcherRecord
      /\ table[q].state = "pending" /\ table[q].attempts = me.attempts
      /\ me.attempts \in Nat /\ sends[q] \in Nat /\ refused[q] \in 0 .. MaxFailures
      /\ \A c \in Dispatchers \ {d} : dispatchers[c].row # q
      /\ UNCHANGED <<crashes, errors>>
  BY DEF TypeOK, DispatcherRecord, ClaimIsCurrent, LocksAreExclusive, Send, SendRefused,
    Record
<1>1. PICK r \in {[me EXCEPT !.pc = "sent"], [me EXCEPT !.pc = "claim", !.row = NoRow]} :
        /\ dispatchers' = [dispatchers EXCEPT ![d] = r]
        /\ r.pc = "sent" <=> Send(d)
  <2>1. CASE Send(d)
    BY <1>0, <2>1 DEF Send, TypeOK, DispatcherRecord
  <2>2. CASE ~Send(d)
    BY <1>0, <2>2 DEF SendRefused, Record, Onward, TypeOK, DispatcherRecord
  <2> QED
    BY <2>1, <2>2
<1>2. /\ r \in DispatcherRecord /\ Holds(r) /\ r.attempts = me.attempts
      /\ r.row # NoRow <=> r.pc = "sent"
      /\ r.row # NoRow => r.row = q
  BY <1>0, <1>1 DEF DispatcherRecord, Holds
<1>3. dispatchers'[d] = r
      /\ \A c \in Dispatchers : c # d => dispatchers'[c] = dispatchers[c]
  BY <1>1 DEF TypeOK
<1>4. /\ table' \in [Rows -> RowRecord]
      /\ sends' \in [Rows -> Nat]
      /\ refused' \in [Rows -> 0 .. MaxFailures]
      /\ \A p \in Rows : p # q =>
           table'[p] = table[p] /\ sends'[p] = sends[p] /\ refused'[p] = refused[p]
      /\ Send(d) => table' = table
  <2>1. CASE Send(d)
    BY <1>0, <2>1 DEF Send, TypeOK, RowRecord
  <2>2. CASE SendRefused(d)
    <3>1. refused[q] + 1 \in 0 .. MaxFailures /\ me.attempts + 1 \in Nat
      BY <1>0, <2>2, Numbers DEF SendRefused
    <3>2. /\ refused' = [refused EXCEPT ![q] = refused[q] + 1]
          /\ table' = [table EXCEPT ![q] = [table[q] EXCEPT !.attempts = me.attempts + 1]]
          /\ UNCHANGED sends
      BY <2>2 DEF SendRefused, TypeOK
    <3>3. table \in [Rows -> RowRecord] /\ sends \in [Rows -> Nat]
          /\ refused \in [Rows -> 0 .. MaxFailures]
      BY DEF TypeOK, RowRecord
    <3>4. [table[q] EXCEPT !.attempts = me.attempts + 1] \in RowRecord
      BY <3>1, <3>3 DEF RowRecord
    <3> QED
      BY <2>2, <3>1, <3>2, <3>3, <3>4 DEF Send, SendRefused
  <2>3. CASE Record(d)
    <3>1. [state |-> "published", attempts |-> me.attempts + 1] \in RowRecord
      BY <1>0 DEF RowRecord
    <3>2. /\ table' = [table EXCEPT ![q] =
                        [state |-> "published", attempts |-> me.attempts + 1]]
          /\ UNCHANGED <<sends, refused>>
      BY <2>3 DEF Record
    <3>3. table \in [Rows -> RowRecord] /\ sends \in [Rows -> Nat]
          /\ refused \in [Rows -> 0 .. MaxFailures]
      BY DEF TypeOK, RowRecord
    <3> QED
      BY <2>3, <3>1, <3>2, <3>3 DEF Send, Record
  <2> QED
    BY <2>1, <2>2, <2>3 DEF Send, SendRefused, Record
<1>5. TypeOK'
  BY <1>0, <1>1, <1>2, <1>3, <1>4 DEF TypeOK, RowRecord, DispatcherRecord, Holds
<1>6. LocksAreExclusive'
  BY <1>0, <1>2, <1>3 DEF LocksAreExclusive
<1>7. ClaimIsCurrent'
  <2> SUFFICES ASSUME NEW c \in Dispatchers, dispatchers'[c].row # NoRow
               PROVE  /\ table'[dispatchers'[c].row].state = "pending"
                      /\ table'[dispatchers'[c].row].attempts = dispatchers'[c].attempts
    BY DEF ClaimIsCurrent
  <2>1. CASE c = d
    BY <1>0, <1>1, <1>2, <1>3, <1>4, <2>1
  <2>2. CASE c # d
    BY <1>0, <1>3, <1>4, <2>2 DEF ClaimIsCurrent, TypeOK
  <2> QED
    BY <2>1, <2>2
<1>8. CountLagsByOne'
  <2> SUFFICES ASSUME crashes + errors = 0, NEW p \in Rows
               PROVE  sends'[p] + refused'[p]
                        = table'[p].attempts + (IF Open(p)' THEN 1 ELSE 0)
    BY <1>0 DEF CountLagsByOne
  <2>0. sends[p] + refused[p] = table[p].attempts + (IF Open(p) THEN 1 ELSE 0)
    BY DEF CountLagsByOne
  <2>1. CASE p # q
    <3>1. Open(p)' <=> Open(p)
      BY <1>1, <1>2, <2>1, OpenAfter DEF Open
    <3> QED
      BY <1>4, <2>0, <2>1, <3>1
  <2>2. CASE p = q
    <3>1. Open(p)' <=> Send(d)
      <4>1. ~ \E c \in Dispatchers \ {d} : dispatchers[c].row = p
        BY <1>0, <2>2
      <4>2. Open(p)' <=> r.pc = "sent" /\ r.row = q
        BY <1>3, <2>2, <4>1 DEF Open
      <4> QED
        BY <1>1, <1>2, <4>2
    <3>2. Open(p) <=> me.pc = "sent"
      BY <1>0, <2>2 DEF Open
    <3>3. CASE Send(d)
      BY <1>0, <2>0, <2>2, <3>1, <3>2, <3>3 DEF Send, TypeOK
    <3>4. CASE SendRefused(d)
      <4>1. ~Send(d) /\ me.pc = "claimed"
        BY <3>4 DEF Send, SendRefused, TypeOK
      <4>2. /\ table'[q].attempts = me.attempts + 1 /\ sends'[q] = sends[q]
            /\ refused'[q] = refused[q] + 1
        BY <1>0, <3>4 DEF SendRefused, TypeOK
      <4> QED
        BY <1>0, <2>0, <2>2, <3>1, <3>2, <4>1, <4>2
    <3>5. CASE Record(d)
      <4>1. ~Send(d) /\ me.pc = "sent"
        BY <3>5 DEF Send, Record
      <4>2. /\ table'[q].attempts = me.attempts + 1 /\ sends'[q] = sends[q]
            /\ refused'[q] = refused[q]
        BY <1>0, <3>5 DEF Record, TypeOK
      <4> QED
        BY <1>0, <2>0, <2>2, <3>1, <3>2, <4>1, <4>2
    <3> QED
      BY <3>3, <3>4, <3>5
  <2> QED
    BY <2>1, <2>2
<1> QED
  BY <1>5, <1>6, <1>7, <1>8

\* A row is committed.
LEMMA WriteStep ==
  ASSUME DispatchInv, NEW r \in Rows, Write(r)
  PROVE  DispatchInv'
<1> USE DEF DispatchInv
<1>1. /\ table' \in [Rows -> RowRecord]
      /\ \A q \in Rows : table'[q].attempts = table[q].attempts
      /\ \A q \in Rows : q # r => table'[q] = table[q]
      /\ table[r].state = "none"
      /\ UNCHANGED <<dispatchers, sends, refused, crashes, errors>>
  BY DEF Write, TypeOK, RowRecord
<1>2. TypeOK'
  BY <1>1 DEF TypeOK, RowRecord
<1>3. LocksAreExclusive'
  BY <1>1 DEF LocksAreExclusive
<1>4. ClaimIsCurrent'
  BY <1>1 DEF ClaimIsCurrent, TypeOK
<1>5. CountLagsByOne'
  BY <1>1 DEF CountLagsByOne, Open
<1> QED
  BY <1>2, <1>3, <1>4, <1>5

LEMMA NextDispatch == DispatchInv /\ [Next]_vars => DispatchInv'
<1> SUFFICES ASSUME DispatchInv, [Next]_vars PROVE DispatchInv'
  OBVIOUS
<1>1. CASE UNCHANGED vars
  BY <1>1 DEF vars, DispatchInv, TypeOK, LocksAreExclusive, ClaimIsCurrent,
    CountLagsByOne, Open
<1> QED
  BY <1>1, TickSteps, RowSteps, WriteStep DEF Next, DispatcherStep

\* The inductive invariant holds in every reachable state.
THEOREM DispatchIsInvariant == Spec => []DispatchInv
<1>1. Init => DispatchInv
  BY InitDispatch
<1>2. DispatchInv /\ [Next]_vars => DispatchInv'
  BY NextDispatch
<1> QED
  BY <1>1, <1>2, PTL DEF Spec

\* The types; in particular no tick goes beyond its batch.
THEOREM TypeCorrect == Spec => []TypeOK
<1>1. DispatchInv => TypeOK
  BY DEF DispatchInv
<1> QED
  BY <1>1, DispatchIsInvariant, PTL

\* No update of attempt_count is lost, although it is read at the claim and written
\* at the commit.
THEOREM NoAttemptIsLost == Spec => []EveryAttemptIsCounted
<1>1. DispatchInv => EveryAttemptIsCounted
  <2> SUFFICES ASSUME DispatchInv, crashes + errors = 0, NEW r \in Rows, ~Locked(r)
               PROVE  table[r].attempts = sends[r] + refused[r]
    BY DEF EveryAttemptIsCounted
  <2>1. ~Open(r)
    BY DEF Open, Locked
  <2> QED
    BY <2>1 DEF DispatchInv, CountLagsByOne, TypeOK
<1> QED
  BY <1>1, DispatchIsInvariant, PTL

-----------------------------------------------------------------------------
(* Every step is a step of at-least-once delivery, or none of it.            *)

\* At the start nothing is written, sent, open or lost.
LEMMA InitRefines == Init => Delivery!Init
<1> SUFFICES ASSUME Init PROVE Delivery!Init
  OBVIOUS
<1>1. \A r \in Rows : ~Open(r)
  BY IdleTick DEF Init, Open
<1>2. {r \in Rows : Open(r)} = {}
  BY <1>1
<1>3. [r \in Rows |-> table[r].state] = [r \in Rows |-> "none"]
  BY DEF Init
<1>4. crashes + errors = 0 /\ sends = [r \in Rows |-> 0]
  BY DEF Init
<1> QED
  BY <1>2, <1>3, <1>4 DEF Delivery!Init

\* A row is committed.
LEMMA WriteRefines ==
  ASSUME TypeOK, NEW r \in Rows, Write(r)
  PROVE  Delivery!Write(r)
<1>1. table'[r].state = "pending" /\ \A q \in Rows : q # r => table'[q] = table[q]
  BY DEF Write, TypeOK
<1>2. [q \in Rows |-> table'[q].state]
        = [[q \in Rows |-> table[q].state] EXCEPT ![r] = "pending"]
  BY <1>1
<1>3. {q \in Rows : Open(q)}' = {q \in Rows : Open(q)}
  BY DEF Open, Write
<1> QED
  BY <1>2, <1>3 DEF Write, Delivery!Write

\* A tick that neither has a message open nor opens one changes nothing.
LEMMA TickStutters ==
  ASSUME TypeOK, NEW d \in Dispatchers,
         StartTick(d) \/ Claim(d) \/ EndTick(d) \/ SendRefused(d)
  PROVE  UNCHANGED Delivery!vars
<1>1. \A q \in Rows : table'[q].state = table[q].state
  <2>1. CASE SendRefused(d)
    <3>1. table' = [table EXCEPT ![dispatchers[d].row].attempts = dispatchers[d].attempts + 1]
      BY <2>1 DEF SendRefused
    <3> QED
      BY <3>1 DEF TypeOK
  <2>2. CASE StartTick(d) \/ Claim(d) \/ EndTick(d)
    BY <2>2 DEF StartTick, Claim, EndTick
  <2> QED
    BY <2>1, <2>2
<1>2. [q \in Rows |-> table'[q].state] = [q \in Rows |-> table[q].state]
  BY <1>1
<1>3. UNCHANGED <<sends, crashes, errors>>
  BY DEF StartTick, Claim, EndTick, SendRefused
<1>4. dispatchers[d].pc # "sent"
  BY DEF StartTick, Claim, EndTick, SendRefused
<1>5. dispatchers'[d].pc # "sent"
      /\ \A c \in Dispatchers : c # d => dispatchers'[c] = dispatchers[c]
  <2>1. CASE StartTick(d)
    <3>1. dispatchers' = [dispatchers EXCEPT ![d] = [Idle EXCEPT !.pc = "claim", !.left = BatchSize]]
      BY <2>1 DEF StartTick
    <3>2. [Idle EXCEPT !.pc = "claim", !.left = BatchSize].pc = "claim"
      BY DEF Idle
    <3> QED
      BY <3>1, <3>2 DEF TypeOK
  <2>2. CASE Claim(d)
    <3> PICK q \in Claimable :
          dispatchers' = [dispatchers EXCEPT ![d].pc = "claimed", ![d].row = q,
                                             ![d].attempts = table[q].attempts,
                                             ![d].left = @ - 1]
      BY <2>2 DEF Claim
    <3> QED
      BY DEF TypeOK
  <2>3. CASE EndTick(d)
    BY <2>3, IdleTick DEF EndTick, TypeOK
  <2>4. CASE SendRefused(d)
    <3>1. dispatchers' = [dispatchers EXCEPT ![d].pc = "claim", ![d].row = NoRow]
      BY <2>4 DEF SendRefused, Onward
    <3> QED
      BY <3>1 DEF TypeOK
  <2> QED
    BY <2>1, <2>2, <2>3, <2>4
<1>6. \A q \in Rows : Open(q)' <=> Open(q)
  BY <1>4, <1>5 DEF Open
<1>7. {q \in Rows : Open(q)}' = {q \in Rows : Open(q)}
  BY <1>6
<1> QED
  BY <1>2, <1>3, <1>7 DEF Delivery!vars

\* What a message opens and its record or its loss closes is the row of the tick's
\* lock alone.
LEMMA OpenRows ==
  ASSUME DispatchInv, NEW d \in Dispatchers, NEW q \in Rows, dispatchers[d].row = q,
         NEW me, dispatchers' = [dispatchers EXCEPT ![d] = me]
  PROVE  /\ Open(q) <=> dispatchers[d].pc = "sent"
         /\ me.pc = "sent" /\ me.row = q =>
              {p \in Rows : Open(p)}' = {p \in Rows : Open(p)} \cup {q}
         /\ me.pc # "sent" => {p \in Rows : Open(p)}' = {p \in Rows : Open(p)} \ {q}
<1>1. \A c \in Dispatchers : c # d => dispatchers[c].row # q
  BY Numbers DEF DispatchInv, LocksAreExclusive
<1>2. Open(q) <=> dispatchers[d].pc = "sent"
  BY <1>1 DEF Open
<1>3. TypeOK
  BY DEF DispatchInv
<1>4. \A p \in Rows : p # q =>
        (Open(p) <=> \E c \in Dispatchers \ {d} :
                       dispatchers[c].pc = "sent" /\ dispatchers[c].row = p)
  BY DEF Open
<1>5. \A p \in Rows :
        Open(p)' <=> \/ me.pc = "sent" /\ me.row = p
                     \/ \E c \in Dispatchers \ {d} :
                          dispatchers[c].pc = "sent" /\ dispatchers[c].row = p
  <2>1. dispatchers'[d] = me
        /\ \A c \in Dispatchers : c # d => dispatchers'[c] = dispatchers[c]
    BY <1>3 DEF TypeOK
  <2> QED
    BY <2>1 DEF Open
<1>6. ASSUME me.pc = "sent", me.row = q
      PROVE  {p \in Rows : Open(p)}' = {p \in Rows : Open(p)} \cup {q}
  <2>1. \A p \in Rows : Open(p)' <=> Open(p) \/ p = q
    BY <1>1, <1>4, <1>5, <1>6
  <2> QED
    BY <2>1
<1>7. ASSUME me.pc # "sent"
      PROVE  {p \in Rows : Open(p)}' = {p \in Rows : Open(p)} \ {q}
  <2>1. \A p \in Rows : Open(p)' <=> Open(p) /\ p # q
    BY <1>1, <1>4, <1>5, <1>7
  <2> QED
    BY <2>1
<1> QED
  BY <1>2, <1>6, <1>7

\* A claimed row is pending and has no message open when it is sent.
LEMMA SendRefines ==
  ASSUME DispatchInv, NEW d \in Dispatchers, Send(d)
  PROVE  \E r \in Rows : Delivery!Send(r)
<1> PICK q \in Rows : q = dispatchers[d].row /\ q # NoRow
  BY Numbers DEF DispatchInv, TypeOK, Send
<1> PICK me : me = [dispatchers[d] EXCEPT !.pc = "sent"]
  OBVIOUS
<1>1. /\ dispatchers' = [dispatchers EXCEPT ![d] = me]
      /\ me.pc = "sent" /\ me.row = q
  BY DEF Send, DispatchInv, TypeOK
<1>2. table[q].state = "pending"
  BY DEF DispatchInv, ClaimIsCurrent
<1>3. ~Open(q)
  BY <1>1, OpenRows DEF Send
<1>4. {p \in Rows : Open(p)}' = {p \in Rows : Open(p)} \cup {q}
  BY <1>1, OpenRows
<1>5. sends' = [sends EXCEPT ![q] = @ + 1]
  BY DEF Send
<1>6. Delivery!Send(q)
  BY <1>2, <1>3, <1>4, <1>5 DEF Send, Delivery!Send
<1> QED
  BY <1>6

\* Recording closes the message of the tick's row and publishes no other.
LEMMA RecordRefines ==
  ASSUME DispatchInv, NEW d \in Dispatchers, Record(d)
  PROVE  \E r \in Rows : Delivery!Record(r)
<1> PICK q \in Rows : q = dispatchers[d].row /\ q # NoRow
  BY Numbers DEF DispatchInv, TypeOK, Record
<1> PICK me : me = [dispatchers[d] EXCEPT !.pc = "claim", !.row = NoRow]
  OBVIOUS
<1>1. /\ dispatchers' = [dispatchers EXCEPT ![d] = me]
      /\ me.pc # "sent"
  BY DEF Record, Onward, DispatchInv, TypeOK
<1>2. Open(q) /\ {p \in Rows : Open(p)}' = {p \in Rows : Open(p)} \ {q}
  BY <1>1, OpenRows DEF Record
<1>3. table'[q].state = "published" /\ \A p \in Rows : p # q => table'[p] = table[p]
  BY DEF Record, DispatchInv, TypeOK
<1>4. [p \in Rows |-> table'[p].state]
        = [[p \in Rows |-> table[p].state] EXCEPT ![q] = "published"]
  BY <1>3
<1>5. Delivery!Record(q)
  BY <1>2, <1>4 DEF Record, Delivery!Record
<1> QED
  BY <1>5

\* An error or a crash loses the record of the message that was open.
LEMMA LossRefines ==
  ASSUME DispatchInv, NEW d \in Dispatchers, RecordFails(d) \/ Crash(d)
  PROVE  \E r \in Rows : Delivery!Lose(r)
<1> PICK q \in Rows : q = dispatchers[d].row /\ q # NoRow
  BY Numbers DEF DispatchInv, TypeOK, RecordFails, Crash
<1>1. /\ dispatchers' = [dispatchers EXCEPT ![d] = Idle] /\ Idle.pc # "sent"
      /\ dispatchers[d].pc = "sent"
  BY IdleTick DEF RecordFails, Crash
<1>2. Open(q) /\ {p \in Rows : Open(p)}' = {p \in Rows : Open(p)} \ {q}
  BY <1>1, OpenRows
<1>3. /\ crashes + errors < MaxFaults
      /\ crashes' + errors' = (crashes + errors) + 1
  BY DEF RecordFails, Crash, DispatchInv, TypeOK
<1>4. UNCHANGED <<table, sends>>
  BY DEF RecordFails, Crash
<1>5. Delivery!Lose(q)
  BY <1>2, <1>3, <1>4 DEF Delivery!Lose
<1> QED
  BY <1>5

\* Every step of the dispatchers is a step of Delivery or leaves it unchanged.
LEMMA NextRefines == DispatchInv /\ [Next]_vars => [Delivery!Next]_(Delivery!vars)
<1> SUFFICES ASSUME DispatchInv, [Next]_vars PROVE [Delivery!Next]_(Delivery!vars)
  OBVIOUS
<1>0. TypeOK
  BY DEF DispatchInv
<1>1. CASE UNCHANGED vars
  BY <1>1 DEF vars, Delivery!vars, Open
<1>2. CASE \E r \in Rows : Write(r)
  BY <1>0, <1>2, WriteRefines DEF Delivery!Next
<1>3. ASSUME NEW d \in Dispatchers,
             StartTick(d) \/ Claim(d) \/ EndTick(d) \/ SendRefused(d)
      PROVE  UNCHANGED Delivery!vars
  BY <1>0, <1>3, TickStutters
<1>4. ASSUME NEW d \in Dispatchers, Send(d) \/ Record(d) \/ RecordFails(d) \/ Crash(d)
      PROVE  Delivery!Next
  BY <1>4, SendRefines, RecordRefines, LossRefines DEF Delivery!Next
<1> QED
  BY <1>1, <1>2, <1>3, <1>4 DEF Next, DispatcherStep

\* The dispatchers, their locks and their batches implement at-least-once delivery:
\* a row is sent only while it is pending and no message of it is open, and sent
\* again only after a record of it was lost.
THEOREM DispatchersImplementDelivery == Spec => ImplementsDeliverySteps
<1>1. Init => Delivery!Init
  BY InitRefines
<1>2. DispatchInv /\ [Next]_vars => [Delivery!Next]_(Delivery!vars)
  BY NextRefines
<1> QED
  BY <1>1, <1>2, DispatchIsInvariant, PTL DEF Spec, ImplementsDeliverySteps, Delivery!SafeSpec

=============================================================================
