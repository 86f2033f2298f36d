------------------------ MODULE LoginFailuresProofs ------------------------
(***************************************************************************)
(* For every number of connections, keys, limits and minutes: the limiter  *)
(* loses no wrong attempt, overshoots a limit by at most one attempt per   *)
(* connection, and a lockout with no attempt in flight is permanent.       *)
(***************************************************************************)
EXTENDS LoginFailures, FiniteSetTheorems, TLAPS

\* The position of the last key, the peer's address, is a natural number and
\* every position before it names a key of the map.
LEMMA KeyPositions ==
    ASSUME NEW c \in Conns
    PROVE  /\ Last(c) \in Nat
           /\ Last(c) > 0
           /\ \A i \in 1..Last(c) : KeysOf[c][i] \in Buckets
           /\ Address(c) \in Buckets
BY KeysAreSequences DEF Last, Address

\* Recording a wrong attempt keeps an entry an entry and adds one to its total.
LEMMA BumpEntry ==
    ASSUME NEW e \in Entry, NEW t \in Nat
    PROVE  /\ bump_failure_entry(e, t) \in Entry
           /\ bump_failure_entry(e, t).total = e.total + 1
BY DEF bump_failure_entry, Entry

\* Ending an attempt resets its position and its locals and touches no other.
LEMMA FinishTypes ==
    ASSUME TypeOK, NEW c \in Conns, Finish(c)
    PROVE  /\ step' \in [Conns -> Nat]
           /\ \A d \in Conns : step'[d] \in 0..(Last(d) + 1)
           /\ time' \in [Conns -> Nat]
           /\ snapshot' \in [Conns -> Entry]
           /\ clock' \in Nat
<1>1. NoEntry \in Entry
  BY DEF NoEntry, Entry
<1>2. step' \in [Conns -> Nat] /\ time' \in [Conns -> Nat]
  BY DEF Finish, TypeOK
<1>3. snapshot' \in [Conns -> Entry]
  BY <1>1 DEF Finish, TypeOK
<1>4. ASSUME NEW d \in Conns PROVE step'[d] \in 0..(Last(d) + 1)
  <2>1. step'[d] = IF d = c THEN 0 ELSE step[d]
    BY DEF Finish, TypeOK
  <2>2. QED
    BY <2>1, KeyPositions DEF TypeOK
<1>5. clock' \in Nat
  BY DEF Finish, TypeOK
<1>6. QED
  BY <1>2, <1>3, <1>4, <1>5

\* The entries, the position and the locals of every attempt keep their types.
THEOREM TypeCorrect == Spec => []TypeOK
<1>1. Init => TypeOK
  BY KeyPositions DEF Init, TypeOK, Entry, NoEntry
<1>2. TypeOK /\ [Next]_vars => TypeOK'
  <2> SUFFICES ASSUME TypeOK, [Next]_vars PROVE TypeOK'
    OBVIOUS
  <2> USE DEF TypeOK
  <2>1. CASE UNCHANGED vars
    BY <2>1 DEF vars, Last
  <2>2. ASSUME NEW c \in Conns, Begin(c) PROVE TypeOK'
    BY <2>2, KeyPositions, MinutesPositive DEF Begin, Last
  <2>3. ASSUME NEW c \in Conns, CheckBlocked(c) \/ NoVerdict(c) PROVE TypeOK'
    BY <2>3, FinishTypes DEF CheckBlocked, NoVerdict, Last
  <2>4. ASSUME NEW c \in Conns, CheckAllowed(c) PROVE TypeOK'
    BY <2>4, KeyPositions DEF CheckAllowed, Last
  <2>5. ASSUME NEW c \in Conns, RecordWrong(c) PROVE TypeOK'
    <3>1. failures' \in [Buckets -> Entry]
      BY <2>5, BumpEntry DEF RecordWrong
    <3>2. QED
      BY <2>5, <3>1, FinishTypes DEF RecordWrong, Last
  <2>6. ASSUME NEW c \in Conns, RecordRight(c) PROVE TypeOK'
    <3>1. failures' \in [Buckets -> Entry]
      BY <2>6 DEF RecordRight, NoEntry, Entry
    <3>2. QED
      BY <2>6, <3>1, FinishTypes DEF RecordRight, Last
  <2>7. QED
    BY <2>1, <2>2, <2>3, <2>4, <2>5, <2>6 DEF Next
<1>3. QED
  BY <1>1, <1>2, PTL DEF Spec

\* Whatever the interleaving, a key's total counts every wrong attempt
\* recorded since it was last cleared: update_failure re-reads under the lock.
THEOREM NothingLost == Spec => []NoFailureLost
<1>1. Init => NoFailureLost
  BY DEF Init, NoFailureLost, NoEntry
<1>2. TypeOK /\ NoFailureLost /\ [Next]_vars => NoFailureLost'
  <2> SUFFICES ASSUME TypeOK, NoFailureLost, [Next]_vars PROVE NoFailureLost'
    OBVIOUS
  <2> USE DEF TypeOK, NoFailureLost
  <2>1. CASE UNCHANGED <<failures, log>>
    BY <2>1
  <2>2. ASSUME NEW c \in Conns, RecordWrong(c) PROVE NoFailureLost'
    <3>1. ASSUME NEW b \in Buckets PROVE failures'[b].total = Len(log'[b])
      <4>1. bump_failure_entry(failures[b], time[c]).total = failures[b].total + 1
        BY BumpEntry
      <4>2. failures[b].total \in Nat /\ failures[b].total = Len(log[b])
        BY DEF Entry
      <4>3. QED
        BY <2>2, <4>1, <4>2 DEF RecordWrong
    <3>2. QED
      BY <3>1
  <2>3. ASSUME NEW c \in Conns, RecordRight(c) PROVE NoFailureLost'
    BY <2>3 DEF RecordRight, NoEntry
  <2>4. QED
    BY <2>1, <2>2, <2>3
       DEF Next, vars, Begin, CheckBlocked, CheckAllowed, NoVerdict
<1>3. QED
  BY <1>1, <1>2, TypeCorrect, PTL DEF Spec

\* Attempts in flight at a key are connections, so there are finitely many.
LEMMA InflightFinite ==
    ASSUME NEW b
    PROVE  /\ IsFiniteSet(Inflight(b))
           /\ Cardinality(Inflight(b)) \in Nat
           /\ Cardinality(Inflight(b)) <= Cardinality(Conns)
           /\ Cardinality(Conns) \in Nat
<1>1. Inflight(b) \in SUBSET Conns
  BY DEF Inflight
<1>2. QED
  BY <1>1, ConnsFinite, FS_Subset, FS_CardinalityType

\* The same for the attempts in flight after a step.
LEMMA InflightFinitePrime ==
    ASSUME NEW b
    PROVE  /\ IsFiniteSet(Inflight(b)')
           /\ Cardinality(Inflight(b)') \in Nat
           /\ Cardinality(Inflight(b)') <= Cardinality(Conns)
<1>1. Inflight(b)' \in SUBSET Conns
  BY DEF Inflight
<1>2. QED
  BY <1>1, ConnsFinite, FS_Subset, FS_CardinalityType

\* A connection that ends its attempt leaves the sets it was in flight in,
\* and no other connection's membership changes.
LEMMA FinishLeaves ==
    ASSUME TypeOK, NEW c \in Conns, Finish(c), NEW b
    PROVE  Inflight(b)' = Inflight(b) \ {c}
<1>1. \A d \in Conns : step'[d] = IF d = c THEN 0 ELSE step[d]
  BY DEF Finish, TypeOK
<1>2. \A i \in 1..Last(c) : ~(i < 0)
  BY KeyPositions
<1>3. QED
  BY <1>1, <1>2 DEF Inflight, Last

\* The overshoot invariant: what a key holds plus what may still be added by
\* attempts past its check never exceeds its limit by more than one attempt
\* per connection.  It is inductive, the bound on the total alone is not.
THEOREM Overshoot == Spec => []TotalPlusInflight
<1>1. Init => TotalPlusInflight
  <2> SUFFICES ASSUME Init, NEW b \in Buckets
               PROVE  failures[b].total + Cardinality(Inflight(b))
                        <= Limit[b] + Cardinality(Conns)
    BY DEF TotalPlusInflight
  <2>1. failures[b].total = 0
    BY DEF Init, NoEntry
  <2>2. QED
    BY <2>1, InflightFinite, LimitsAreNat
<1>2. TypeOK /\ TotalPlusInflight /\ [Next]_vars => TotalPlusInflight'
  <2> SUFFICES ASSUME TypeOK, TotalPlusInflight, [Next]_vars, NEW b \in Buckets
               PROVE  failures'[b].total + Cardinality(Inflight(b)')
                        <= Limit[b] + Cardinality(Conns)
    BY DEF TotalPlusInflight
  <2>0. /\ failures[b].total \in Nat
        /\ Limit[b] \in Nat
        /\ failures[b].total + Cardinality(Inflight(b)) <= Limit[b] + Cardinality(Conns)
    BY LimitsAreNat DEF TypeOK, Entry, TotalPlusInflight
  <2>1. CASE UNCHANGED vars
    BY <2>0, <2>1 DEF vars, Inflight, Last
  <2>2. ASSUME NEW c \in Conns, Begin(c)
        PROVE  failures'[b].total + Cardinality(Inflight(b)') <= Limit[b] + Cardinality(Conns)
    <3>1. \A d \in Conns : step'[d] = IF d = c THEN 1 ELSE step[d]
      BY <2>2 DEF Begin, TypeOK
    <3>2. \A i \in 1..Last(c) : ~(i < 1) /\ ~(i < step[c])
      BY <2>2, KeyPositions DEF Begin
    <3>3. Inflight(b)' = Inflight(b)
      BY <3>1, <3>2 DEF Inflight, Last
    <3>4. QED
      BY <2>0, <2>2, <3>3 DEF Begin
  <2>3. ASSUME NEW c \in Conns, Finish(c), failures'[b].total \in Nat,
               \/ failures'[b].total <= failures[b].total
               \/ c \in Inflight(b) /\ failures'[b].total = failures[b].total + 1
        PROVE  failures'[b].total + Cardinality(Inflight(b)') <= Limit[b] + Cardinality(Conns)
    <3>1. Inflight(b)' = Inflight(b) \ {c}
      BY <2>3, FinishLeaves
    <3>2. Cardinality(Inflight(b)') =
            IF c \in Inflight(b) THEN Cardinality(Inflight(b)) - 1 ELSE Cardinality(Inflight(b))
      BY <3>1, InflightFinite, FS_RemoveElement
    <3>3. QED
      BY <2>0, <2>3, <3>2, InflightFinite
  <2>4. ASSUME NEW c \in Conns, CheckBlocked(c) \/ NoVerdict(c)
        PROVE  failures'[b].total + Cardinality(Inflight(b)') <= Limit[b] + Cardinality(Conns)
    BY <2>0, <2>3, <2>4 DEF CheckBlocked, NoVerdict
  <2>5. ASSUME NEW c \in Conns, CheckAllowed(c)
        PROVE  failures'[b].total + Cardinality(Inflight(b)') <= Limit[b] + Cardinality(Conns)
    <3>1. CASE KeysOf[c][step[c]] = b
      <4>1. failures'[b].total <= Limit[b]
        BY <2>0, <2>5, <3>1 DEF CheckAllowed, Blocked, PrefixBlocked, AddressBlocked, Address
      <4>2. failures'[b].total \in Nat
        BY <2>0, <2>5 DEF CheckAllowed
      <4>3. QED
        BY <2>0, <4>1, <4>2, InflightFinite, InflightFinitePrime
    <3>2. CASE KeysOf[c][step[c]] # b
      <4>1. \A d \in Conns : step'[d] = IF d = c THEN step[c] + 1 ELSE step[d]
        BY <2>5 DEF CheckAllowed, TypeOK
      <4>2. \A i \in 1..Last(c) : i < step[c] + 1 <=> (i < step[c] \/ i = step[c])
        BY <2>5, KeyPositions DEF TypeOK
      <4>3. Inflight(b)' = Inflight(b)
        BY <3>2, <4>1, <4>2 DEF Inflight, Last
      <4>4. QED
        BY <2>0, <2>5, <4>3 DEF CheckAllowed
    <3>3. QED
      BY <3>1, <3>2
  <2>6. ASSUME NEW c \in Conns, RecordWrong(c)
        PROVE  failures'[b].total + Cardinality(Inflight(b)') <= Limit[b] + Cardinality(Conns)
    <3>1. CASE b \in Own(c)
      <4>1. c \in Inflight(b)
        BY <2>6, <3>1, KeyPositions DEF RecordWrong, Verifying, Own, Inflight
      <4>2. failures'[b].total = failures[b].total + 1
        BY <2>6, <3>1, BumpEntry DEF RecordWrong, TypeOK
      <4>3. QED
        BY <2>0, <2>3, <2>6, <4>1, <4>2 DEF RecordWrong
    <3>2. CASE b \notin Own(c)
      BY <2>0, <2>3, <2>6, <3>2 DEF RecordWrong
    <3>3. QED
      BY <3>1, <3>2
  <2>7. ASSUME NEW c \in Conns, RecordRight(c)
        PROVE  failures'[b].total + Cardinality(Inflight(b)') <= Limit[b] + Cardinality(Conns)
    <3>1. failures'[b].total \in Nat /\ failures'[b].total <= failures[b].total
      BY <2>0, <2>7 DEF RecordRight, NoEntry
    <3>2. QED
      BY <2>3, <2>7, <3>1 DEF RecordRight
  <2>8. QED
    BY <2>1, <2>2, <2>4, <2>5, <2>6, <2>7 DEF Next
<1>3. QED
  BY <1>1, <1>2, TypeCorrect, PTL DEF Spec

\* The counters of the limiter are bounded by the limit and the number of
\* connections that can attempt at the same time.
THEOREM Bounded == Spec => []TotalBounded
<1>1. TypeOK /\ TotalPlusInflight => TotalBounded
  BY InflightFinite, LimitsAreNat DEF TypeOK, Entry, TotalPlusInflight, TotalBounded
<1>2. QED
  BY <1>1, TypeCorrect, Overshoot, PTL

\* Once a key is over its limit and no attempt is past its check, no step
\* changes the key and no attempt passes its check again.
THEOREM Lockout == Spec => LockoutPermanent
<1>1. ASSUME TypeOK, [Next]_vars, NEW b \in Buckets,
             failures[b].total > Limit[b], Inflight(b) = {}
      PROVE  failures'[b] = failures[b] /\ Inflight(b)' = {}
  <2>1. CASE UNCHANGED vars
    BY <1>1, <2>1 DEF vars, Inflight, Last
  <2>2. ASSUME NEW c \in Conns, Begin(c)
        PROVE  failures'[b] = failures[b] /\ Inflight(b)' = {}
    <3>1. \A d \in Conns : step'[d] = IF d = c THEN 1 ELSE step[d]
      BY <1>1, <2>2 DEF Begin, TypeOK
    <3>2. \A i \in 1..Last(c) : ~(i < 1)
      BY KeyPositions
    <3>3. QED
      BY <1>1, <2>2, <3>1, <3>2 DEF Begin, Inflight, Last
  <2>3. ASSUME NEW c \in Conns, Finish(c) PROVE Inflight(b)' = {}
    BY <1>1, <2>3, FinishLeaves
  <2>4. ASSUME NEW c \in Conns, CheckBlocked(c) \/ NoVerdict(c)
        PROVE  failures'[b] = failures[b] /\ Inflight(b)' = {}
    BY <2>3, <2>4 DEF CheckBlocked, NoVerdict
  <2>5. ASSUME NEW c \in Conns, CheckAllowed(c)
        PROVE  failures'[b] = failures[b] /\ Inflight(b)' = {}
    <3>1. KeysOf[c][step[c]] # b
      BY <1>1, <2>5 DEF CheckAllowed, Blocked, PrefixBlocked, AddressBlocked, Address
    <3>2. \A d \in Conns : step'[d] = IF d = c THEN step[c] + 1 ELSE step[d]
      BY <1>1, <2>5 DEF CheckAllowed, TypeOK
    <3>3. \A i \in 1..Last(c) : i < step[c] + 1 => (i < step[c] \/ i = step[c])
      BY <1>1, <2>5, KeyPositions DEF TypeOK
    <3>4. Inflight(b)' = Inflight(b)
      BY <3>1, <3>2, <3>3, <1>1, KeyPositions DEF Inflight, Last, TypeOK
    <3>5. QED
      BY <1>1, <2>5, <3>4 DEF CheckAllowed
  <2>6. ASSUME NEW c \in Conns, Verifying(c) PROVE b \notin Own(c)
    BY <1>1, <2>6, KeyPositions DEF Verifying, Own, Inflight
  <2>7. ASSUME NEW c \in Conns, RecordWrong(c) \/ RecordRight(c)
        PROVE  failures'[b] = failures[b] /\ Inflight(b)' = {}
    BY <1>1, <2>3, <2>6, <2>7 DEF RecordWrong, RecordRight
  <2>8. QED
    BY <1>1, <2>1, <2>2, <2>4, <2>5, <2>7 DEF Next
<1>2. TypeOK /\ [Next]_vars =>
        [\A b \in Buckets : failures[b].total > Limit[b] /\ Inflight(b) = {}
            => failures'[b] = failures[b] /\ Inflight(b)' = {}]_vars
  BY <1>1
<1>3. QED
  BY <1>2, TypeCorrect, PTL DEF Spec, LockoutPermanent
=============================================================================
