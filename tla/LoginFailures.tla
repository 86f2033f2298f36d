--------------------------- MODULE LoginFailures ---------------------------
(***************************************************************************)
(* The limiter of wrong login attempts, LOGIN_FAILURES of                  *)
(* src/server/connection.rs.  Every connection is a task of its own; one   *)
(* attempt is a sequence of separately locked steps: check_failure reads   *)
(* the netblock entries and then the address entry, the credential is      *)
(* verified without any lock, and update_failure takes the lock again to   *)
(* record the outcome.  The program keeps two such maps (passwords and     *)
(* second factors), which share nothing; this module is one of them.       *)
(***************************************************************************)
EXTENDS Integers, Sequences, FiniteSets

CONSTANTS
    Conns,        \* connections, each one a task
    Buckets,      \* keys of the map: addresses and IPv6 netblocks
    KeysOf,       \* KeysOf[c]: the keys c is checked against, in code order;
                  \* the last one is the address of the peer
    Limit,        \* Limit[b]: 30 for an address, 60 / 80 / 100 for netblocks
    MinuteLimit,  \* 6: wrong attempts of one address within one minute
    Minutes,      \* wall-clock minutes an attempt may read
    ClockSetBack  \* whether the wall clock may be set back

ASSUME ConnsFinite == IsFiniteSet(Conns)
ASSUME LimitsAreNat == Limit \in [Buckets -> Nat] /\ MinuteLimit \in Nat
ASSUME MinutesPositive == Minutes \subseteq Nat \ {0}
ASSUME ClockSetBackIsBoolean == ClockSetBack \in BOOLEAN
ASSUME KeysAreSequences ==
    /\ KeysOf \in [Conns -> Seq(Buckets)]
    /\ \A c \in Conns : /\ Len(KeysOf[c]) > 0
                        /\ \A i, j \in 1..Len(KeysOf[c]) :
                              KeysOf[c][i] = KeysOf[c][j] => i = j

VARIABLES
    failures,  \* the map: [minute, inMinute, total], all zero when absent
    step,      \* step[c]: 0 no attempt; i <= Len: key i is read next;
               \* Len + 1: allowed, the credential is being verified
    time,      \* time[c]: the minute read when the attempt began
    snapshot,  \* snapshot[c]: the address entry check_failure returned
    clock,     \* the minute before which the clock reads no more
    log        \* history: log[b] is the sequence of the minutes of the wrong
               \* attempts recorded since the key was cleared

vars == <<failures, step, time, snapshot, clock, log>>

Entry == [minute : Nat, inMinute : Nat, total : Nat]
NoEntry == [minute |-> 0, inMinute |-> 0, total |-> 0]

Last(c) == Len(KeysOf[c])
Address(c) == KeysOf[c][Last(c)]
Verifying(c) == step[c] = Last(c) + 1
Own(c) == {KeysOf[c][i] : i \in 1..Last(c)}

Init ==
    /\ failures = [b \in Buckets |-> NoEntry]
    /\ step = [c \in Conns |-> 0]
    /\ time = [c \in Conns |-> 0]
    /\ snapshot = [c \in Conns |-> NoEntry]
    /\ clock = 0
    /\ log = [b \in Buckets |-> <<>>]

(***************************************************************************)
(* One attempt.  It reads the wall clock once, as it begins; time and      *)
(* snapshot are its locals.                                                *)
(***************************************************************************)
Begin(c) ==
    /\ step[c] = 0
    /\ step' = [step EXCEPT ![c] = 1]
    /\ \E m \in Minutes : /\ m >= clock
                          /\ time' = [time EXCEPT ![c] = m]
                          /\ clock' = IF ClockSetBack THEN clock ELSE m
    /\ UNCHANGED <<failures, snapshot, log>>

Finish(c) ==
    /\ step' = [step EXCEPT ![c] = 0]
    /\ time' = [time EXCEPT ![c] = 0]
    /\ snapshot' = [snapshot EXCEPT ![c] = NoEntry]
    /\ UNCHANGED clock

\* Variant for mutation: only the address is held to its total.
Bug_AddressTotalOnly(c, i) ==
    LET e == failures[KeysOf[c][i]]
    IN  /\ i = Last(c)
        /\ \/ e.total > Limit[KeysOf[c][i]]
           \/ time[c] = e.minute /\ e.inMinute > MinuteLimit

\* Variant for mutation: the rule for one minute is missing.
Bug_NoMinuteRule(c, i) == failures[KeysOf[c][i]].total > Limit[KeysOf[c][i]]

\* Variant for mutation: only the rule for one minute is left.
Bug_MinuteRuleOnly(c, i) ==
    LET e == failures[KeysOf[c][i]]
    IN  i = Last(c) /\ time[c] = e.minute /\ e.inMinute > MinuteLimit

\* The rule of check_failure_ipv6_prefix for a netblock.
PrefixBlocked(c, i) == failures[KeysOf[c][i]].total > Limit[KeysOf[c][i]]

\* The rules of check_failure_with_scope for the address.
AddressBlocked(c) ==
    LET e == failures[Address(c)]
    IN  \/ e.total > Limit[Address(c)]
        \/ time[c] = e.minute /\ e.inMinute > MinuteLimit

Blocked(c, i) == IF i = Last(c) THEN AddressBlocked(c) ELSE PrefixBlocked(c, i)

CheckBlocked(c) ==
    /\ step[c] \in 1..Last(c)
    /\ Blocked(c, step[c])
    /\ Finish(c)
    /\ UNCHANGED <<failures, log>>

CheckAllowed(c) ==
    /\ step[c] \in 1..Last(c)
    /\ ~Blocked(c, step[c])
    /\ step' = [step EXCEPT ![c] = @ + 1]
    /\ snapshot' = [snapshot EXCEPT ![c] =
                      IF step[c] = Last(c) THEN failures[Address(c)] ELSE @]
    /\ UNCHANGED <<failures, time, clock, log>>

bump_failure_entry(cur, t) ==
    [minute   |-> t,
     inMinute |-> IF cur.minute = t THEN cur.inMinute + 1 ELSE 1,
     total    |-> cur.total + 1]

\* Variant for mutation: the address entry is computed from the snapshot.
Bug_BumpSnapshot(c) ==
    /\ Verifying(c)
    /\ Finish(c)
    /\ failures' = [b \in Buckets |->
         IF b = Address(c) THEN bump_failure_entry(snapshot[c], time[c])
         ELSE IF b \in Own(c) THEN bump_failure_entry(failures[b], time[c]) ELSE failures[b]]
    /\ log' = [b \in Buckets |-> IF b \in Own(c) THEN Append(log[b], time[c]) ELSE log[b]]

\* update_failure(failure, false, i): the credential was wrong.
RecordWrong(c) ==
    /\ Verifying(c)
    /\ Finish(c)
    /\ failures' = [b \in Buckets |->
         IF b \in Own(c) THEN bump_failure_entry(failures[b], time[c]) ELSE failures[b]]
    /\ log' = [b \in Buckets |-> IF b \in Own(c) THEN Append(log[b], time[c]) ELSE log[b]]

\* Variant for mutation: a success takes one failure back, even if the entry
\* has been cleared since the check.
Bug_ForgiveOne(c) ==
    LET clear == IF snapshot[c].minute # 0 THEN Own(c) ELSE {}
    IN  /\ Verifying(c)
        /\ Finish(c)
        /\ failures' = [b \in Buckets |->
             IF b \in clear THEN [failures[b] EXCEPT !.total = @ - 1] ELSE failures[b]]
        /\ log' = [b \in Buckets |-> IF b \in clear THEN <<>> ELSE log[b]]

\* update_failure(failure, true, i): the credential was right.  Nothing is
\* cleared when the entry was absent at the time of the check.
RecordRight(c) ==
    LET clear == IF snapshot[c].minute # 0 THEN Own(c) ELSE {}
    IN  /\ Verifying(c)
        /\ Finish(c)
        /\ failures' = [b \in Buckets |-> IF b \in clear THEN NoEntry ELSE failures[b]]
        /\ log' = [b \in Buckets |-> IF b \in clear THEN <<>> ELSE log[b]]

\* The attempt ends with no verdict: no second factor is pending, or this was
\* the check made before a headless Linux desktop is started.
NoVerdict(c) ==
    /\ Verifying(c)
    /\ Finish(c)
    /\ UNCHANGED <<failures, log>>

Next == \E c \in Conns : \/ Begin(c)
                         \/ CheckBlocked(c)
                         \/ CheckAllowed(c)
                         \/ RecordWrong(c)
                         \/ RecordRight(c)
                         \/ NoVerdict(c)

Spec == Init /\ [][Next]_vars

-----------------------------------------------------------------------------
(***************************************************************************)
(* Properties.                                                             *)
(***************************************************************************)
\* The fields of the map entries and of an attempt stay in range; no counter
\* of the limiter goes negative.
TypeOK ==
    /\ failures \in [Buckets -> Entry]
    /\ step \in [Conns -> Nat]
    /\ \A c \in Conns : step[c] \in 0..(Last(c) + 1)
    /\ time \in [Conns -> Nat]
    /\ snapshot \in [Conns -> Entry]
    /\ clock \in Nat
    /\ log \in [Buckets -> Seq(Nat)]

\* Connections that have passed the check of b and not yet recorded an outcome.
Inflight(b) == {c \in Conns : \E i \in 1..Last(c) : i < step[c] /\ KeysOf[c][i] = b}

\* The wrong attempts a key accumulates are bounded although the check and
\* the update are not one critical section: the overshoot over the limit is
\* at most one attempt per connection, so the i32 counters cannot overflow.
TotalBounded ==
    \A b \in Buckets : failures[b].total <= Limit[b] + Cardinality(Conns)

\* The inductive strengthening: every attempt in flight may still add one.
TotalPlusInflight ==
    \A b \in Buckets :
        failures[b].total + Cardinality(Inflight(b)) <= Limit[b] + Cardinality(Conns)

\* The wrong attempts of minute m recorded at b since b was cleared.
InMinute(b, m) == Cardinality({i \in DOMAIN log[b] : log[b][i] = m})

\* No wrong attempt was recorded at b after one of a later minute.
InOrder(b) == \A i, j \in DOMAIN log[b] : i < j => log[b][i] <= log[b][j]

\* At an address whose wrong attempts were recorded in the order of their
\* minutes, the attempts of any one minute overshoot the limit by at most one
\* for each connection of that address: the entry counts one minute only and
\* starts again with each new one, and no attempt of that minute escapes it.
MinuteBounded ==
    \A c \in Conns : InOrder(Address(c)) =>
        \A m \in Minutes :
            InMinute(Address(c), m)
               <= MinuteLimit + Cardinality({d \in Conns : Address(c) \in Own(d)})

\* What the name SixAttemptsWithinOneMinute and the answer "Please try 1 minute
\* later" say: an attempt of the current minute is let through only while no
\* more than MinuteLimit wrong attempts of that minute are recorded for its
\* address.
SixAttemptsWithinOneMinute ==
    [][\A c \in Conns :
          step[c] = Last(c) /\ step'[c] = Last(c) + 1 /\ time[c] >= clock
              => InMinute(Address(c), time[c]) <= MinuteLimit]_vars

\* No wrong attempt is lost: a key's total is the number of wrong attempts
\* recorded since it was last cleared, whatever the interleaving of the
\* connections that share it ("Re-read the full IP bucket in case another
\* failed attempt updated it").
NoFailureLost == \A b \in Buckets : failures[b].total = Len(log[b])

\* A key over its limit with no attempt past its check stays locked for ever:
\* time alone never lifts it, and no later attempt can clear it.
LockoutPermanent ==
    [][\A b \in Buckets :
          failures[b].total > Limit[b] /\ Inflight(b) = {}
              => failures'[b] = failures[b] /\ Inflight(b)' = {}]_vars
=============================================================================
