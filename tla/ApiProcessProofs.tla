-------------------------- MODULE ApiProcessProofs --------------------------
(***************************************************************************)
(* Theorems about what the API process keeps in memory: its rate limiter   *)
(* (RateLimit), for every limit, window, clock resolution and number of    *)
(* uploads, and the router it caches by the settings (RuntimeSettings),    *)
(* for every number of settings, values, saves and restarts.               *)
(***************************************************************************)
EXTENDS RateLimit, FiniteSetTheorems, TLAPS

LEMMA SpanPositive == Span \in Nat /\ Span > 0
<1>1. Seconds \in Nat /\ PerSecond \in Nat /\ Seconds > 0 /\ PerSecond > 0
  BY RateLimitAssumption
<1> QED
  BY <1>1, SMT DEF Span

(* Rounding up never falls short.                                           *)
LEMMA RoundedUp ==
  ASSUME NEW x \in Nat, NEW p \in Nat, p > 0
  PROVE  LET q == (x + p - 1) \div p IN q \in Nat /\ q * p >= x
<1> DEFINE q == (x + p - 1) \div p
           r == (x + p - 1) % p
<1>1. x + p - 1 \in Nat
  BY SMT
<1>2. q \in Int
  BY <1>1, SMT
<1>3. r \in 0..(p - 1)
  BY <1>1, SMT
<1>4. x + p - 1 = p * q + r
  BY <1>1, SMT
<1>5. p * q \in Int
  BY <1>2, SMT
<1> HIDE DEF r
<1>6. q * p >= x
  <2> HIDE DEF q
  <2> DEFINE m == p * q
  <2>1. m \in Int /\ x + p - 1 = m + r
    BY <1>4, <1>5
  <2> HIDE DEF m
  <2>2. m >= x
    BY <2>1, <1>3, SMT
  <2>3. q * p = m
    BY <1>2, SMT DEF m
  <2> QED
    BY <2>2, <2>3
<1>7. q >= 0
  BY <1>1, SMT
<1> QED
  BY <1>2, <1>6, <1>7, SMT

-----------------------------------------------------------------------------
(* What the admissions of one key have to do with its window, at time t.    *)
(* The last count admissions are those of the current window, starts of     *)
(* different windows are a span apart, and a window admits Limit at most.   *)

Within(a, t) ==
  \A i \in 1..Len(a) : a[i].start <= a[i].time /\ a[i].time < a[i].start + Span /\ a[i].time <= t

Apart(a) ==
  \A i, j \in 1..Len(a) :
    i < j => a[j].start = a[i].start \/ a[j].start >= a[i].start + Span

Before(a, resetAt) ==
  \A i \in 1..Len(a) : a[i].start + Span = resetAt \/ a[i].start + 2 * Span <= resetAt

LastOnes(a, count, resetAt) ==
  \A i \in 1..Len(a) : a[i].start + Span = resetAt => i > Len(a) - count

Full(a) ==
  \A i \in 1..Len(a) : i + Limit <= Len(a) => a[i + Limit].start # a[i].start

Ledger(a, count, resetAt, t) ==
  /\ resetAt = 0 \/ resetAt >= Span
  /\ resetAt <= t + Span
  /\ Within(a, t) /\ Apart(a) /\ Before(a, resetAt) /\ LastOnes(a, count, resetAt) /\ Full(a)

LEMMA Entry ==
  ASSUME NEW a \in Seq(Admission), NEW i \in 1..Len(a)
  PROVE  a[i].time \in Nat /\ a[i].start \in Nat
<1>1. a[i] \in Admission
  OBVIOUS
<1> QED
  BY <1>1 DEF Admission

LEMMA LedgerLater ==
  ASSUME NEW a \in Seq(Admission), NEW count \in Nat, NEW resetAt \in Nat, NEW t \in Nat,
         Ledger(a, count, resetAt, t)
  PROVE  Ledger(a, count, resetAt, t + 1)
<1>1. \A i \in 1..Len(a) : a[i].time \in Nat
  BY Entry
<1>2. Within(a, t + 1)
  BY <1>1, SpanPositive DEF Ledger, Within
<1> QED
  BY <1>2, SpanPositive DEF Ledger

(* A window that is over makes way for an empty one.                        *)
LEMMA LedgerRolled ==
  ASSUME NEW a \in Seq(Admission), NEW count \in Nat, NEW resetAt \in Nat, NEW t \in Nat,
         Ledger(a, count, resetAt, t), t >= resetAt
  PROVE  Ledger(a, 0, t + Span, t)
<1>1. \A i \in 1..Len(a) : a[i].start + 2 * Span <= t + Span
  <2> SUFFICES ASSUME NEW i \in 1..Len(a)
               PROVE  a[i].start + 2 * Span <= t + Span
    OBVIOUS
  <2>1. a[i].start \in Nat
    BY Entry
  <2>2. a[i].start + Span = resetAt \/ a[i].start + 2 * Span <= resetAt
    BY DEF Ledger, Before
  <2> QED
    BY <2>1, <2>2, SpanPositive
<1>2. Before(a, t + Span)
  BY <1>1 DEF Before
<1>3. LastOnes(a, 0, t + Span)
  <2> SUFFICES ASSUME NEW i \in 1..Len(a), a[i].start + Span = t + Span
               PROVE  FALSE
    BY DEF LastOnes
  <2>1. a[i].start \in Nat
    BY Entry
  <2> QED
    BY <1>1, <2>1, SpanPositive
<1> QED
  BY <1>2, <1>3, SpanPositive DEF Ledger

(* A window with room takes one more.                                       *)
LEMMA LedgerAppended ==
  ASSUME NEW a \in Seq(Admission), NEW count \in Nat, NEW resetAt \in Nat, NEW t \in Nat,
         Ledger(a, count, resetAt, t), t < resetAt, count < Limit
  PROVE  LET b == Append(a, [time |-> t, start |-> resetAt - Span])
         IN  b \in Seq(Admission) /\ Ledger(b, count + 1, resetAt, t)
<1> DEFINE n == Len(a)
           e == [time |-> t, start |-> resetAt - Span]
           b == Append(a, e)
<1>1. resetAt - Span \in Nat /\ resetAt - Span <= t
  BY SpanPositive DEF Ledger
<1>2. e \in Admission /\ e.time = t /\ e.start = resetAt - Span
  BY <1>1 DEF Admission
<1>3. b \in Seq(Admission) /\ n \in Nat /\ Len(b) = n + 1 /\ b[n + 1] = e
      /\ \A i \in 1..n : b[i] = a[i]
  BY <1>2
<1>4. \A i \in 1..n : a[i].start \in Nat /\ a[i].time \in Nat
  BY Entry
<1>5. Limit \in Nat /\ Limit > 0
  BY RateLimitAssumption
<1> HIDE DEF b, e, n
<1>6. Within(b, t)
  <2> SUFFICES ASSUME NEW i \in 1..Len(b)
               PROVE  b[i].start <= b[i].time /\ b[i].time < b[i].start + Span /\ b[i].time <= t
    BY DEF Within
  <2>1. CASE i = n + 1
    BY <2>1, <1>1, <1>2, <1>3, SpanPositive
  <2>2. CASE i \in 1..n
    BY <2>2, <1>3 DEF Ledger, Within, n
  <2> QED
    BY <2>1, <2>2, <1>3
<1>7. Apart(b)
  <2> SUFFICES ASSUME NEW i \in 1..Len(b), NEW j \in 1..Len(b), i < j
               PROVE  b[j].start = b[i].start \/ b[j].start >= b[i].start + Span
    BY DEF Apart
  <2>1. i \in 1..n
    BY <1>3
  <2>2. CASE j = n + 1
    <3>1. a[i].start + Span = resetAt \/ a[i].start + 2 * Span <= resetAt
      BY <2>1 DEF Ledger, Before, n
    <3>2. b[j].start = resetAt - Span /\ b[i].start = a[i].start
      BY <2>1, <2>2, <1>2, <1>3
    <3> QED
      BY <3>1, <3>2, <2>1, <1>4, SpanPositive
  <2>3. CASE j \in 1..n
    BY <2>1, <2>3, <1>3 DEF Ledger, Apart, n
  <2> QED
    BY <2>2, <2>3, <1>3
<1>8. Before(b, resetAt)
  <2> SUFFICES ASSUME NEW i \in 1..Len(b)
               PROVE  b[i].start + Span = resetAt \/ b[i].start + 2 * Span <= resetAt
    BY DEF Before
  <2>1. CASE i = n + 1
    BY <2>1, <1>1, <1>2, <1>3, SpanPositive
  <2>2. CASE i \in 1..n
    BY <2>2, <1>3 DEF Ledger, Before, n
  <2> QED
    BY <2>1, <2>2, <1>3
<1>9. LastOnes(b, count + 1, resetAt)
  <2> SUFFICES ASSUME NEW i \in 1..Len(b), b[i].start + Span = resetAt
               PROVE  i > Len(b) - (count + 1)
    BY DEF LastOnes
  <2>1. CASE i = n + 1
    BY <2>1, <1>3
  <2>2. CASE i \in 1..n
    <3>1. i > n - count
      BY <2>2, <1>3 DEF Ledger, LastOnes, n
    <3> QED
      BY <3>1, <1>3
  <2> QED
    BY <2>1, <2>2, <1>3
<1>10. Full(b)
  <2> SUFFICES ASSUME NEW i \in 1..Len(b), i + Limit <= Len(b)
               PROVE  b[i + Limit].start # b[i].start
    BY DEF Full
  <2>1. i \in 1..n
    BY <1>3, <1>5
  <2>2. CASE i + Limit = n + 1
    <3>1. ~(i > n - count)
      BY <2>1, <2>2, <1>3, <1>5
    <3>2. a[i].start + Span # resetAt
      BY <2>1, <3>1 DEF Ledger, LastOnes, n
    <3>3. b[i + Limit].start = resetAt - Span /\ b[i].start = a[i].start
      BY <2>1, <2>2, <1>2, <1>3
    <3> QED
      BY <3>2, <3>3, <2>1, <1>4, SpanPositive
  <2>3. CASE i + Limit \in 1..n
    BY <2>1, <2>3, <1>3 DEF Ledger, Full, n
  <2> QED
    BY <2>1, <2>2, <2>3, <1>3, <1>5
<1> QED
  BY <1>3, <1>6, <1>7, <1>8, <1>9, <1>10 DEF Ledger, b, e

LEMMA TwoWindows ==
  ASSUME NEW first \in Nat, NEW start \in Nat, NEW middle \in Nat, NEW end \in Nat,
         NEW last \in Nat, NEW span \in Nat,
         first < start + span, middle >= start + span, end >= middle + span, end <= last
  PROVE  last > first + span
OBVIOUS

(* Limit admissions on, the window is another one; 2 * Limit on, at least   *)
(* two windows have passed.                                                 *)
LEMMA LedgerBounds ==
  ASSUME NEW a \in Seq(Admission), NEW count \in Nat, NEW resetAt \in Nat, NEW t \in Nat,
         Ledger(a, count, resetAt, t),
         NEW i \in 1..Len(a), i + 2 * Limit <= Len(a)
  PROVE  a[i + 2 * Limit].time > a[i].time + Span
<1> DEFINE j == i + Limit
           k == i + 2 * Limit
<1>1. Limit \in Nat /\ Limit > 0
  BY RateLimitAssumption
<1>2. j \in 1..Len(a) /\ k \in 1..Len(a) /\ i < j /\ j < k /\ k = j + Limit
  BY <1>1
<1>3. a[j].start # a[i].start /\ a[k].start # a[j].start
  BY <1>2 DEF Ledger, Full
<1> HIDE DEF j, k
<1>4. a[j].start >= a[i].start + Span /\ a[k].start >= a[j].start + Span
  BY <1>2, <1>3 DEF Ledger, Apart
<1>5. a[i].time < a[i].start + Span /\ a[k].start <= a[k].time
  BY <1>2 DEF Ledger, Within
<1>6. /\ a[i].time \in Nat /\ a[i].start \in Nat /\ a[j].start \in Nat
      /\ a[k].time \in Nat /\ a[k].start \in Nat
  BY <1>2, Entry
<1>7. a[k].time > a[i].time + Span
  BY <1>4, <1>5, <1>6, SpanPositive, TwoWindows, Zenon
<1>8. k = i + 2 * Limit
  BY DEF k
<1> QED
  BY <1>7, <1>8, Zenon

-----------------------------------------------------------------------------
(* The inductive invariant: each key's ledger, and no refused key is told   *)
(* to come back before its window ends.                                     *)

Kept(key) ==
  /\ Ledger(admitted[key], window[key].count, window[key].resetAt, now)
  /\ promised[key] # 0 => promised[key] >= window[key].resetAt

IInv == TypeOK /\ \A key \in Keys : Kept(key)

LEMMA RolledFacts ==
  ASSUME TypeOK, NEW key \in Keys, Kept(key)
  PROVE  LET w == Rolled(key)
         IN  /\ w \in [count: 0..Limit, resetAt: Nat]
             /\ Ledger(admitted[key], w.count, w.resetAt, now)
             /\ now < w.resetAt
             /\ w.count = Limit => w = window[key]
             /\ now >= window[key].resetAt => w.count = 0
<1> DEFINE old == window[key]
<1>1. /\ old \in [count: 0..Limit, resetAt: Nat] /\ admitted[key] \in Seq(Admission)
      /\ now \in Nat /\ old.count \in Nat /\ old.resetAt \in Nat
  BY RateLimitAssumption DEF TypeOK
<1>2. Limit \in Nat /\ Limit > 0
  BY RateLimitAssumption
<1>3. CASE now >= old.resetAt
  <2>1. Rolled(key) = [count |-> 0, resetAt |-> now + Span]
    BY <1>3 DEF Rolled
  <2>2. Ledger(admitted[key], 0, now + Span, now)
    BY <1>1, <1>3, LedgerRolled DEF Kept
  <2> QED
    BY <1>1, <1>2, <2>1, <2>2, SpanPositive
<1>4. CASE ~(now >= old.resetAt)
  <2>1. Rolled(key) = old
    BY <1>4 DEF Rolled
  <2> QED
    BY <1>1, <1>4, <2>1 DEF Kept
<1> QED
  BY <1>3, <1>4

LEMMA AdmitKeeps ==
  ASSUME TypeOK, NEW key \in Keys, Kept(key), Admit(key)
  PROVE  /\ window' \in [Keys -> [count: 0..Limit, resetAt: Nat]]
         /\ admitted' \in [Keys -> Seq(Admission)]
         /\ promised' \in [Keys -> Nat]
         /\ Ledger(admitted'[key], window'[key].count, window'[key].resetAt, now)
         /\ promised'[key] = 0
         /\ \A k \in Keys \ {key} : /\ window'[k] = window[k]
                                    /\ admitted'[k] = admitted[k]
                                    /\ promised'[k] = promised[k]
<1> DEFINE w == Rolled(key)
           e == [time |-> now, start |-> w.resetAt - Span]
           b == Append(admitted[key], e)
           v == [w EXCEPT !.count = @ + 1]
<1>1. /\ window \in [Keys -> [count: 0..Limit, resetAt: Nat]]
      /\ admitted \in [Keys -> Seq(Admission)] /\ promised \in [Keys -> Nat]
      /\ now \in Nat
  BY RateLimitAssumption DEF TypeOK
<1>2. /\ w \in [count: 0..Limit, resetAt: Nat]
      /\ Ledger(admitted[key], w.count, w.resetAt, now)
      /\ now < w.resetAt
  BY RolledFacts
<1>3. /\ w.count < Limit
      /\ window' = [window EXCEPT ![key] = v]
      /\ admitted' = [admitted EXCEPT ![key] = b]
      /\ promised' = [promised EXCEPT ![key] = 0]
  BY DEF Admit, HasRoom
<1>4. Limit \in Nat
  BY RateLimitAssumption
<1>5. w.count \in Nat /\ w.resetAt \in Nat /\ w.count + 1 \in 0..Limit
  BY <1>2, <1>3, <1>4
<1>6. b \in Seq(Admission) /\ Ledger(b, w.count + 1, w.resetAt, now)
  BY <1>1, <1>2, <1>3, <1>5, LedgerAppended
<1>7. /\ v \in [count: 0..Limit, resetAt: Nat]
      /\ v.count = w.count + 1 /\ v.resetAt = w.resetAt
  BY <1>2, <1>5
<1> HIDE DEF w, e, b, v
<1>8. window'[key] = v /\ admitted'[key] = b
  BY <1>1, <1>3
<1> QED
  BY <1>1, <1>3, <1>6, <1>7, <1>8

LEMMA RefuseKeeps ==
  ASSUME TypeOK, NEW key \in Keys, Kept(key), Refuse(key)
  PROVE  /\ UNCHANGED <<window, admitted>>
         /\ promised' \in [Keys -> Nat]
         /\ promised'[key] >= window[key].resetAt
         /\ now < window[key].resetAt
         /\ \A k \in Keys \ {key} : promised'[k] = promised[k]
<1> DEFINE w == Rolled(key)
           later == now + RetryAfter(key) * PerSecond
<1>1. /\ window \in [Keys -> [count: 0..Limit, resetAt: Nat]]
      /\ promised \in [Keys -> Nat] /\ now \in Nat
  BY RateLimitAssumption DEF TypeOK
<1>2. /\ w \in [count: 0..Limit, resetAt: Nat] /\ now < w.resetAt
      /\ w.count = Limit => w = window[key]
  BY RolledFacts
<1>3. /\ ~(w.count < Limit)
      /\ window' = [window EXCEPT ![key] = w]
      /\ promised' = [promised EXCEPT ![key] = later]
      /\ admitted' = admitted
  BY DEF Refuse, HasRoom
<1>4. w = window[key]
  BY <1>2, <1>3, RateLimitAssumption
<1>5. UNCHANGED <<window, admitted>>
  BY <1>1, <1>3, <1>4
<1>6. later \in Nat /\ later >= w.resetAt
  <2> DEFINE x == w.resetAt - now
             q == (x + PerSecond - 1) \div PerSecond
  <2>1. x \in Nat /\ PerSecond \in Nat /\ PerSecond > 0
    BY <1>1, <1>2, RateLimitAssumption
  <2>2. q \in Nat /\ q * PerSecond >= x
    BY <2>1, RoundedUp
  <2>3. RetryAfter(key) = IF q > 1 THEN q ELSE 1
    BY DEF RetryAfter
  <2> HIDE DEF q
  <2>4. RetryAfter(key) * PerSecond \in Nat /\ RetryAfter(key) * PerSecond >= x
    <3>1. CASE q > 1
      <4>1. q * PerSecond \in Nat
        BY <2>1, <2>2
      <4> QED
        BY <3>1, <4>1, <2>2, <2>3
    <3>2. CASE q = 1
      BY <3>2, <2>1, <2>2, <2>3
    <3>3. CASE q = 0
      <4>1. 0 * PerSecond = 0
        BY <2>1
      <4>2. x <= 0
        BY <3>3, <4>1, <2>1, <2>2
      <4> QED
        BY <1>1, <1>2, <4>2
    <3> QED
      BY <2>2, <3>1, <3>2, <3>3
  <2> HIDE DEF w
  <2>5. w.resetAt \in Nat
    BY <1>2
  <2> QED
    BY <1>1, <2>1, <2>4, <2>5
<1> HIDE DEF later, w
<1> QED
  BY <1>1, <1>2, <1>3, <1>4, <1>5, <1>6

-----------------------------------------------------------------------------
(* Every step keeps the invariant.                                          *)

LEMMA Initially == Init => IInv
<1> SUFFICES ASSUME Init PROVE IInv
  OBVIOUS
<1>1. /\ Limit \in Nat /\ MaxActive \in Nat /\ MaxTime \in Nat /\ Span \in Nat
  BY RateLimitAssumption, SpanPositive
<1>2. \A key \in Keys : admitted[key] = <<>> /\ window[key] = [count |-> 0, resetAt |-> 0]
                        /\ promised[key] = 0
  BY DEF Init
<1>3. TypeOK
  BY <1>1 DEF Init, TypeOK
<1>4. ASSUME NEW key \in Keys PROVE Kept(key)
  <2>1. Ledger(<<>>, 0, 0, 0)
    <3>1. Len(<<>>) = 0
      OBVIOUS
    <3> QED
      BY <1>1, <3>1 DEF Ledger, Within, Apart, Before, LastOnes, Full
  <2>2. window[key].count = 0 /\ window[key].resetAt = 0 /\ admitted[key] = <<>> /\ now = 0
        /\ promised[key] = 0
    BY <1>2 DEF Init
  <2> QED
    BY <2>1, <2>2 DEF Kept
<1> QED
  BY <1>3, <1>4 DEF IInv

(* An admission or a refusal keeps every key's ledger.                      *)
LEMMA DecisionKeeps ==
  ASSUME IInv, NEW key \in Keys, Admit(key) \/ Refuse(key), now' = now
  PROVE  /\ window' \in [Keys -> [count: 0..Limit, resetAt: Nat]]
         /\ admitted' \in [Keys -> Seq(Admission)]
         /\ promised' \in [Keys -> Nat]
         /\ \A k \in Keys : Kept(k)'
<1>1. TypeOK /\ \A k \in Keys : Kept(k)
  BY DEF IInv
<1>2. CASE Admit(key)
  <2>1. /\ window' \in [Keys -> [count: 0..Limit, resetAt: Nat]]
        /\ admitted' \in [Keys -> Seq(Admission)]
        /\ promised' \in [Keys -> Nat]
        /\ Ledger(admitted'[key], window'[key].count, window'[key].resetAt, now)
        /\ promised'[key] = 0
        /\ \A k \in Keys \ {key} : /\ window'[k] = window[k]
                                   /\ admitted'[k] = admitted[k]
                                   /\ promised'[k] = promised[k]
    BY <1>1, <1>2, AdmitKeeps
  <2>2. ASSUME NEW k \in Keys PROVE Kept(k)'
    <3>1. CASE k = key
      BY <2>1, <3>1 DEF Kept
    <3>2. CASE k # key
      BY <1>1, <2>1, <3>2 DEF Kept
    <3> QED
      BY <3>1, <3>2
  <2> QED
    BY <2>1, <2>2
<1>3. CASE Refuse(key)
  <2>1. /\ window' = window /\ admitted' = admitted
        /\ promised' \in [Keys -> Nat]
        /\ promised'[key] >= window[key].resetAt
        /\ \A k \in Keys \ {key} : promised'[k] = promised[k]
    BY <1>1, <1>3, RefuseKeeps
  <2>2. ASSUME NEW k \in Keys PROVE Kept(k)'
    <3>1. CASE k = key
      BY <1>1, <2>1, <3>1 DEF Kept
    <3>2. CASE k # key
      BY <1>1, <2>1, <3>2 DEF Kept
    <3> QED
      BY <3>1, <3>2
  <2> QED
    BY <1>1, <2>1, <2>2 DEF TypeOK
<1> QED
  BY <1>2, <1>3

LEMMA Preserved == IInv /\ [Next]_vars => IInv'
<1> SUFFICES ASSUME IInv, [Next]_vars PROVE IInv'
  OBVIOUS
<1> USE DEF IInv
<1>1. MaxActive \in Nat /\ MaxTime \in Nat /\ Limit \in Nat
  BY RateLimitAssumption
<1>2. ASSUME NEW key \in Keys, Request(key) PROVE IInv'
  BY <1>2, DecisionKeeps DEF Request, TypeOK
<1>3. ASSUME NEW u \in Uploads, NEW key \in Keys, AdmitUpload(u, key) PROVE IInv'
  <2>1. /\ window' \in [Keys -> [count: 0..Limit, resetAt: Nat]]
        /\ admitted' \in [Keys -> Seq(Admission)]
        /\ promised' \in [Keys -> Nat]
        /\ \A k \in Keys : Kept(k)'
    BY <1>3, DecisionKeeps DEF AdmitUpload
  <2>2. active' \in 0..MaxActive /\ serving' \subseteq Uploads /\ now' = now
    BY <1>1, <1>3 DEF AdmitUpload, TypeOK
  <2> QED
    BY <2>1, <2>2 DEF TypeOK
<1>4. ASSUME NEW u \in Uploads, NEW key \in Keys, RefuseUpload(u, key) PROVE IInv'
  BY <1>4, DecisionKeeps DEF RefuseUpload, TypeOK
<1>5. ASSUME NEW u \in Uploads, EndUpload(u) PROVE IInv'
  <2>1. UNCHANGED <<now, window, admitted, promised>>
    BY <1>5 DEF EndUpload
  <2>2. active' \in 0..MaxActive /\ serving' \subseteq Uploads
    BY <1>1, <1>5 DEF EndUpload, TypeOK
  <2>3. ASSUME NEW k \in Keys PROVE Kept(k)'
    BY <2>1 DEF Kept
  <2> QED
    BY <2>1, <2>2, <2>3 DEF TypeOK
<1>6. CASE Tick
  <2>1. UNCHANGED <<window, active, serving, admitted, promised>> /\ now' = now + 1 /\ now < MaxTime
    BY <1>6 DEF Tick
  <2>2. ASSUME NEW k \in Keys PROVE Kept(k)'
    <3>1. /\ window[k] \in [count: 0..Limit, resetAt: Nat] /\ admitted[k] \in Seq(Admission)
          /\ now \in Nat
      BY <1>1 DEF TypeOK
    <3>2. window[k].count \in Nat /\ window[k].resetAt \in Nat
      BY <1>1, <3>1
    <3>3. Ledger(admitted[k], window[k].count, window[k].resetAt, now + 1)
      BY <3>1, <3>2, LedgerLater DEF Kept
    <3> QED
      BY <2>1, <3>3 DEF Kept
  <2>3. now' \in 0..MaxTime
    BY <1>1, <2>1 DEF TypeOK
  <2> QED
    BY <2>1, <2>2, <2>3 DEF TypeOK
<1>7. CASE UNCHANGED vars
  BY <1>7 DEF vars, TypeOK, Kept
<1> QED
  BY <1>2, <1>3, <1>4, <1>5, <1>6, <1>7 DEF Next

-----------------------------------------------------------------------------
(* Every key's counter stays within the limit and the slots in use within   *)
(* theirs, whatever the clock does between two requests.                    *)
THEOREM TypeCorrect == Spec => []TypeOK
<1>1. Spec => []IInv
  BY Initially, Preserved, PTL DEF Spec
<1>2. IInv => TypeOK
  BY DEF IInv
<1> QED
  BY <1>1, <1>2, PTL

(* No span as long as a window sees more than twice the limit admitted      *)
(* (rate_limit.py:66-94).                                                   *)
THEOREM SpansStayBounded == Spec => []SpanBounded
<1>1. Spec => []IInv
  BY Initially, Preserved, PTL DEF Spec
<1>2. IInv => SpanBounded
  <2> SUFFICES ASSUME IInv, NEW key \in Keys, NEW i \in 1..Len(admitted[key]),
                      i + 2 * Limit <= Len(admitted[key])
               PROVE  admitted[key][i + 2 * Limit].time > admitted[key][i].time + Span
    BY DEF SpanBounded
  <2>1. /\ window[key] \in [count: 0..Limit, resetAt: Nat] /\ admitted[key] \in Seq(Admission)
        /\ now \in Nat
    BY RateLimitAssumption DEF IInv, TypeOK
  <2>2. window[key].count \in Nat /\ window[key].resetAt \in Nat
    BY <2>1, RateLimitAssumption
  <2>3. Ledger(admitted[key], window[key].count, window[key].resetAt, now)
    BY DEF IInv, Kept
  <2> QED
    BY <2>1, <2>2, <2>3, LedgerBounds
<1> QED
  BY <1>1, <1>2, PTL

(* A client that waits as long as it was told is not refused again: its     *)
(* window is over by then (rate_limit.py:71-83).                            *)
THEOREM WaitingAlwaysPays == Spec => WaitingPays
<1> DEFINE Patient == \A key \in Keys : promised[key] # 0 /\ now >= promised[key] =>
                        promised'[key] \in {0, promised[key]}
<1>1. Spec => []IInv
  BY Initially, Preserved, PTL DEF Spec
<1>2. IInv /\ [Next]_vars => [Patient]_promised
  <2> SUFFICES ASSUME IInv, [Next]_vars, promised' # promised,
                      NEW key \in Keys, promised[key] # 0, now >= promised[key]
               PROVE  promised'[key] \in {0, promised[key]}
    OBVIOUS
  <2>1. PICK k \in Keys : Admit(k) \/ Refuse(k)
    BY DEF Next, vars, Request, AdmitUpload, RefuseUpload, EndUpload, Tick
  <2>2. TypeOK /\ \A o \in Keys : Kept(o)
    BY DEF IInv
  <2>3. CASE Admit(k)
    BY <2>2, <2>3, AdmitKeeps
  <2>4. CASE Refuse(k)
    <3>1. now < window[k].resetAt /\ \A o \in Keys \ {k} : promised'[o] = promised[o]
      BY <2>2, <2>4, RefuseKeeps
    <3>2. k # key
      <4>1. promised[key] >= window[key].resetAt
        BY <2>2 DEF Kept
      <4>2. now \in Nat /\ promised[key] \in Nat /\ window[key] \in [count: 0..Limit, resetAt: Nat]
        BY <2>2, RateLimitAssumption DEF TypeOK
      <4>3. window[key].resetAt \in Nat
        BY <4>2
      <4> QED
        BY <3>1, <4>1, <4>2, <4>3
    <3> QED
      BY <3>1, <3>2
  <2> QED
    BY <2>1, <2>3, <2>4
<1> QED
  BY <1>1, <1>2, PTL DEF Spec, WaitingPays

(* The slots in use are the uploads being served                            *)
(* (rate_limit.py:106-132, 172-188).                                        *)
THEOREM SlotsStayCounted == Spec => []SlotsCounted
<1>1. Init => SlotsCounted
  BY FS_EmptySet, RateLimitAssumption DEF Init, SlotsCounted
<1>2. TypeOK /\ SlotsCounted /\ [Next]_vars => SlotsCounted'
  <2> SUFFICES ASSUME TypeOK, SlotsCounted, [Next]_vars PROVE SlotsCounted'
    OBVIOUS
  <2>1. IsFiniteSet(serving)
    BY RateLimitAssumption, FS_Subset DEF TypeOK
  <2>2. active \in Nat /\ MaxActive \in Nat
    BY RateLimitAssumption DEF TypeOK
  <2>3. ASSUME NEW u \in Uploads, NEW key \in Keys, AdmitUpload(u, key) PROVE SlotsCounted'
    <3>1. Cardinality(serving \cup {u}) = Cardinality(serving) + 1
      BY <2>1, <2>3, FS_AddElement DEF AdmitUpload
    <3> QED
      BY <2>2, <2>3, <3>1 DEF AdmitUpload, SlotsCounted
  <2>4. ASSUME NEW u \in Uploads, EndUpload(u) PROVE SlotsCounted'
    <3>1. u \in serving /\ Cardinality(serving \ {u}) = Cardinality(serving) - 1
      BY <2>1, <2>4, FS_RemoveElement DEF EndUpload
    <3>2. Cardinality(serving) # 0
      BY <2>1, <3>1, FS_EmptySet
    <3> QED
      BY <2>2, <2>4, <3>1, <3>2 DEF EndUpload, SlotsCounted
  <2>5. ASSUME active' = active, serving' = serving PROVE SlotsCounted'
    BY <2>5 DEF SlotsCounted
  <2> QED
    BY <2>3, <2>4, <2>5 DEF Next, vars, Request, RefuseUpload, Tick
<1> QED
  BY <1>1, <1>2, TypeCorrect, PTL DEF Spec

-----------------------------------------------------------------------------
(* The settings an administrator overrides, and the router cached from      *)
(* them: the constants and variables of RuntimeSettings.                    *)

CONSTANTS SettingKeys, RouterKeys, Values, None, Readers, Admins, Warm, MaxRestarts

VARIABLES table, cache, router, routerKey, reader, admin, restarts

Settings == INSTANCE RuntimeSettings WITH Keys <- SettingKeys

Reader == [pc: {"idle", "load", "fill", "lookup", "compare", "build", "key", "route"},
           seen: Settings!Overrides, found: Settings!Builds \cup {None}]

LEMMA BuildTyped ==
  ASSUME Settings!SettingsAssumption, NEW seen \in Settings!Overrides
  PROVE  Settings!Build(seen) \in Settings!Builds /\ Settings!Build(seen) # None
BY DEF Settings!SettingsAssumption, Settings!Overrides, Settings!Builds, Settings!Build

LEMMA IdleTyped == Settings!ReaderIdle \in Reader /\ Settings!ReaderIdle.pc = "idle"
BY DEF Settings!ReaderIdle, Settings!NoOverrides, Settings!Overrides, Reader

(* A step of request r that leaves it with the locals rd.                   *)
LEMMA ReaderKeeps ==
  ASSUME Settings!TypeOK, NEW r \in Readers, NEW rd \in Reader,
         rd.pc \in {"compare", "key", "route"} => rd.found # None,
         reader' = [reader EXCEPT ![r] = rd],
         cache' \in Settings!Overrides \cup {None},
         {router', routerKey'} \subseteq Settings!Builds \cup {None},
         UNCHANGED <<table, admin, restarts>>
  PROVE  Settings!TypeOK'
BY DEF Settings!TypeOK, Reader, Settings!Overrides, Settings!Builds

RequestStep(r) ==
  \/ Settings!ReadCache(r) \/ Settings!LoadOverrides(r) \/ Settings!FillCache(r)
  \/ Settings!LookUpRouter(r) \/ Settings!CompareKey(r) \/ Settings!BuildRouter(r)
  \/ Settings!SetRouterKey(r) \/ Settings!Route(r)

LEMMA RequestKeepsTypes ==
  ASSUME Settings!SettingsAssumption, Settings!TypeOK, NEW r \in Readers, RequestStep(r)
  PROVE  Settings!TypeOK'
<1> DEFINE at == reader[r]
           Goal == Settings!TypeOK'
<1>1. /\ at \in Reader
      /\ at.seen \in Settings!Overrides
      /\ at.found \in Settings!Builds \cup {None}
      /\ at.pc \in {"compare", "key", "route"} => at.found # None
      /\ table \in Settings!Overrides
      /\ cache \in Settings!Overrides \cup {None}
      /\ router \in Settings!Builds \cup {None} /\ routerKey \in Settings!Builds \cup {None}
      /\ reader \in [Readers -> Reader]
  BY DEF Settings!TypeOK, Reader
<1>2. /\ Settings!Build(at.seen) \in Settings!Builds
      /\ Settings!Build(at.seen) # None
  BY <1>1, BuildTyped
<1>3. Settings!NoOverrides \in Settings!Overrides
  BY DEF Settings!NoOverrides, Settings!Overrides
<1>4. CASE Settings!ReadCache(r)
  <2>1. PICK rd \in Reader : /\ reader' = [reader EXCEPT ![r] = rd]
                             /\ rd.pc \in {"load", "lookup"}
    <3>1. CASE cache = None
      <4> DEFINE rd == [Settings!ReaderIdle EXCEPT !.pc = "load"]
      <4>1. rd \in Reader /\ rd.pc = "load"
        BY <1>3 DEF Settings!ReaderIdle, Reader
      <4> QED BY <1>4, <3>1, <4>1 DEF Settings!ReadCache, Settings!Move
    <3>2. CASE cache # None
      <4> DEFINE rd == [Settings!ReaderIdle EXCEPT !.pc = "lookup", !.seen = cache]
      <4>1. rd \in Reader /\ rd.pc = "lookup"
        BY <1>1, <1>3, <3>2 DEF Settings!ReaderIdle, Reader
      <4> QED BY <1>4, <3>2, <4>1 DEF Settings!ReadCache, Settings!Move
    <3> QED BY <3>1, <3>2
  <2> QED BY <1>1, <1>4, <2>1, ReaderKeeps DEF Settings!ReadCache
<1>5. CASE Settings!LoadOverrides(r)
  <2>1. PICK loaded \in Settings!Overrides :
          reader' = [reader EXCEPT ![r] = [at EXCEPT !.pc = "fill", !.seen = loaded]]
    BY <1>1, <1>3, <1>5 DEF Settings!LoadOverrides, Settings!Move
  <2> DEFINE rd == [at EXCEPT !.pc = "fill", !.seen = loaded]
  <2>2. rd \in Reader /\ rd.pc = "fill"
    BY <1>1 DEF Reader
  <2>3. reader' = [reader EXCEPT ![r] = rd]
    BY <2>1
  <2> HIDE DEF rd, at
  <2> QED BY <1>1, <1>5, <2>2, <2>3, ReaderKeeps DEF Settings!LoadOverrides
<1>6. CASE Settings!FillCache(r) \/ Settings!CompareKey(r) \/ Settings!SetRouterKey(r)
  <2>1. PICK pc \in {"lookup", "route", "build"} : /\ reader' = [reader EXCEPT ![r].pc = pc]
                                                   /\ pc = "route" => at.found # None
    BY <1>1, <1>6 DEF Settings!FillCache, Settings!CompareKey, Settings!SetRouterKey,
                      Settings!Step, Settings!At
  <2> DEFINE rd == [at EXCEPT !.pc = pc]
  <2>2. rd \in Reader /\ rd.pc = pc /\ rd.found = at.found
    BY <1>1 DEF Reader
  <2>3. reader' = [reader EXCEPT ![r] = rd]
    BY <2>1
  <2>4. /\ cache' \in Settings!Overrides \cup {None}
        /\ {router', routerKey'} \subseteq Settings!Builds \cup {None}
        /\ UNCHANGED <<table, admin, restarts>>
    BY <1>1, <1>2, <1>6 DEF Settings!FillCache, Settings!CompareKey, Settings!SetRouterKey
  <2> HIDE DEF rd, at
  <2> QED BY <2>1, <2>2, <2>3, <2>4, ReaderKeeps
<1>7. CASE Settings!LookUpRouter(r)
  <2> DEFINE rd == [at EXCEPT !.pc = IF router = None THEN "build" ELSE "compare",
                              !.found = router]
  <2>1. rd \in Reader /\ (rd.pc \in {"compare", "key", "route"} => rd.found # None)
    BY <1>1 DEF Reader
  <2>2. reader' = [reader EXCEPT ![r] = rd]
    BY <1>7 DEF Settings!LookUpRouter, Settings!Move
  <2> HIDE DEF rd, at
  <2> QED BY <1>1, <1>7, <2>1, <2>2, ReaderKeeps DEF Settings!LookUpRouter
<1>8. CASE Settings!BuildRouter(r)
  <2> DEFINE rd == [at EXCEPT !.pc = "key", !.found = router']
  <2>0. router' = Settings!Build(at.seen)
    BY <1>8 DEF Settings!BuildRouter
  <2>1. rd \in Reader /\ rd.found # None
    BY <1>1, <1>2, <2>0 DEF Reader
  <2>2. reader' = [reader EXCEPT ![r] = rd]
    BY <1>8 DEF Settings!BuildRouter, Settings!Move
  <2> HIDE DEF rd, at
  <2> QED BY <1>1, <1>2, <1>8, <2>0, <2>1, <2>2, ReaderKeeps DEF Settings!BuildRouter
<1>9. CASE Settings!Route(r)
  <2> QED BY <1>1, <1>9, IdleTyped, ReaderKeeps DEF Settings!Route, Settings!Move
<1> QED BY <1>4, <1>5, <1>6, <1>7, <1>8, <1>9 DEF RequestStep

LEMMA SettingsTypesStart ==
  Settings!SettingsAssumption /\ Settings!Init => Settings!TypeOK
BY DEF Settings!SettingsAssumption, Settings!Init, Settings!TypeOK, Settings!NoOverrides,
       Settings!Overrides, Settings!Builds, Settings!ReaderIdle, Settings!AdminIdle

LEMMA SettingsTypesKept ==
  ASSUME Settings!SettingsAssumption, Settings!TypeOK, [Settings!Next]_(Settings!vars)
  PROVE  Settings!TypeOK'
<1>1. ASSUME NEW r \in Readers, RequestStep(r)
      PROVE  Settings!TypeOK'
  BY <1>1, RequestKeepsTypes
<1>2. ASSUME NEW a \in Admins, NEW payload \in Settings!Overrides, Settings!LoadRows(a, payload)
      PROVE  Settings!TypeOK'
  BY <1>2 DEF Settings!LoadRows, Settings!TypeOK
<1>3. ASSUME NEW a \in Admins, Settings!CommitSave(a)
      PROVE  Settings!TypeOK'
  <2>1. admin[a].payload \in Settings!Overrides /\ table \in Settings!Overrides
    BY DEF Settings!TypeOK
  <2>2. table' \in Settings!Overrides
    BY <1>3, <2>1 DEF Settings!CommitSave, Settings!Overrides
  <2>3. admin' \in [Admins -> [pc: {"idle", "commit", "cache"}, seen: Settings!Overrides,
                               payload: Settings!Overrides]]
    <3>1. Settings!AdminIdle \in [pc: {"idle", "commit", "cache"}, seen: Settings!Overrides,
                                   payload: Settings!Overrides]
      BY DEF Settings!AdminIdle, Settings!NoOverrides, Settings!Overrides
    <3>2. \/ admin' = [admin EXCEPT ![a] = Settings!AdminIdle]
          \/ admin' = [admin EXCEPT ![a].pc = "cache"]
      BY <1>3 DEF Settings!CommitSave
    <3> QED BY <3>1, <3>2 DEF Settings!TypeOK
  <2>4. UNCHANGED <<cache, router, routerKey, reader, restarts>>
    BY <1>3 DEF Settings!CommitSave
  <2> QED BY <2>2, <2>3, <2>4 DEF Settings!TypeOK
<1>4. ASSUME NEW a \in Admins, Settings!SetCache(a)
      PROVE  Settings!TypeOK'
  BY <1>4 DEF Settings!SetCache, Settings!TypeOK, Settings!AdminIdle, Settings!NoOverrides,
              Settings!Overrides
<1>5. CASE Settings!Restart
  BY <1>5 DEF Settings!SettingsAssumption, Settings!Restart, Settings!TypeOK,
              Settings!AdminIdle, Settings!ReaderIdle, Settings!NoOverrides, Settings!Overrides
<1>6. CASE UNCHANGED Settings!vars
  BY <1>6 DEF Settings!vars, Settings!TypeOK
<1> QED BY <1>1, <1>2, <1>3, <1>4, <1>5, <1>6 DEF Settings!Next, RequestStep

(* The overrides, the cache, the router and every request's locals keep     *)
(* their types, for any number of requests, administrators and restarts;    *)
(* a request that compares, keys or routes has a router in hand             *)
(* (dependencies.py:131-153).                                               *)
THEOREM SettingsTypesStayCorrect ==
  ASSUME Settings!SettingsAssumption
  PROVE  Settings!Spec => []Settings!TypeOK
<1>1. Settings!Init => Settings!TypeOK
  BY SettingsTypesStart
<1>2. Settings!TypeOK /\ [Settings!Next]_(Settings!vars) => Settings!TypeOK'
  BY SettingsTypesKept
<1> QED BY <1>1, <1>2, PTL DEF Settings!Spec

=============================================================================
