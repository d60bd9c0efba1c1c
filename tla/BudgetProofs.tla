---------------------------- MODULE BudgetProofs ----------------------------
(***************************************************************************)
(* Proofs about the budget contract: the types of its storage, that        *)
(* settling lapsed windows late, early or repeatedly carries allowance and  *)
(* never makes it, and that reallocation conserves an owner's limits.       *)
(***************************************************************************)
EXTENDS Budget, SumProofs

-----------------------------------------------------------------------------
(* Record updates                                                           *)

\* The fields a settlement, a spend or a reset leaves alone.
SameTerms(e, b) ==
  /\ e.owner = b.owner
  /\ e.limit = b.limit
  /\ e.period = b.period
  /\ e.period_seconds = b.period_seconds
  /\ e.rollover_enabled = b.rollover_enabled
  /\ e.rollover_cap = b.rollover_cap
  /\ e.rollover_max_bps = b.rollover_max_bps
  /\ e.rollover_bps = b.rollover_bps
  /\ e.allow_deficit = b.allow_deficit
  /\ e.expires_at = b.expires_at
  /\ e.state = b.state

Updated(e, b, c, d, s, w) ==
  /\ e \in BudgetRecord
  /\ SameTerms(e, b)
  /\ e.rollover_credit = c
  /\ e.deficit_amount = d
  /\ e.spent = s
  /\ e.window_start = w

\* The fields a settlement rewrites, one by one.
LEMMA EnvelopeUpdate ==
  ASSUME NEW b \in BudgetRecord, NEW c \in Nat, NEW d \in Nat, NEW s \in Nat, NEW w \in Nat
  PROVE  Updated([b EXCEPT !.rollover_credit = c, !.deficit_amount = d, !.spent = s,
                           !.window_start = w], b, c, d, s, w)
  BY DEF BudgetRecord, SameTerms, Updated

\* Two envelopes are equal when they agree field by field.
LEMMA EnvelopeEquality ==
  ASSUME NEW b \in BudgetRecord, NEW e \in BudgetRecord,
         b.owner = e.owner, b.limit = e.limit, b.spent = e.spent, b.period = e.period,
         b.period_seconds = e.period_seconds, b.window_start = e.window_start,
         b.rollover_enabled = e.rollover_enabled, b.rollover_credit = e.rollover_credit,
         b.rollover_cap = e.rollover_cap, b.rollover_max_bps = e.rollover_max_bps,
         b.rollover_bps = e.rollover_bps, b.allow_deficit = e.allow_deficit,
         b.deficit_amount = e.deficit_amount, b.expires_at = e.expires_at, b.state = e.state
  PROVE  b = e
  BY DEF BudgetRecord

-----------------------------------------------------------------------------
(* Shares and ceilings                                                      *)

\* A share of at most all of an amount is at most the amount, and all of it is
\* the amount.
LEMMA ShareBound ==
  ASSUME NEW x \in Nat, NEW bps \in Nat
  PROVE  /\ ShareOf(x, bps) \in Nat
         /\ bps <= BPS => ShareOf(x, bps) <= x
         /\ bps = BPS => ShareOf(x, bps) = x
<1> USE BudgetMathAssumption
<1> DEFINE p == x * bps
           q == p \div BPS
<1>1. p \in Nat
  BY SMT
<1>2. q \in Nat /\ q * BPS <= p
  BY <1>1, Quotient
<1>3. ASSUME bps <= BPS PROVE q <= x
  <2>1. p <= x * BPS
    BY <1>3, ProductMonotonic
  <2>2. x * BPS < (x + 1) * BPS
    BY SMT
  <2> HIDE DEF p, q
  <2>3. q * BPS < (x + 1) * BPS
    <3>1. q * BPS \in Int /\ x * BPS \in Int /\ (x + 1) * BPS \in Int
      BY <1>2
    <3> QED
      BY <1>1, <1>2, <2>1, <2>2, <3>1
  <2>4. q < x + 1
    BY <1>2, <2>3, CancelFactor
  <2> QED
    BY <1>2, <2>4
<1>4. ASSUME bps = BPS PROVE q = x
  <2>1. p = x * BPS /\ x * BPS < (x + 1) * BPS
    BY <1>4, SMT
  <2> HIDE DEF p
  <2> QED
    BY <1>1, <2>1, QuotientIs
<1> QED
  BY <1>2, <1>3, <1>4 DEF ShareOf

\* A cap never raises a credit.
LEMMA CapBound ==
  ASSUME NEW x \in Nat, NEW cap \in Nat
  PROVE  ApplyCap(x, cap) \in Nat /\ ApplyCap(x, cap) <= x
  BY DEF ApplyCap

\* The ceiling of a credit is a number.
LEMMA CeilingType ==
  ASSUME NEW b \in BudgetRecord
  PROVE  EffectiveRolloverCap(b) \in Nat
<1>1. b.limit \in Nat /\ b.rollover_cap \in Nat /\ b.rollover_max_bps \in Nat
  BY DEF BudgetRecord
<1>2. PercentageOfLimit(b.limit, b.rollover_max_bps) \in Nat
  BY <1>1, ShareBound DEF PercentageOfLimit
<1> QED
  BY <1>1, <1>2 DEF EffectiveRolloverCap, Smaller

\* The length of a window is a number.
LEMMA WindowLengthType ==
  ASSUME NEW period \in Period, NEW secs \in Nat
  PROVE  WindowOf(period, secs) \in Nat
  BY BudgetMathAssumption DEF WindowOf, Period

-----------------------------------------------------------------------------
(* Settling an envelope                                                     *)

\* What an envelope and the history of its use satisfy between calls.
Sound(b, u, g) ==
  /\ b \in BudgetRecord
  /\ u \in Nat
  /\ g \in Nat
  /\ ~ b.allow_deficit => b.deficit_amount = 0
  /\ b.rollover_bps <= BPS
  /\ b.spent <= u
  /\ b.limit <= g

\* The allowance left in the window, before lapsed windows are settled.
Open(b) == IF b.allow_deficit THEN Available(b) ELSE Larger(Available(b), 0)

\* The windows that lapsed and are still to be settled.
Lapsed(b, t) == BoundariesBy(b.window_start, WindowLength(b), t)

\* What was used, is left and will be credited for lapsed windows was granted.
Covers(b, u, g, t) == u + Open(b) + b.limit * Lapsed(b, t) <= g

\* A window has lapsed iff a boundary was passed.
LEMMA LapsedWindows ==
  ASSUME NEW b \in BudgetRecord, NEW t \in Nat
  PROVE  /\ Lapsed(b, t) \in Nat
         /\ WindowLength(b) \in Nat
         /\ ~ IsWindowExpired(b, t) => Lapsed(b, t) = 0
         /\ IsWindowExpired(b, t) => /\ Lapsed(b, t) >= 1
                                     /\ Lapsed(b, t) = PeriodsElapsed(b, t)
                                     /\ Lapsed(b, t) * WindowLength(b) <= t - b.window_start
                                     /\ t - b.window_start < (Lapsed(b, t) + 1) * WindowLength(b)
                                     /\ WindowLength(b) # 0
         /\ t <= b.window_start => Lapsed(b, t) = 0
<1>1. b.window_start \in Nat /\ b.period \in Period /\ b.period_seconds \in Nat
  BY DEF BudgetRecord
<1> DEFINE L == WindowLength(b)
           s == b.window_start
           d == t - s
<1>2. L \in Nat
  BY <1>1, WindowLengthType DEF WindowLength
<1>3. CASE L # 0 /\ t >= s
  <2>1. d \in Nat /\ L \in Nat \ {0}
    BY <1>1, <1>2, <1>3
  <2>2. Lapsed(b, t) = d \div L /\ PeriodsElapsed(b, t) = d \div L
    BY <1>3 DEF Lapsed, BoundariesBy, PeriodsElapsed
  <2>3. d \div L \in Nat /\ (d \div L) * L <= d /\ d < (d \div L + 1) * L
    BY <2>1, Quotient
  <2>4. IsWindowExpired(b, t) <=> t >= s + L
    BY <1>3 DEF IsWindowExpired
  <2>5. ASSUME t >= s + L PROVE d \div L >= 1
    <3>1. 1 * L = L /\ L <= d
      BY <1>1, <1>2, <2>5
    <3>2. L \div L = 1
      BY <2>1, <3>1, QuotientIs
    <3>3. L \div L <= d \div L
      BY <2>1, <3>1, QuotientMonotonic
    <3> QED
      BY <2>3, <3>2, <3>3
  <2>6. ASSUME ~ (t >= s + L) PROVE d \div L = 0
    BY <1>1, <1>2, <2>1, <2>6, QuotientIs
  <2>7. ASSUME t <= s PROVE d \div L = 0
    <3>1. d = 0
      BY <1>1, <1>3, <2>7
    <3> QED
      BY <2>1, <3>1, QuotientIs
  <2> HIDE DEF d, L, s
  <2> QED
    BY <1>2, <1>3, <2>2, <2>3, <2>4, <2>5, <2>6, <2>7 DEF L, s, d
<1>4. CASE ~ (L # 0 /\ t >= s)
  <2>1. Lapsed(b, t) = 0
    BY <1>4 DEF Lapsed, BoundariesBy
  <2>2. ~ IsWindowExpired(b, t)
    BY <1>1, <1>2, <1>4 DEF IsWindowExpired
  <2> QED
    BY <1>2, <2>1, <2>2
<1> QED
  BY <1>3, <1>4

\* What is carried is at most what was left and a limit per idle period.
LEMMA CarryOverBound ==
  ASSUME NEW b \in BudgetRecord, NEW t \in Nat, b.rollover_bps <= BPS, IsWindowExpired(b, t)
  PROVE  /\ CarryOver(b, t) \in Nat
         /\ CarryOver(b, t) <= Unspent(b) + b.limit * (Lapsed(b, t) - 1)
<1> DEFINE cap == EffectiveRolloverCap(b)
           part == CalculateBudgetRollover(Unspent(b), b.rollover_bps, cap)
           n == Lapsed(b, t)
           idle == b.limit * (n - 1)
<1>1. /\ b.limit \in Nat /\ b.spent \in Nat /\ b.rollover_credit \in Nat
      /\ b.rollover_bps \in Nat /\ b.rollover_enabled \in BOOLEAN
  BY DEF BudgetRecord
<1>2. Unspent(b) \in Nat
  BY <1>1 DEF Unspent, Larger, Capacity
<1>3. cap \in Nat
  BY CeilingType
<1>4. part \in Nat /\ part <= Unspent(b)
  <2>1. ShareOf(Unspent(b), b.rollover_bps) \in Nat
        /\ ShareOf(Unspent(b), b.rollover_bps) <= Unspent(b)
    BY <1>1, <1>2, ShareBound
  <2>2. part \in Nat /\ part <= ShareOf(Unspent(b), b.rollover_bps)
    BY <1>3, <2>1, CapBound DEF CalculateBudgetRollover
  <2> HIDE DEF part
  <2> QED
    BY <1>2, <2>1, <2>2
<1>5. n \in Nat /\ n >= 1 /\ PeriodsElapsed(b, t) = n
  BY LapsedWindows
<1>6. idle \in Nat /\ IdleAllowance(b, t) = idle
  <2> HIDE DEF n
  <2>1. n - 1 \in Nat
    BY <1>5
  <2> QED
    BY <1>1, <1>5, <2>1, ProductMonotonic DEF IdleAllowance
<1>7. CASE b.rollover_enabled
  <2>1. CarryOver(b, t) = ApplyCap(part + idle, cap)
    BY <1>6, <1>7 DEF CarryOver
  <2> HIDE DEF part, idle, cap
  <2>2. part + idle \in Nat
    BY <1>4, <1>6
  <2>3. CarryOver(b, t) \in Nat /\ CarryOver(b, t) <= part + idle
    BY <1>3, <2>1, <2>2, CapBound
  <2>4. CarryOver(b, t) <= Unspent(b) + idle
    BY <1>2, <1>4, <1>6, <2>3
  <2> QED
    BY <2>3, <2>4 DEF idle
<1>8. CASE ~ b.rollover_enabled
  <2>1. CarryOver(b, t) = 0
    BY <1>8 DEF CarryOver
  <2> HIDE DEF idle
  <2> QED
    BY <1>2, <1>6, <2>1 DEF idle
<1> QED
  BY <1>1, <1>7, <1>8

\* The fields a settlement of lapsed windows writes.
LEMMA SettledFields ==
  ASSUME NEW b \in BudgetRecord, NEW t \in Nat, b.rollover_bps <= BPS, IsWindowExpired(b, t)
  PROVE  LET e == WindowTransition(b, t)
         IN  /\ e \in BudgetRecord
             /\ SameTerms(e, b)
             /\ e.spent = 0
             /\ e.rollover_credit = IF WentIntoDeficit(b) THEN 0 ELSE CarryOver(b, t)
             /\ e.deficit_amount = IF WentIntoDeficit(b)
                                     THEN b.deficit_amount + b.spent - Capacity(b)
                                     ELSE b.deficit_amount
             /\ e.window_start = b.window_start + Lapsed(b, t) * WindowLength(b)
<1> DEFINE c == IF WentIntoDeficit(b) THEN 0 ELSE CarryOver(b, t)
           d == IF WentIntoDeficit(b) THEN b.deficit_amount + b.spent - Capacity(b)
                                      ELSE b.deficit_amount
           w == b.window_start + Lapsed(b, t) * WindowLength(b)
<1>1. /\ b.limit \in Nat /\ b.spent \in Nat /\ b.rollover_credit \in Nat
      /\ b.deficit_amount \in Nat /\ b.window_start \in Nat
  BY DEF BudgetRecord
<1>2. c \in Nat
  BY CarryOverBound
<1>3. d \in Nat
  BY <1>1 DEF WentIntoDeficit, Capacity
<1>4. w \in Nat
  <2>1. Lapsed(b, t) * WindowLength(b) \in Nat
    BY LapsedWindows, ProductMonotonic
  <2> QED
    BY <1>1, <2>1
<1>5. WindowTransition(b, t) =
        [b EXCEPT !.rollover_credit = c, !.deficit_amount = d, !.spent = 0, !.window_start = w]
  <2>1. Lapsed(b, t) = PeriodsElapsed(b, t)
    BY LapsedWindows
  <2> QED
    BY <2>1 DEF WindowTransition
<1> HIDE DEF c, d, w
<1>6. Updated(WindowTransition(b, t), b, c, d, 0, w)
  <2>1. PICK z \in Nat : z = 0
    OBVIOUS
  <2>2. Updated([b EXCEPT !.rollover_credit = c, !.deficit_amount = d, !.spent = z,
                          !.window_start = w], b, c, d, z, w)
    BY <1>2, <1>3, <1>4, EnvelopeUpdate
  <2> QED
    BY <1>5, <2>1, <2>2
<1> QED
  BY <1>6 DEF Updated, c, d, w

\* Settling keeps an envelope sound, leaves nothing to settle and adds no more
\* than a limit for every lapsed window.
SettledWell(b, e, u, g, t) ==
  /\ Sound(e, u, g)
  /\ SameTerms(e, b)
  /\ e.spent <= b.spent
  /\ Lapsed(e, t) = 0
  /\ Open(e) \in Int /\ Open(b) \in Int /\ b.limit * Lapsed(b, t) \in Nat
  /\ Open(e) <= Open(b) + b.limit * Lapsed(b, t)

\* Settling an envelope pays for its lapsed windows and for nothing else.
LEMMA Settlement ==
  ASSUME NEW b, NEW u, NEW g, Sound(b, u, g), NEW t \in Nat
  PROVE  SettledWell(b, WindowTransition(b, t), u, g, t)
<1> DEFINE e == WindowTransition(b, t)
           n == Lapsed(b, t)
           L == WindowLength(b)
<1>1. b \in BudgetRecord /\ u \in Nat /\ g \in Nat /\ b.rollover_bps <= BPS
  BY DEF Sound
<1>2. /\ b.limit \in Nat /\ b.spent \in Nat /\ b.rollover_credit \in Nat
      /\ b.deficit_amount \in Nat /\ b.window_start \in Nat /\ b.allow_deficit \in BOOLEAN
  BY <1>1 DEF BudgetRecord
<1>3. n \in Nat /\ L \in Nat
  BY <1>1, LapsedWindows
<1>4. b.limit * n \in Nat
  BY <1>2, <1>3, ProductMonotonic
<1>5. Open(b) \in Int
  BY <1>2 DEF Open, Available, Capacity, Larger
<1>6. CASE ~ IsWindowExpired(b, t)
  <2>1. e = b /\ n = 0
    BY <1>1, <1>6, LapsedWindows DEF WindowTransition
  <2>2. b.limit * n = 0
    BY <1>2, <2>1
  <2> HIDE DEF e, n
  <2> QED
    BY <1>2, <1>5, <2>1, <2>2 DEF SettledWell, SameTerms, e, n
<1>7. CASE IsWindowExpired(b, t)
  <2>1. /\ e \in BudgetRecord
        /\ SameTerms(e, b)
        /\ e.spent = 0
        /\ e.rollover_credit = IF WentIntoDeficit(b) THEN 0 ELSE CarryOver(b, t)
        /\ e.deficit_amount = IF WentIntoDeficit(b)
                                THEN b.deficit_amount + b.spent - Capacity(b)
                                ELSE b.deficit_amount
        /\ e.window_start = b.window_start + n * L
    BY <1>1, <1>7, SettledFields
  <2>2. n >= 1 /\ n * L <= t - b.window_start /\ t - b.window_start < (n + 1) * L /\ L # 0
    BY <1>1, <1>7, LapsedWindows
  <2>3. CarryOver(b, t) \in Nat /\ CarryOver(b, t) <= Unspent(b) + b.limit * (n - 1)
    BY <1>1, <1>7, CarryOverBound
  <2>4. b.limit * n = b.limit * (n - 1) + b.limit
    <3>1. \A x \in Nat, y \in Nat : x * y = x * (y - 1) + x
      BY SMT
    <3> QED
      BY <1>2, <1>3, <3>1
  <2>5. b.limit * (n - 1) \in Nat
    <3>1. n - 1 \in Nat
      BY <1>3, <2>2
    <3> QED
      BY <1>2, <3>1, ProductMonotonic
  <2> HIDE DEF e, n, L
  <2>6. e.limit = b.limit /\ e.allow_deficit = b.allow_deficit /\ e.rollover_bps = b.rollover_bps
        /\ e.period = b.period /\ e.period_seconds = b.period_seconds
    BY <2>1 DEF SameTerms
  <2>7. Lapsed(e, t) = 0
    <3>1. WindowLength(e) = L
      BY <2>6 DEF WindowLength, L
    <3>2. (n + 1) * L = n * L + L /\ n * L \in Nat
      BY <1>3, ProductMonotonic
    <3>3. t < e.window_start + L
      <4>1. PICK m : m = n * L
        OBVIOUS
      <4> QED
        BY <1>2, <1>3, <2>1, <2>2, <3>2, <4>1
    <3>4. ~ IsWindowExpired(e, t)
      BY <1>2, <1>3, <2>1, <3>1, <3>2, <3>3 DEF IsWindowExpired
    <3> QED
      BY <2>1, <3>4, LapsedWindows
  <2>8. e.spent <= b.spent /\ e.spent <= u /\ e.limit <= g
    BY <1>1, <1>2, <2>1, <2>6 DEF Sound
  <2>9. ~ e.allow_deficit => e.deficit_amount = 0
    BY <2>1, <2>6 DEF Sound, WentIntoDeficit
  <2>10. Sound(e, u, g)
    BY <1>1, <2>1, <2>6, <2>8, <2>9 DEF Sound
  <2>11. Open(e) \in Int /\ Open(e) <= Open(b) + b.limit * n
    <3>1. PICK i \in Nat : i = b.limit * (n - 1)
      BY <2>5
    <3>2. PICK m \in Nat : m = b.limit * n
      BY <1>4 DEF n
    <3>3. PICK co \in Nat : co = CarryOver(b, t)
      BY <2>3
    <3>4. m = i + b.limit /\ co <= Unspent(b) + i
      BY <2>3, <2>4, <3>1, <3>2, <3>3
    <3>5. Available(e) = b.limit + e.rollover_credit - e.deficit_amount
      BY <1>2, <2>1, <2>3, <2>6 DEF Available, Capacity
    <3>6. CASE WentIntoDeficit(b)
      <4>1. b.allow_deficit /\ e.rollover_credit = 0
            /\ e.deficit_amount = b.deficit_amount + b.spent - (b.limit + b.rollover_credit)
        BY <2>1, <3>6 DEF WentIntoDeficit, Capacity
      <4>2. Open(e) = Available(e) /\ Open(b) = Available(b)
        BY <2>6, <4>1 DEF Open
      <4>3. Available(e) = b.limit + Available(b)
        BY <1>2, <3>5, <4>1 DEF Available, Capacity
      <4>4. Available(b) \in Int
        BY <1>1, <1>2 DEF Available, Capacity
      <4> QED
        BY <1>2, <3>2, <3>4, <4>2, <4>3, <4>4
    <3>7. CASE ~ WentIntoDeficit(b)
      <4>1. e.rollover_credit = co /\ e.deficit_amount = b.deficit_amount
        BY <2>1, <3>3, <3>7
      <4>2. Available(e) = b.limit + co - b.deficit_amount
        BY <3>5, <4>1
      <4>3. CASE b.allow_deficit
        <5>1. b.spent <= b.limit + b.rollover_credit
          BY <1>2, <3>7, <4>3 DEF WentIntoDeficit, Capacity
        <5>2. Unspent(b) = b.limit + b.rollover_credit - b.spent
          BY <1>2, <5>1 DEF Unspent, Larger, Capacity
        <5>3. Open(e) = Available(e) /\ Open(b) = Available(b)
          BY <2>6, <4>3 DEF Open
        <5>4. Available(b) = Unspent(b) - b.deficit_amount
          BY <1>2, <5>2 DEF Available, Capacity
        <5> QED
          BY <1>2, <3>2, <3>4, <4>2, <5>2, <5>3, <5>4
      <4>4. CASE ~ b.allow_deficit
        <5>1. b.deficit_amount = 0
          BY <4>4 DEF Sound
        <5>2. Open(e) = Larger(Available(e), 0) /\ Open(b) = Larger(Available(b), 0)
          BY <2>6, <4>4 DEF Open
        <5>3. Open(b) = Unspent(b) /\ Unspent(b) \in Nat
          BY <1>2, <5>1, <5>2 DEF Available, Unspent, Capacity, Larger
        <5>4. Open(e) = b.limit + co
          BY <1>2, <4>2, <5>1, <5>2 DEF Larger
        <5> QED
          BY <1>2, <3>2, <3>4, <5>3, <5>4
      <4> QED
        BY <1>2, <4>3, <4>4
    <3> QED
      BY <3>6, <3>7
  <2> QED
    BY <1>4, <1>5, <2>1, <2>7, <2>8, <2>10, <2>11 DEF SettledWell, e, n
<1> QED
  BY <1>6, <1>7

-----------------------------------------------------------------------------
(* Settling late is settling on time                                        *)

\* Capping what is carried at every boundary comes to the same as capping the
\* sum at the last one.
LEMMA CapOnce ==
  ASSUME NEW x \in Nat, NEW l \in Nat, NEW i \in Nat, NEW cap \in Nat
  PROVE  /\ ApplyCap(ApplyCap(x, cap) + 0, cap) = ApplyCap(x, cap)
         /\ ApplyCap(ApplyCap(l + ApplyCap(x, cap), cap) + i, cap)
              = ApplyCap(ApplyCap(x, cap) + (i + l), cap)
  BY DEF ApplyCap

\* With all of it carried, the credit is the capped sum of what was left and
\* of the idle periods' limits.
LEMMA FullCarryOver ==
  ASSUME NEW b \in BudgetRecord, NEW t \in Nat, b.rollover_enabled, b.rollover_bps = BPS
  PROVE  /\ Unspent(b) \in Nat
         /\ CarryOver(b, t) =
              ApplyCap(ApplyCap(Unspent(b), EffectiveRolloverCap(b)) + IdleAllowance(b, t),
                       EffectiveRolloverCap(b))
<1>1. /\ b.limit \in Nat /\ b.spent \in Nat /\ b.rollover_credit \in Nat /\ b.rollover_bps \in Nat
  BY DEF BudgetRecord
<1>2. Unspent(b) \in Nat
  BY <1>1 DEF Unspent, Larger, Capacity
<1>3. ShareOf(Unspent(b), b.rollover_bps) = Unspent(b)
  BY <1>1, <1>2, ShareBound
<1> QED
  BY <1>2, <1>3 DEF CarryOver, CalculateBudgetRollover

\* Settling late equals settling at the boundary and again, for an envelope
\* that carries all or nothing and did not overdraw.
LEMMA LateIsOnTime ==
  ASSUME NEW b \in BudgetRecord, NEW t \in Nat, b.rollover_bps <= BPS, IsWindowExpired(b, t),
         ~ WentIntoDeficit(b), b.rollover_enabled => b.rollover_bps = BPS
  PROVE  WindowTransition(SettledAtBoundary(b), t) = WindowTransition(b, t)
<1> DEFINE L == WindowLength(b)
           s == b.window_start
           n == Lapsed(b, t)
           e == SettledAtBoundary(b)
           f == WindowTransition(b, t)
           cap == EffectiveRolloverCap(b)
<1>1. /\ b.limit \in Nat /\ b.spent \in Nat /\ b.rollover_credit \in Nat
      /\ b.deficit_amount \in Nat /\ s \in Nat /\ b.rollover_enabled \in BOOLEAN
  BY DEF BudgetRecord
<1>2. /\ n \in Nat /\ n >= 1 /\ L \in Nat \ {0}
      /\ n * L <= t - s /\ t - s < (n + 1) * L
      /\ PeriodsElapsed(b, t) = n
  BY LapsedWindows
<1>3. PICK m \in Nat : m = s + L
  BY <1>1, <1>2
<1>4. e = WindowTransition(b, m)
  BY <1>3 DEF SettledAtBoundary
<1>5. IsWindowExpired(b, m) /\ PeriodsElapsed(b, m) = 1 /\ Lapsed(b, m) = 1
  <2>1. IsWindowExpired(b, m)
    BY <1>1, <1>2, <1>3 DEF IsWindowExpired
  <2>2. m - s = L /\ L < (1 + 1) * L /\ 1 * L <= L
    BY <1>1, <1>2, <1>3
  <2>3. L \div L = 1
    BY <1>2, <2>2, QuotientIs
  <2>4. PeriodsElapsed(b, m) = 1
    BY <2>2, <2>3 DEF PeriodsElapsed
  <2> QED
    BY <2>1, <2>4, LapsedWindows
<1>6. /\ e \in BudgetRecord /\ SameTerms(e, b) /\ e.spent = 0
      /\ e.rollover_credit = CarryOver(b, m) /\ e.deficit_amount = b.deficit_amount
      /\ e.window_start = s + 1 * L
  BY <1>4, <1>5, SettledFields
<1>7. /\ f \in BudgetRecord /\ SameTerms(f, b) /\ f.spent = 0
      /\ f.rollover_credit = CarryOver(b, t) /\ f.deficit_amount = b.deficit_amount
      /\ f.window_start = s + n * L
  BY SettledFields
<1>8. e.window_start = m
  BY <1>1, <1>2, <1>3, <1>6
<1>9. WindowLength(e) = L /\ EffectiveRolloverCap(e) = cap
  BY <1>6 DEF SameTerms, WindowLength, EffectiveRolloverCap
<1> HIDE DEF e, f, n
<1>10. CASE n = 1
  <2>1. t < m + L
    BY <1>1, <1>2, <1>3, <1>10
  <2>2. WindowTransition(e, t) = e
    <3>1. ~ IsWindowExpired(e, t)
      BY <1>1, <1>2, <1>3, <1>8, <1>9, <2>1 DEF IsWindowExpired
    <3> QED
      BY <3>1 DEF WindowTransition
  <2>3. CarryOver(b, m) = CarryOver(b, t)
    BY <1>2, <1>5, <1>10 DEF CarryOver, IdleAllowance
  <2>4. e = f
    <3>1. /\ e.window_start = f.window_start /\ e.spent = f.spent
          /\ e.rollover_credit = f.rollover_credit /\ e.deficit_amount = f.deficit_amount
      BY <1>6, <1>7, <1>10, <2>3
    <3>2. SameTerms(e, f)
      BY <1>6, <1>7 DEF SameTerms
    <3> QED
      BY <1>6, <1>7, <3>1, <3>2, EnvelopeEquality DEF SameTerms
  <2> QED
    BY <2>2, <2>4 DEF e, f
<1>11. CASE n # 1
  <2>1. PICK k \in Nat : k + 2 = n
    <3>1. n - 2 \in Nat
      BY <1>2, <1>11
    <3> QED
      BY <1>2, <3>1
  <2>2. /\ \A x \in Nat, y \in Nat : /\ (x + 2) * y = (x + 1) * y + y
                                     /\ ((x + 2) + 1) * y = ((x + 1) + 1) * y + y
                                     /\ (x + 1) * y \in Nat /\ ((x + 1) + 1) * y \in Nat
                                     /\ (x + 1) * y >= y
    <3>1. \A x \in Nat, y \in Nat : /\ (x + 2) * y = (x + 1) * y + y
                                    /\ ((x + 2) + 1) * y = ((x + 1) + 1) * y + y
      BY SMT
    <3>2. \A x \in Nat, y \in Nat : x * y \in Nat /\ (x + 1) * y = x * y + y
      BY ProductMonotonic, SMT
    <3>3. \A x \in Nat, y \in Nat : (x + 1) * y \in Nat /\ ((x + 1) + 1) * y \in Nat
      BY <3>2
    <3> QED
      BY <3>1, <3>2, <3>3
  <2>3. /\ (k + 2) * L = (k + 1) * L + L /\ (k + 1) * L \in Nat /\ (k + 1) * L >= L
        /\ ((k + 2) + 1) * L = ((k + 1) + 1) * L + L /\ ((k + 1) + 1) * L \in Nat
    BY <1>2, <2>2
  <2>4. PICK p \in Nat, q \in Nat : p = (k + 1) * L /\ q = ((k + 1) + 1) * L
    BY <2>3
  <2>5. t - m \in Nat /\ p <= t - m /\ t - m < q /\ t >= m + L
    <3>1. n * L = p + L /\ (n + 1) * L = q + L /\ p >= L
      BY <2>1, <2>3, <2>4
    <3> HIDE DEF L, s
    <3> QED
      BY <1>1, <1>2, <1>3, <2>4, <3>1
  <2>6. (t - m) \div L = k + 1
    <3>1. k + 1 \in Nat /\ (k + 1) * L <= t - m /\ t - m < ((k + 1) + 1) * L
      BY <2>4, <2>5
    <3> HIDE DEF L
    <3> QED
      BY <1>2, <2>5, <3>1, QuotientIs
  <2>7. IsWindowExpired(e, t) /\ PeriodsElapsed(e, t) = k + 1 /\ Lapsed(e, t) = k + 1
    <3>1. IsWindowExpired(e, t)
      BY <1>2, <1>8, <1>9, <2>5 DEF IsWindowExpired
    <3>2. PeriodsElapsed(e, t) = k + 1
      BY <1>8, <1>9, <2>6 DEF PeriodsElapsed
    <3> QED
      BY <1>6, <3>1, <3>2, LapsedWindows
  <2>8. CarryOver(b, m) \in Nat
    BY <1>5, CarryOverBound
  <2>9. ~ WentIntoDeficit(e)
    BY <1>1, <1>6, <2>8 DEF WentIntoDeficit, Capacity, SameTerms
  <2>10. e.rollover_bps <= BPS
    BY <1>6 DEF SameTerms
  <2> DEFINE h == WindowTransition(e, t)
  <2>11. /\ h \in BudgetRecord /\ SameTerms(h, e) /\ h.spent = 0
         /\ h.rollover_credit = CarryOver(e, t) /\ h.deficit_amount = e.deficit_amount
         /\ h.window_start = m + (k + 1) * L
    BY <1>6, <1>8, <1>9, <2>7, <2>9, <2>10, SettledFields
  <2> HIDE DEF h
  <2>12. h.window_start = f.window_start
    BY <1>1, <1>2, <1>3, <1>7, <2>1, <2>3, <2>11
  <2>13. CarryOver(e, t) = CarryOver(b, t)
    <3>1. CASE ~ b.rollover_enabled
      BY <1>6, <3>1 DEF CarryOver, SameTerms
    <3>2. CASE b.rollover_enabled
      <4>1. e.rollover_enabled /\ e.rollover_bps = BPS /\ e.limit = b.limit
        BY <1>6, <3>2 DEF SameTerms
      <4>2. PICK x \in Nat : x = Unspent(b)
        BY <3>2, FullCarryOver
      <4>3. PICK c \in Nat : c = cap
        BY CeilingType
      <4>4. IdleAllowance(b, m) = 0
        BY <1>1, <1>5 DEF IdleAllowance
      <4>5. CarryOver(b, m) = ApplyCap(x, c)
        <5>1. CarryOver(b, m) = ApplyCap(ApplyCap(x, c) + 0, c)
          BY <3>2, <4>2, <4>3, <4>4, FullCarryOver
        <5> QED
          BY <5>1, CapOnce
      <4>6. Unspent(e) = b.limit + ApplyCap(x, c)
        BY <1>1, <1>6, <2>8, <4>1, <4>5 DEF Unspent, Larger, Capacity
      <4>7. PICK i \in Nat : i = b.limit * k
        BY <1>1, ProductMonotonic
      <4>8. IdleAllowance(e, t) = i
        <5>1. (k + 1) - 1 = k
          OBVIOUS
        <5> QED
          BY <2>7, <4>1, <4>7, <5>1 DEF IdleAllowance
      <4>9. IdleAllowance(b, t) = i + b.limit
        <5>1. n - 1 = k + 1
          BY <2>1
        <5>2. \A y \in Nat, z \in Nat : y * (z + 1) = y * z + y
          BY SMT
        <5>3. b.limit * (k + 1) = b.limit * k + b.limit
          BY <1>1, <5>2
        <5> QED
          BY <1>2, <4>7, <5>1, <5>3 DEF IdleAllowance
      <4>10. CarryOver(e, t) = ApplyCap(ApplyCap(b.limit + ApplyCap(x, c), c) + i, c)
        BY <1>6, <1>9, <4>1, <4>3, <4>6, <4>8, FullCarryOver
      <4>11. CarryOver(b, t) = ApplyCap(ApplyCap(x, c) + (i + b.limit), c)
        BY <3>2, <4>2, <4>3, <4>9, FullCarryOver
      <4>12. PICK l \in Nat : l = b.limit
        BY <1>1
      <4>13. ApplyCap(ApplyCap(l + ApplyCap(x, c), c) + i, c)
               = ApplyCap(ApplyCap(x, c) + (i + l), c)
        BY CapOnce
      <4> QED
        BY <4>10, <4>11, <4>12, <4>13
    <3> QED
      BY <1>1, <3>1, <3>2
  <2>14. SameTerms(h, f)
    BY <1>6, <1>7, <2>11 DEF SameTerms
  <2>15. /\ h.spent = f.spent /\ h.rollover_credit = f.rollover_credit
         /\ h.deficit_amount = f.deficit_amount
    BY <1>6, <1>7, <2>11, <2>13
  <2>16. h = f
    BY <1>7, <2>11, <2>12, <2>14, <2>15, EnvelopeEquality DEF SameTerms
  <2> QED
    BY <2>16 DEF h, e, f
<1> QED
  BY <1>10, <1>11

-----------------------------------------------------------------------------
(* What a call may do to an envelope                                        *)

\* From envelope b with history u, g to envelope c with history v, h.
Keeps(b, u, g, c, v, h, t) ==
  /\ Sound(c, v, h)
  /\ c.owner = b.owner
  /\ Covers(b, u, g, t) => Covers(c, v, h, t)

\* Two rewrites that keep the cover keep it together.
LEMMA KeepsChained ==
  ASSUME NEW b, NEW u, NEW g, NEW e, NEW v, NEW h, NEW c, NEW x, NEW y, NEW t,
         Keeps(b, u, g, e, v, h, t), Keeps(e, v, h, c, x, y, t)
  PROVE  Keeps(b, u, g, c, x, y, t)
  BY DEF Keeps

\* The amounts of an envelope and what Covers adds up.
LEMMA SoundFields ==
  ASSUME NEW b, NEW u, NEW g, Sound(b, u, g), NEW t \in Nat
  PROVE  /\ b \in BudgetRecord /\ u \in Nat /\ g \in Nat
         /\ b.limit \in Nat /\ b.spent \in Nat /\ b.rollover_credit \in Nat
         /\ b.deficit_amount \in Nat /\ b.window_start \in Nat
         /\ b.spent <= u /\ b.limit <= g
         /\ Lapsed(b, t) \in Nat /\ b.limit * Lapsed(b, t) \in Nat
         /\ Open(b) \in Int
<1>1. b \in BudgetRecord /\ u \in Nat /\ g \in Nat /\ b.spent <= u /\ b.limit <= g
  BY DEF Sound
<1>2. /\ b.limit \in Nat /\ b.spent \in Nat /\ b.rollover_credit \in Nat
      /\ b.deficit_amount \in Nat /\ b.window_start \in Nat
  BY <1>1 DEF BudgetRecord
<1>3. Lapsed(b, t) \in Nat
  BY <1>1, LapsedWindows
<1>4. b.limit * Lapsed(b, t) \in Nat
  BY <1>2, <1>3, ProductMonotonic
<1>5. Open(b) \in Int
  BY <1>2 DEF Open, Available, Capacity, Larger
<1> QED
  BY <1>1, <1>2, <1>3, <1>4, <1>5

\* With nothing lapsed, Covers is about the open window alone.
LEMMA CoversOpen ==
  ASSUME NEW b, NEW u, NEW g, Sound(b, u, g), NEW t \in Nat, Lapsed(b, t) = 0
  PROVE  Covers(b, u, g, t) <=> u + Open(b) <= g
<1>1. b.limit \in Nat /\ Open(b) \in Int /\ u \in Nat /\ g \in Nat
  BY SoundFields
<1>2. b.limit * Lapsed(b, t) = 0
  BY <1>1
<1> QED
  BY <1>1, <1>2 DEF Covers

\* A settlement keeps the cover and leaves no window lapsed.
LEMMA KeepsSettled ==
  ASSUME NEW b, NEW u, NEW g, Sound(b, u, g), NEW t \in Nat
  PROVE  LET e == WindowTransition(b, t)
         IN  /\ Keeps(b, u, g, e, u, g, t)
             /\ SameTerms(e, b)
             /\ Lapsed(e, t) = 0
             /\ e.spent <= b.spent
<1> DEFINE e == WindowTransition(b, t)
<1>1. SettledWell(b, e, u, g, t)
  BY Settlement
<1> HIDE DEF e
<1>2. Sound(e, u, g) /\ SameTerms(e, b) /\ Lapsed(e, t) = 0 /\ e.spent <= b.spent
  BY <1>1 DEF SettledWell
<1>3. Covers(b, u, g, t) => Covers(e, u, g, t)
  <2>1. PICK o \in Int, p \in Int, m \in Nat :
          o = Open(e) /\ p = Open(b) /\ m = b.limit * Lapsed(b, t) /\ o <= p + m
    BY <1>1 DEF SettledWell
  <2>2. u \in Nat /\ g \in Nat
    BY SoundFields
  <2>3. Covers(b, u, g, t) <=> u + p + m <= g
    BY <2>1 DEF Covers
  <2>4. Covers(e, u, g, t) <=> u + o <= g
    BY <1>2, <2>1, CoversOpen
  <2> QED
    BY <2>1, <2>2, <2>3, <2>4
<1> QED
  BY <1>2, <1>3 DEF Keeps, SameTerms, e

\* Less credit leaves less open.
LEMMA LessCredit ==
  ASSUME NEW b \in BudgetRecord, NEW c \in BudgetRecord,
         c.limit = b.limit, c.spent = b.spent, c.deficit_amount = b.deficit_amount,
         c.allow_deficit = b.allow_deficit, c.rollover_credit <= b.rollover_credit
  PROVE  Open(c) <= Open(b)
<1>1. /\ b.limit \in Nat /\ b.spent \in Nat /\ b.rollover_credit \in Nat
      /\ b.deficit_amount \in Nat /\ c.rollover_credit \in Nat
  BY DEF BudgetRecord
<1>2. Available(c) <= Available(b) /\ Available(b) \in Int /\ Available(c) \in Int
  BY <1>1 DEF Available, Capacity
<1> QED
  BY <1>2 DEF Open, Larger

\* Clamping touches the credit alone.
ClampedFrom(c, d) ==
  /\ c \in BudgetRecord
  /\ c.owner = d.owner /\ c.limit = d.limit /\ c.spent = d.spent
  /\ c.allow_deficit = d.allow_deficit /\ c.deficit_amount = d.deficit_amount
  /\ c.period = d.period /\ c.period_seconds = d.period_seconds
  /\ c.window_start = d.window_start
  /\ c.rollover_bps = d.rollover_bps
  /\ c.rollover_credit <= d.rollover_credit

\* Clamping the credit never raises it.
LEMMA Clamped ==
  ASSUME NEW d \in BudgetRecord
  PROVE  ClampedFrom(ClampCredit(d), d)
<1> DEFINE x == IF d.rollover_enabled
                  THEN ApplyCap(d.rollover_credit, EffectiveRolloverCap(d)) ELSE 0
           c == [d EXCEPT !.rollover_credit = x]
<1>1. ClampCredit(d) = c
  BY DEF ClampCredit
<1>2. d.rollover_credit \in Nat
  BY DEF BudgetRecord
<1>3. /\ ApplyCap(d.rollover_credit, EffectiveRolloverCap(d)) \in Nat
      /\ ApplyCap(d.rollover_credit, EffectiveRolloverCap(d)) <= d.rollover_credit
  BY <1>2, CeilingType, CapBound
<1>4. x \in Nat /\ x <= d.rollover_credit
  BY <1>2, <1>3
<1> HIDE DEF x
<1>5. ClampedFrom(c, d)
  BY <1>4 DEF BudgetRecord, ClampedFrom
<1> QED
  BY <1>1, <1>5

\* A new rollover policy, on the same windows or on windows counted anew from
\* t or later.
LEMMA KeepsPolicy ==
  ASSUME NEW b, NEW u, NEW g, Sound(b, u, g), NEW t \in Nat,
         NEW d \in BudgetRecord,
         d.owner = b.owner, d.limit = b.limit, d.spent = b.spent,
         d.allow_deficit = b.allow_deficit, d.deficit_amount = b.deficit_amount,
         d.rollover_credit = b.rollover_credit, d.rollover_bps <= BPS,
         \/ /\ d.period = b.period /\ d.period_seconds = b.period_seconds
            /\ d.window_start = b.window_start
         \/ t <= d.window_start
  PROVE  Keeps(b, u, g, ClampCredit(d), u, g, t)
<1> DEFINE c == ClampCredit(d)
<1>1. ClampedFrom(c, d)
  BY Clamped
<1> HIDE DEF c
<1>2. /\ c \in BudgetRecord /\ c.owner = b.owner /\ c.limit = b.limit /\ c.spent = b.spent
      /\ c.allow_deficit = b.allow_deficit /\ c.deficit_amount = b.deficit_amount
      /\ c.rollover_bps <= BPS /\ c.rollover_credit <= b.rollover_credit
  BY <1>1 DEF ClampedFrom
<1>3. Sound(c, u, g)
  BY <1>2 DEF Sound
<1>4. b \in BudgetRecord
  BY DEF Sound
<1>5. Open(c) <= Open(b)
  BY <1>2, <1>4, LessCredit
<1>6. Lapsed(c, t) = Lapsed(b, t) \/ Lapsed(c, t) = 0
  <2>1. CASE t <= d.window_start
    BY <1>1, <1>2, <2>1, LapsedWindows DEF ClampedFrom
  <2>2. CASE /\ d.period = b.period /\ d.period_seconds = b.period_seconds
             /\ d.window_start = b.window_start
    BY <1>1, <2>2 DEF ClampedFrom, Lapsed, WindowLength
  <2> QED
    BY <2>1, <2>2
<1>7. c.limit * Lapsed(c, t) <= b.limit * Lapsed(b, t)
  <2>1. b.limit \in Nat /\ b.limit * Lapsed(b, t) \in Nat
    BY SoundFields
  <2>2. CASE Lapsed(c, t) = Lapsed(b, t)
    BY <1>2, <2>1, <2>2
  <2>3. CASE Lapsed(c, t) = 0
    BY <1>2, <2>1, <2>3
  <2> QED
    BY <1>6, <2>2, <2>3
<1>8. Covers(b, u, g, t) => Covers(c, u, g, t)
  <2>a. Open(c) \in Int /\ c.limit * Lapsed(c, t) \in Nat
    BY <1>3, SoundFields
  <2>b. Open(b) \in Int /\ b.limit * Lapsed(b, t) \in Nat
    BY SoundFields
  <2>1. PICK o \in Int, p \in Int, m \in Nat, n \in Nat :
          /\ o = Open(c) /\ p = Open(b)
          /\ m = c.limit * Lapsed(c, t) /\ n = b.limit * Lapsed(b, t)
          /\ o <= p /\ m <= n
    BY <1>5, <1>7, <2>a, <2>b
  <2>2. u \in Nat /\ g \in Nat
    BY DEF Sound
  <2> QED
    BY <2>1, <2>2 DEF Covers
<1> QED
  BY <1>2, <1>3, <1>8 DEF Keeps, c

\* A reset hands back what was spent and counts the window from t.
LEMMA KeepsReset ==
  ASSUME NEW b, NEW u, NEW g, Sound(b, u, g), NEW t \in Nat
  PROVE  Keeps(b, u, g, [b EXCEPT !.spent = 0, !.rollover_credit = 0, !.window_start = t],
               u, g + b.spent, t)
<1> DEFINE c == [b EXCEPT !.spent = 0, !.rollover_credit = 0, !.window_start = t]
<1>1. /\ b \in BudgetRecord /\ u \in Nat /\ g \in Nat
      /\ b.limit \in Nat /\ b.spent \in Nat /\ b.rollover_credit \in Nat
      /\ b.deficit_amount \in Nat /\ b.limit <= g
      /\ b.limit * Lapsed(b, t) \in Nat /\ Open(b) \in Int
  BY SoundFields
<1>2. /\ c \in BudgetRecord /\ c.spent = 0 /\ c.rollover_credit = 0 /\ c.window_start = t
      /\ c.owner = b.owner /\ c.limit = b.limit /\ c.allow_deficit = b.allow_deficit
      /\ c.deficit_amount = b.deficit_amount /\ c.rollover_bps = b.rollover_bps
  BY <1>1 DEF BudgetRecord
<1> HIDE DEF c
<1>3. Sound(c, u, g + b.spent)
  <2>1. g + b.spent \in Nat /\ c.spent <= u /\ c.limit <= g + b.spent
    BY <1>1, <1>2
  <2> QED
    BY <1>1, <1>2, <2>1 DEF Sound
<1>4. Lapsed(c, t) = 0
  BY <1>2, LapsedWindows
<1>5. Open(c) <= Open(b) + b.spent
  <2>1. /\ Available(c) = b.limit - b.deficit_amount
        /\ Available(b) = b.limit + b.rollover_credit - b.spent - b.deficit_amount
    BY <1>1, <1>2 DEF Available, Capacity
  <2>2. CASE b.allow_deficit
    BY <1>1, <1>2, <2>1, <2>2 DEF Open
  <2>3. CASE ~ b.allow_deficit
    <3>1. b.deficit_amount = 0
      BY <2>3 DEF Sound
    <3> QED
      BY <1>1, <1>2, <2>1, <2>3, <3>1 DEF Open, Larger
  <2> QED
    BY <2>2, <2>3
<1>6. Covers(b, u, g, t) => Covers(c, u, g + b.spent, t)
  <2>1. PICK o \in Int, p \in Int, n \in Nat, x \in Nat :
          /\ o = Open(c) /\ p = Open(b) /\ n = b.limit * Lapsed(b, t) /\ x = b.spent
          /\ o <= p + x
    BY <1>1, <1>3, <1>5, SoundFields
  <2>2. Covers(c, u, g + x, t) <=> u + o <= g + x
    BY <1>3, <1>4, <2>1, CoversOpen
  <2>3. Covers(b, u, g, t) <=> u + p + n <= g
    BY <2>1 DEF Covers
  <2> QED
    BY <1>1, <2>1, <2>2, <2>3
<1> QED
  BY <1>2, <1>3, <1>6 DEF Keeps, c

\* A new limit, followed by the history of what was granted.
LEMMA KeepsNewLimit ==
  ASSUME NEW b, NEW u, NEW g, Sound(b, u, g), NEW t \in Nat, NEW limit \in Nat,
         NEW h \in Nat, h = g + limit - b.limit,
         \/ Lapsed(b, t) = 0 /\ limit >= b.spent
         \/ Lapsed(b, t) = 0 /\ limit >= b.limit
         \/ limit >= b.spent /\ limit <= b.limit
         \/ ~ Covers(b, u, g, t)
  PROVE  Keeps(b, u, g, [b EXCEPT !.limit = limit], u, h, t)
<1> DEFINE c == [b EXCEPT !.limit = limit]
<1>1. /\ b \in BudgetRecord /\ u \in Nat /\ g \in Nat
      /\ b.limit \in Nat /\ b.spent \in Nat /\ b.rollover_credit \in Nat
      /\ b.deficit_amount \in Nat /\ b.limit <= g /\ b.spent <= u
      /\ Lapsed(b, t) \in Nat /\ b.limit * Lapsed(b, t) \in Nat /\ Open(b) \in Int
  BY SoundFields
<1>2. /\ c \in BudgetRecord /\ c.limit = limit
      /\ c.spent = b.spent /\ c.rollover_credit = b.rollover_credit
      /\ c.window_start = b.window_start /\ c.period = b.period
      /\ c.period_seconds = b.period_seconds
      /\ c.owner = b.owner /\ c.allow_deficit = b.allow_deficit
      /\ c.deficit_amount = b.deficit_amount /\ c.rollover_bps = b.rollover_bps
  BY <1>1 DEF BudgetRecord
<1> HIDE DEF c
<1>3. Sound(c, u, h)
  <2>1. c.spent <= u /\ c.limit <= h
    BY <1>1, <1>2
  <2> QED
    BY <1>1, <1>2, <2>1 DEF Sound
<1>4. Lapsed(c, t) = Lapsed(b, t)
  BY <1>2 DEF Lapsed, WindowLength
<1>5. /\ Available(c) = limit + b.rollover_credit - b.spent - b.deficit_amount
      /\ Available(b) = b.limit + b.rollover_credit - b.spent - b.deficit_amount
  BY <1>1, <1>2 DEF Available, Capacity
<1>6. ASSUME limit >= b.spent \/ limit >= b.limit
      PROVE  Open(c) <= Open(b) + limit - b.limit
  <2>1. CASE b.allow_deficit
    BY <1>1, <1>2, <1>5, <2>1 DEF Open
  <2>2. CASE ~ b.allow_deficit
    <3>1. b.deficit_amount = 0
      BY <2>2 DEF Sound
    <3> QED
      BY <1>1, <1>2, <1>5, <1>6, <2>2, <3>1 DEF Open, Larger
  <2> QED
    BY <2>1, <2>2
<1>7. ASSUME Lapsed(b, t) = 0 \/ limit <= b.limit
      PROVE  c.limit * Lapsed(c, t) <= b.limit * Lapsed(b, t)
  <2>1. CASE Lapsed(b, t) = 0
    BY <1>1, <1>2, <1>4, <2>1
  <2>2. CASE limit <= b.limit
    BY <1>1, <1>2, <1>4, <2>2, ProductMonotonic
  <2> QED
    BY <1>7, <2>1, <2>2
<1>8. Covers(b, u, g, t) => Covers(c, u, h, t)
  <2> SUFFICES ASSUME Covers(b, u, g, t) PROVE Covers(c, u, h, t)
    OBVIOUS
  <2>1. Open(c) <= Open(b) + limit - b.limit
    BY <1>6
  <2>2. c.limit * Lapsed(c, t) <= b.limit * Lapsed(b, t)
    BY <1>7
  <2>3. Open(c) \in Int /\ c.limit * Lapsed(c, t) \in Nat
    BY <1>3, SoundFields
  <2>4. PICK o \in Int, p \in Int, m \in Nat, n \in Nat :
          /\ o = Open(c) /\ p = Open(b)
          /\ m = c.limit * Lapsed(c, t) /\ n = b.limit * Lapsed(b, t)
          /\ o <= p + limit - b.limit /\ m <= n
    BY <1>1, <2>1, <2>2, <2>3
  <2>5. u + p + n <= g
    BY <2>4 DEF Covers
  <2>6. u + o + m <= h
    BY <1>1, <2>4, <2>5
  <2> QED
    BY <2>4, <2>6 DEF Covers
<1> QED
  BY <1>2, <1>3, <1>8 DEF Keeps, c

\* Spending moves allowance from open to used; releasing moves it back.
LEMMA KeepsNewSpent ==
  ASSUME NEW b, NEW u, NEW g, Sound(b, u, g), NEW t \in Nat, NEW spent \in Nat,
         NEW v \in Nat, v - u = spent - b.spent,
         \/ b.allow_deficit
         \/ spent <= Capacity(b)
         \/ spent <= b.spent
  PROVE  Keeps(b, u, g, [b EXCEPT !.spent = spent], v, g, t)
<1> DEFINE c == [b EXCEPT !.spent = spent]
<1>1. /\ b \in BudgetRecord /\ u \in Nat /\ g \in Nat
      /\ b.limit \in Nat /\ b.spent \in Nat /\ b.rollover_credit \in Nat
      /\ b.deficit_amount \in Nat /\ b.limit <= g /\ b.spent <= u
      /\ b.limit * Lapsed(b, t) \in Nat /\ Open(b) \in Int
  BY SoundFields
<1>2. /\ c \in BudgetRecord /\ c.spent = spent
      /\ c.limit = b.limit /\ c.rollover_credit = b.rollover_credit
      /\ c.window_start = b.window_start /\ c.period = b.period
      /\ c.period_seconds = b.period_seconds
      /\ c.owner = b.owner /\ c.allow_deficit = b.allow_deficit
      /\ c.deficit_amount = b.deficit_amount /\ c.rollover_bps = b.rollover_bps
  BY <1>1 DEF BudgetRecord
<1> HIDE DEF c
<1>3. Sound(c, v, g)
  <2>1. c.spent <= v
    BY <1>1, <1>2
  <2> QED
    BY <1>1, <1>2, <2>1 DEF Sound
<1>4. Lapsed(c, t) = Lapsed(b, t)
  BY <1>2 DEF Lapsed, WindowLength
<1>5. /\ Available(c) = b.limit + b.rollover_credit - spent - b.deficit_amount
      /\ Available(b) = b.limit + b.rollover_credit - b.spent - b.deficit_amount
  BY <1>1, <1>2 DEF Available, Capacity
<1>6. Open(c) <= Open(b) + b.spent - spent
  <2>1. CASE b.allow_deficit
    BY <1>1, <1>2, <1>5, <2>1 DEF Open
  <2>2. CASE ~ b.allow_deficit
    <3>1. b.deficit_amount = 0 /\ (spent <= b.limit + b.rollover_credit \/ spent <= b.spent)
      BY <2>2 DEF Sound, Capacity
    <3> QED
      BY <1>1, <1>2, <1>5, <2>2, <3>1 DEF Open, Larger
  <2> QED
    BY <2>1, <2>2
<1>7. Open(c) \in Int
  BY <1>3, SoundFields
<1>8. Covers(b, u, g, t) => Covers(c, v, g, t)
  <2>1. PICK o \in Int, p \in Int, n \in Nat :
          /\ o = Open(c) /\ p = Open(b) /\ n = b.limit * Lapsed(b, t)
          /\ n = c.limit * Lapsed(c, t)
          /\ o <= p + b.spent - spent
    BY <1>1, <1>2, <1>4, <1>6, <1>7
  <2>2. u + p + n <= g => v + o + n <= g
    BY <1>1, <2>1
  <2> QED
    BY <2>1, <2>2 DEF Covers
<1> QED
  BY <1>2, <1>3, <1>8 DEF Keeps, c

\* The life cycle does not touch the amounts.
LEMMA KeepsNewState ==
  ASSUME NEW b, NEW u, NEW g, Sound(b, u, g), NEW t, NEW state \in ResourceState
  PROVE  Keeps(b, u, g, [b EXCEPT !.state = state], u, g, t)
<1> DEFINE c == [b EXCEPT !.state = state]
<1>1. b \in BudgetRecord
  BY DEF Sound
<1>2. /\ c \in BudgetRecord /\ c.spent = b.spent
      /\ c.limit = b.limit /\ c.rollover_credit = b.rollover_credit
      /\ c.window_start = b.window_start /\ c.period = b.period
      /\ c.period_seconds = b.period_seconds
      /\ c.owner = b.owner /\ c.allow_deficit = b.allow_deficit
      /\ c.deficit_amount = b.deficit_amount /\ c.rollover_bps = b.rollover_bps
  BY <1>1 DEF BudgetRecord
<1> HIDE DEF c
<1>3. Sound(c, u, g)
  BY <1>2 DEF Sound
<1>4. Open(c) = Open(b) /\ Lapsed(c, t) = Lapsed(b, t)
  BY <1>2 DEF Open, Available, Capacity, Lapsed, WindowLength
<1> QED
  BY <1>2, <1>3, <1>4 DEF Keeps, Covers, c

-----------------------------------------------------------------------------
(* The envelopes' invariant                                                 *)

ControlOK ==
  /\ now \in Nat
  /\ admin \in Addr \cup {NoAdmin}
  /\ settings \in 0..MaxSettings

\* Each envelope is sound and, unless allowance was moved into it behind a
\* lapsed window, covered.
EnvelopesOK ==
  /\ Allocated \subseteq BudgetId
  /\ IsFiniteSet(Allocated)
  /\ backdated \subseteq Allocated
  /\ used \in [BudgetId -> Nat]
  /\ granted \in [BudgetId -> Nat]
  /\ \A id \in Allocated : Sound(budget[id], used[id], granted[id])
  /\ \A id \in Allocated \ backdated : Covers(budget[id], used[id], granted[id], now)

\* The endowments are a function; AllocationConserved says which.
EndowmentsOK ==
  /\ endowed \in [Addr -> Int]
  /\ AllocationConserved

\* Calls that rewrite one envelope and keep its cover.
Rewrites(id) ==
  /\ id \in Allocated
  /\ Allocated' = Allocated
  /\ now' = now
  /\ backdated' = backdated
  /\ \A i \in Allocated \ {id} : budget'[i] = budget[i]
  /\ used' \in [BudgetId -> Nat]
  /\ \A i \in BudgetId \ {id} : used'[i] = used[i]
  /\ granted' \in [BudgetId -> Nat]
  /\ \A i \in BudgetId \ {id} : granted'[i] = granted[i]
  /\ Keeps(budget[id], used[id], granted[id], budget'[id], used'[id], granted'[id], now)
  /\ endowed' \in [Addr -> Int]
  /\ \A a \in Addr : endowed'[a] = IF a = budget[id].owner
                       THEN endowed[a] + budget'[id].limit - budget[id].limit
                       ELSE endowed[a]

\* A rewrite of one envelope keeps all of them sound.
LEMMA RewritesEnvelopes ==
  ASSUME EnvelopesOK, NEW id, Rewrites(id)
  PROVE  EnvelopesOK'
<1> USE DEF EnvelopesOK, Rewrites
<1>1. id \in BudgetId
  OBVIOUS
<1>2. ASSUME NEW i \in Allocated' PROVE Sound(budget'[i], used'[i], granted'[i])
  <2>1. CASE i = id
    BY <2>1 DEF Keeps
  <2>2. CASE i # id
    <3>1. i \in BudgetId \ {id} /\ i \in Allocated
      BY <1>2, <2>2
    <3>2. budget'[i] = budget[i] /\ used'[i] = used[i] /\ granted'[i] = granted[i]
      BY <3>1
    <3> QED
      BY <3>1, <3>2
  <2> QED
    BY <2>1, <2>2
<1>3. ASSUME NEW i \in Allocated' \ backdated'
      PROVE  Covers(budget'[i], used'[i], granted'[i], now')
  <2>1. CASE i = id
    BY <1>3, <2>1 DEF Keeps
  <2>2. CASE i # id
    <3>1. i \in BudgetId \ {id} /\ i \in Allocated \ backdated
      BY <1>3, <2>2
    <3>2. budget'[i] = budget[i] /\ used'[i] = used[i] /\ granted'[i] = granted[i]
      BY <3>1
    <3> QED
      BY <3>1, <3>2
  <2> QED
    BY <2>1, <2>2
<1> QED
  BY <1>2, <1>3

\* The limits an owner holds, as a sum of integers.
LEMMA LimitsAreNumbers ==
  ASSUME EnvelopesOK
  PROVE  /\ \A a : OwnedBy(a) \subseteq Allocated /\ IsFiniteSet(OwnedBy(a))
         /\ \A i \in Allocated : budget[i].owner \in Addr /\ budget[i].limit \in Nat
                                 /\ LimitOf[i] = budget[i].limit
<1>1. ASSUME NEW i \in Allocated PROVE budget[i].owner \in Addr /\ budget[i].limit \in Nat
  <2>1. budget[i] \in BudgetRecord
    BY DEF EnvelopesOK, Sound
  <2> QED
    BY <2>1 DEF BudgetRecord
<1>2. ASSUME NEW a PROVE OwnedBy(a) \subseteq Allocated /\ IsFiniteSet(OwnedBy(a))
  <2>1. OwnedBy(a) \subseteq Allocated
    BY DEF OwnedBy
  <2> QED
    BY <2>1, FS_Subset DEF EnvelopesOK
<1> QED
  BY <1>1, <1>2 DEF LimitOf

\* A rewrite of one envelope keeps the endowments of the owners.
LEMMA RewritesEndowments ==
  ASSUME EnvelopesOK, EndowmentsOK, NEW id, Rewrites(id)
  PROVE  EndowmentsOK'
<1>1. EnvelopesOK'
  BY RewritesEnvelopes
<1>2. id \in Allocated /\ Allocated' = Allocated /\ endowed' \in [Addr -> Int]
  BY DEF Rewrites
<1>3. \A i \in Allocated : budget'[i].owner = budget[i].owner
  BY DEF Rewrites, Keeps
<1>4. \A a : OwnedBy(a)' = OwnedBy(a)
  BY <1>2, <1>3 DEF OwnedBy
<1>5. PICK f : f = LimitOf
  OBVIOUS
<1>6. PICK g : g = LimitOf'
  OBVIOUS
<1>7. \A i \in Allocated : /\ f[i] = budget[i].limit /\ f[i] \in Nat
                           /\ g[i] = budget'[i].limit /\ g[i] \in Nat
  <2>1. \A i \in Allocated : f[i] = budget[i].limit /\ f[i] \in Nat
    BY <1>5, LimitsAreNumbers
  <2>2. \A i \in Allocated' : budget'[i].limit \in Nat /\ LimitOf'[i] = budget'[i].limit
    BY <1>1 DEF EnvelopesOK, Sound, BudgetRecord, LimitOf
  <2>3. \A i \in Allocated : g[i] = budget'[i].limit /\ g[i] \in Nat
    BY <1>2, <1>6, <2>2
  <2> QED
    BY <2>1, <2>3
<1>8. \A i \in Allocated \ {id} : g[i] = f[i]
  BY <1>7 DEF Rewrites
<1>9. ASSUME NEW a \in Addr
      PROVE  endowed'[a] = SumFunctionOnSet(g, OwnedBy(a))
  <2>1. OwnedBy(a) \subseteq Allocated /\ IsFiniteSet(OwnedBy(a))
    BY LimitsAreNumbers
  <2>2. endowed[a] = SumFunctionOnSet(f, OwnedBy(a)) /\ endowed[a] \in Int
    BY <1>5 DEF EndowmentsOK, AllocationConserved
  <2>3. \A i \in OwnedBy(a) : f[i] \in Int /\ g[i] \in Int
    BY <1>7, <2>1
  <2>4. CASE a = budget[id].owner
    <3>1. id \in OwnedBy(a)
      BY <1>2, <2>4 DEF OwnedBy
    <3>2. \A i \in OwnedBy(a) \ {id} : g[i] = f[i]
      BY <1>8, <2>1
    <3>3. SumFunctionOnSet(g, OwnedBy(a)) = SumFunctionOnSet(f, OwnedBy(a)) + g[id] - f[id]
      BY <2>1, <2>3, <3>1, <3>2, SumChanged
    <3>4. endowed'[a] = endowed[a] + g[id] - f[id]
      BY <1>2, <1>7, <2>4 DEF Rewrites
    <3> QED
      BY <2>2, <3>3, <3>4
  <2>5. CASE a # budget[id].owner
    <3>1. \A i \in OwnedBy(a) : g[i] = f[i]
      BY <1>8, <2>1, <2>5 DEF OwnedBy
    <3>2. SumFunctionOnSet(g, OwnedBy(a)) = SumFunctionOnSet(f, OwnedBy(a))
      BY <2>1, <3>1, SumSame
    <3> QED
      BY <2>2, <2>5, <3>2 DEF Rewrites
  <2> QED
    BY <2>4, <2>5
<1>10. AllocationConserved'
  BY <1>4, <1>6, <1>9 DEF AllocationConserved
<1> QED
  BY <1>2, <1>10 DEF EndowmentsOK

-----------------------------------------------------------------------------
(* The calls on one envelope                                                *)

\* Function g is f with v at x.
Put(f, g, x, v) == g = [f EXCEPT ![x] = v]

\* Writing back what is there.
LEMMA PutSame ==
  ASSUME NEW S, NEW R, NEW f \in [S -> R], NEW x \in S
  PROVE  Put(f, f, x, f[x])
  BY DEF Put

\* What the owner of an envelope has put in once the envelope is c.
Endowment(id, c) == endowed[budget[id].owner] + c.limit - budget[id].limit

\* An envelope with the same limit leaves its owner with the same endowment.
LEMMA EndowmentSame ==
  ASSUME EnvelopesOK, EndowmentsOK, NEW id \in Allocated, NEW c, c.limit = budget[id].limit
  PROVE  Put(endowed, endowed, budget[id].owner, Endowment(id, c))
<1>1. budget[id].owner \in Addr /\ budget[id].limit \in Nat
  BY LimitsAreNumbers
<1>2. endowed \in [Addr -> Int]
  BY DEF EndowmentsOK
<1>3. endowed[budget[id].owner] = Endowment(id, c)
  BY <1>1, <1>2 DEF Endowment
<1>4. Put(endowed, endowed, budget[id].owner, endowed[budget[id].owner])
  BY <1>1, <1>2, PutSame
<1> QED
  BY <1>3, <1>4

\* What a call on one envelope must do to be a rewrite.
LEMMA RewriteOne ==
  ASSUME ControlOK, EnvelopesOK, EndowmentsOK, NEW id \in Allocated, NEW c, NEW v, NEW h,
         now' = now, backdated' = backdated,
         Put(budget, budget', id, c), Put(used, used', id, v), Put(granted, granted', id, h),
         Put(endowed, endowed', budget[id].owner, Endowment(id, c)),
         Keeps(budget[id], used[id], granted[id], c, v, h, now)
  PROVE  Rewrites(id)
<1>1. v \in Nat /\ h \in Nat /\ c.limit \in Nat
  BY DEF Keeps, Sound, BudgetRecord
<1>2. id \in BudgetId /\ used \in [BudgetId -> Nat] /\ granted \in [BudgetId -> Nat]
  BY DEF EnvelopesOK
<1>3. /\ used' \in [BudgetId -> Nat] /\ used'[id] = v
      /\ \A i \in BudgetId \ {id} : used'[i] = used[i]
  BY <1>1, <1>2 DEF Put
<1>4. /\ granted' \in [BudgetId -> Nat] /\ granted'[id] = h
      /\ \A i \in BudgetId \ {id} : granted'[i] = granted[i]
  BY <1>1, <1>2 DEF Put
<1>5. /\ Allocated' = Allocated /\ budget'[id] = c
      /\ \A i \in Allocated \ {id} : budget'[i] = budget[i]
  BY DEF Put, Allocated
<1>6. budget[id].owner \in Addr /\ budget[id].limit \in Nat
  BY LimitsAreNumbers
<1>7. endowed \in [Addr -> Int]
  BY DEF EndowmentsOK
<1>8. Endowment(id, c) \in Int
  BY <1>1, <1>6, <1>7 DEF Endowment
<1>9. /\ endowed' \in [Addr -> Int]
      /\ \A a \in Addr : endowed'[a] = IF a = budget[id].owner THEN Endowment(id, c)
                                                             ELSE endowed[a]
  BY <1>6, <1>7, <1>8 DEF Put
<1> QED
  BY <1>3, <1>4, <1>5, <1>9 DEF Rewrites, Endowment

\* The envelope, its history and its settlement, where one call starts from.
LEMMA SettleFirst ==
  ASSUME ControlOK, EnvelopesOK, NEW id \in Allocated
  PROVE  /\ id \in BudgetId
         /\ Sound(budget[id], used[id], granted[id])
         /\ Sound(Settled(id), used[id], granted[id])
         /\ Keeps(budget[id], used[id], granted[id], Settled(id), used[id], granted[id], now)
         /\ SameTerms(Settled(id), budget[id])
         /\ Lapsed(Settled(id), now) = 0
         /\ Settled(id).spent <= budget[id].spent
<1>1. id \in BudgetId /\ Sound(budget[id], used[id], granted[id]) /\ now \in Nat
  BY DEF EnvelopesOK, ControlOK
<1> QED
  BY <1>1, KeepsSettled DEF Settled, Keeps

\* Calls that leave used, granted and the limits alone.
LEMMA RewriteRecord ==
  ASSUME ControlOK, EnvelopesOK, EndowmentsOK, NEW id \in Allocated, NEW c, Store(id, c),
         now' = now, used' = used, granted' = granted, backdated' = backdated, endowed' = endowed,
         c.limit = budget[id].limit,
         Keeps(budget[id], used[id], granted[id], c, used[id], granted[id], now)
  PROVE  Rewrites(id)
<1>1. id \in BudgetId /\ used \in [BudgetId -> Nat] /\ granted \in [BudgetId -> Nat]
  BY DEF EnvelopesOK
<1>2. Put(used, used', id, used[id])
  BY <1>1, PutSame
<1>3. Put(granted, granted', id, granted[id])
  BY <1>1, PutSame
<1>4. Put(endowed, endowed', budget[id].owner, Endowment(id, c))
  BY EndowmentSame
<1>5. Put(budget, budget', id, c)
  BY DEF Put, Store
<1> QED
  BY <1>2, <1>3, <1>4, <1>5, RewriteOne

\* set_recurrence settles the old cadence before it starts the new one.
LEMMA SetRecurrenceRewrites ==
  ASSUME ControlOK, EnvelopesOK, EndowmentsOK, NEW caller, NEW id, NEW r \in Recurrences,
         SetRecurrence(caller, id, r)
  PROVE  Rewrites(id)
<1> DEFINE scheduled == now < budget[id].window_start
           base == IF scheduled THEN budget[id] ELSE Settled(id)
           bps == IF ~r.rollover_enabled THEN 0
                  ELSE IF base.rollover_bps = 0 THEN BPS ELSE base.rollover_bps
           secs == IF r.period = "Custom" THEN r.period_seconds ELSE 0
           start == IF scheduled THEN base.window_start ELSE now
           d == [base EXCEPT !.period = r.period, !.period_seconds = secs,
                   !.rollover_enabled = r.rollover_enabled, !.rollover_cap = r.rollover_cap,
                   !.rollover_max_bps = r.rollover_max_bps, !.rollover_bps = bps,
                   !.window_start = start]
<1>1. id \in Allocated /\ Store(id, ClampCredit(d)) /\ now' = now
      /\ used' = used /\ granted' = granted /\ backdated' = backdated /\ endowed' = endowed
  BY DEF SetRecurrence, RequireOwner
<1>2. /\ Sound(base, used[id], granted[id]) /\ base.limit = budget[id].limit
      /\ Keeps(budget[id], used[id], granted[id], base, used[id], granted[id], now)
      /\ start \in Nat /\ now <= start
  <2>1. now \in Nat /\ budget[id] \in BudgetRecord
    BY <1>1 DEF ControlOK, EnvelopesOK, Sound
  <2>2. budget[id].window_start \in Nat
    BY <2>1 DEF BudgetRecord
  <2>3. CASE scheduled
    <3>1. base = budget[id] /\ start = budget[id].window_start
      BY <2>3
    <3>2. Sound(budget[id], used[id], granted[id])
      BY <1>1, SettleFirst
    <3>3. now < budget[id].window_start
      BY <2>3
    <3> HIDE DEF base, start
    <3> QED
      BY <2>1, <2>2, <3>1, <3>2, <3>3 DEF Keeps
  <2>4. CASE ~ scheduled
    <3>1. base = Settled(id) /\ start = now
      BY <2>4
    <3> HIDE DEF base, start
    <3> QED
      BY <1>1, <2>1, <3>1, SettleFirst DEF SameTerms
  <2> QED
    BY <2>3, <2>4
<1>3. /\ r.period \in Period /\ r.period_seconds \in Nat /\ r.rollover_enabled \in BOOLEAN
      /\ r.rollover_cap \in Nat /\ r.rollover_max_bps \in Nat
  BY BudgetInputsAssumption
<1>4. base \in BudgetRecord /\ base.rollover_bps <= BPS /\ base.rollover_bps \in Nat
  BY <1>2 DEF Sound, BudgetRecord
<1>5. bps \in Nat /\ bps <= BPS
  BY <1>4, BudgetMathAssumption
<1>6. secs \in Nat
  BY <1>3
<1> HIDE DEF base, bps, secs, start
<1>7. /\ d \in BudgetRecord
      /\ d.owner = base.owner /\ d.limit = base.limit /\ d.spent = base.spent
      /\ d.allow_deficit = base.allow_deficit /\ d.deficit_amount = base.deficit_amount
      /\ d.rollover_credit = base.rollover_credit /\ d.rollover_bps = bps
      /\ d.window_start = start
  BY <1>2, <1>3, <1>4, <1>5, <1>6 DEF BudgetRecord
<1> HIDE DEF d
<1>8. Keeps(base, used[id], granted[id], ClampCredit(d), used[id], granted[id], now)
  <2>1. now \in Nat /\ d.rollover_bps <= BPS /\ now <= d.window_start
    BY <1>2, <1>5, <1>7 DEF ControlOK
  <2> QED
    BY <1>2, <1>7, <2>1, KeepsPolicy
<1>9. ClampCredit(d).limit = budget[id].limit
  BY <1>2, <1>7, Clamped DEF ClampedFrom
<1>10. Keeps(budget[id], used[id], granted[id], ClampCredit(d), used[id], granted[id], now)
  BY <1>2, <1>8, KeepsChained
<1> QED
  BY <1>1, <1>9, <1>10, RewriteRecord

\* set_rollover_config settles, then clamps the credit.
LEMMA SetRolloverConfigRewrites ==
  ASSUME ControlOK, EnvelopesOK, EndowmentsOK, NEW caller, NEW id, NEW r \in Rollovers,
         SetRolloverConfig(caller, id, r)
  PROVE  Rewrites(id)
<1> DEFINE base == Settled(id)
           d == [base EXCEPT !.rollover_enabled = r.rollover_enabled,
                             !.rollover_bps = r.rollover_bps,
                             !.rollover_cap = r.rollover_cap]
<1>1. /\ id \in Allocated /\ Store(id, ClampCredit(d)) /\ now' = now
      /\ used' = used /\ granted' = granted /\ backdated' = backdated /\ endowed' = endowed
      /\ r.rollover_bps <= BPS
  BY DEF SetRolloverConfig, RequireOwner
<1>2. /\ Sound(base, used[id], granted[id]) /\ base.limit = budget[id].limit
      /\ Keeps(budget[id], used[id], granted[id], base, used[id], granted[id], now)
  BY <1>1, SettleFirst DEF SameTerms
<1>3. /\ r.rollover_enabled \in BOOLEAN /\ r.rollover_cap \in Nat /\ r.rollover_bps \in Nat
  BY BudgetInputsAssumption
<1>4. base \in BudgetRecord /\ now \in Nat
  BY <1>2 DEF Sound, ControlOK
<1> HIDE DEF base
<1>5. /\ d \in BudgetRecord
      /\ d.owner = base.owner /\ d.limit = base.limit /\ d.spent = base.spent
      /\ d.allow_deficit = base.allow_deficit /\ d.deficit_amount = base.deficit_amount
      /\ d.rollover_credit = base.rollover_credit /\ d.rollover_bps = r.rollover_bps
      /\ d.period = base.period /\ d.period_seconds = base.period_seconds
      /\ d.window_start = base.window_start
  BY <1>3, <1>4 DEF BudgetRecord
<1> HIDE DEF d
<1>6. Keeps(base, used[id], granted[id], ClampCredit(d), used[id], granted[id], now)
  BY <1>1, <1>2, <1>4, <1>5, KeepsPolicy
<1>7. ClampCredit(d).limit = budget[id].limit
  BY <1>2, <1>5, Clamped DEF ClampedFrom
<1>8. Keeps(budget[id], used[id], granted[id], ClampCredit(d), used[id], granted[id], now)
  BY <1>2, <1>6, KeepsChained
<1> QED
  BY <1>1, <1>7, <1>8, RewriteRecord

\* Rollover and remaining settle and do nothing else.
LEMMA SettleRewrites ==
  ASSUME ControlOK, EnvelopesOK, EndowmentsOK, NEW id \in Allocated,
         Store(id, Settled(id)), now' = now, used' = used, granted' = granted,
         backdated' = backdated, endowed' = endowed
  PROVE  Rewrites(id)
<1>1. /\ Settled(id).limit = budget[id].limit
      /\ Keeps(budget[id], used[id], granted[id], Settled(id), used[id], granted[id], now)
  BY SettleFirst DEF SameTerms
<1> QED
  BY <1>1, RewriteRecord

\* freeze, unfreeze and archive touch no amount.
LEMMA LifecycleRewrites ==
  ASSUME ControlOK, EnvelopesOK, EndowmentsOK, NEW caller, NEW id,
         Freeze(caller, id) \/ Unfreeze(caller, id) \/ Archive(caller, id)
  PROVE  Rewrites(id)
<1>1. PICK state \in ResourceState :
        /\ id \in Allocated /\ Store(id, [budget[id] EXCEPT !.state = state]) /\ now' = now
        /\ used' = used /\ granted' = granted /\ backdated' = backdated /\ endowed' = endowed
  BY DEF Freeze, Unfreeze, Archive, RequireOwner, ResourceState
<1> DEFINE c == [budget[id] EXCEPT !.state = state]
<1>2. Sound(budget[id], used[id], granted[id])
  BY <1>1, SettleFirst
<1>3. Keeps(budget[id], used[id], granted[id], c, used[id], granted[id], now)
  BY <1>2, KeepsNewState
<1>4. c.limit = budget[id].limit
  BY <1>2 DEF Sound, BudgetRecord
<1>5. Store(id, c)
  BY <1>1
<1> HIDE DEF c
<1> QED
  BY <1>1, <1>3, <1>4, <1>5, RewriteRecord

\* reset grants the window it clears.
LEMMA ResetRewrites ==
  ASSUME ControlOK, EnvelopesOK, EndowmentsOK, NEW caller, NEW id, Reset(caller, id)
  PROVE  Rewrites(id)
<1> DEFINE c == [budget[id] EXCEPT !.spent = 0, !.rollover_credit = 0, !.window_start = now]
           h == granted[id] + budget[id].spent
<1>1. /\ id \in Allocated /\ Store(id, c) /\ now' = now /\ used' = used
      /\ granted' = [granted EXCEPT ![id] = h] /\ backdated' = backdated /\ endowed' = endowed
  BY DEF Reset, RequireOwner
<1>2. Sound(budget[id], used[id], granted[id]) /\ now \in Nat /\ id \in BudgetId
  BY <1>1, SettleFirst DEF ControlOK
<1>3. Keeps(budget[id], used[id], granted[id], c, used[id], h, now)
  BY <1>2, KeepsReset
<1>4. c.limit = budget[id].limit
  BY <1>2 DEF Sound, BudgetRecord
<1>5. Put(budget, budget', id, c) /\ Put(granted, granted', id, h)
  BY <1>1 DEF Put, Store
<1> HIDE DEF c, h
<1>6. Put(used, used', id, used[id])
  BY <1>1, <1>2, PutSame DEF EnvelopesOK
<1>7. Put(endowed, endowed', budget[id].owner, Endowment(id, c))
  BY <1>1, <1>4, EndowmentSame
<1> QED
  BY <1>1, <1>3, <1>5, <1>6, <1>7, RewriteOne

\* set_limit grants what the limit gains.
LEMMA SetLimitRewrites ==
  ASSUME ControlOK, EnvelopesOK, EndowmentsOK, NEW caller, NEW id, NEW limit \in Limits,
         SetLimit(caller, id, limit)
  PROVE  Rewrites(id)
<1> DEFINE base == Settled(id)
           c == [base EXCEPT !.limit = limit]
           h == granted[id] + limit - budget[id].limit
<1>1. /\ id \in Allocated /\ caller = budget[id].owner /\ limit >= base.spent
      /\ Store(id, c) /\ now' = now /\ used' = used
      /\ granted' = [granted EXCEPT ![id] = h] /\ backdated' = backdated
      /\ endowed' = [endowed EXCEPT ![caller] = endowed[caller] + limit - budget[id].limit]
  BY DEF SetLimit, RequireOwner
<1>2. /\ Sound(base, used[id], granted[id]) /\ base.limit = budget[id].limit
      /\ Lapsed(base, now) = 0 /\ id \in BudgetId
      /\ Keeps(budget[id], used[id], granted[id], base, used[id], granted[id], now)
  BY <1>1, SettleFirst DEF SameTerms
<1>3. limit \in Nat /\ now \in Nat
  BY BudgetInputsAssumption DEF ControlOK
<1> HIDE DEF base
<1>4. base.limit \in Nat /\ granted[id] \in Nat /\ base.limit <= granted[id]
      /\ base \in BudgetRecord
  BY <1>2, <1>3, SoundFields
<1>5. h \in Nat /\ h = granted[id] + limit - base.limit
  BY <1>2, <1>3, <1>4
<1>6. c.limit = limit
  BY <1>4 DEF BudgetRecord
<1>7. Put(budget, budget', id, c) /\ Put(granted, granted', id, h)
  BY <1>1 DEF Put, Store
<1>8. Put(endowed, endowed', budget[id].owner, Endowment(id, c))
  BY <1>1, <1>6 DEF Put, Endowment
<1> HIDE DEF h
<1>9. Keeps(base, used[id], granted[id], c, used[id], h, now)
  BY <1>1, <1>2, <1>3, <1>5, KeepsNewLimit
<1> HIDE DEF c
<1>10. Keeps(budget[id], used[id], granted[id], c, used[id], h, now)
  BY <1>2, <1>9, KeepsChained
<1>11. Put(used, used', id, used[id])
  BY <1>1, <1>2, PutSame DEF EnvelopesOK
<1> QED
  BY <1>1, <1>7, <1>8, <1>10, <1>11, RewriteOne

\* consume and release move between used and open.
LEMMA SpendRewrites ==
  ASSUME ControlOK, EnvelopesOK, EndowmentsOK, NEW caller, NEW id, NEW amount \in Amounts,
         Consume(caller, id, amount) \/ Release(caller, id, amount)
  PROVE  Rewrites(id)
<1> DEFINE base == Settled(id)
<1>1. amount \in Nat /\ now \in Nat
  BY BudgetInputsAssumption DEF ControlOK
<1>2. id \in Allocated
  BY DEF Consume, Release, RequireOwner
<1>3. /\ Sound(base, used[id], granted[id]) /\ base.limit = budget[id].limit /\ id \in BudgetId
      /\ Keeps(budget[id], used[id], granted[id], base, used[id], granted[id], now)
  BY <1>2, SettleFirst DEF SameTerms
<1>4. /\ base.spent \in Nat /\ base.limit \in Nat /\ base.rollover_credit \in Nat
      /\ base.deficit_amount \in Nat /\ base.spent <= used[id] /\ used[id] \in Nat
      /\ base \in BudgetRecord
  BY <1>1, <1>3, SoundFields
<1>5. PICK spent \in Nat, v \in Nat :
        /\ Put(budget, budget', id, [base EXCEPT !.spent = spent])
        /\ Put(used, used', id, v)
        /\ v - used[id] = spent - base.spent
        /\ base.allow_deficit \/ spent <= Capacity(base) \/ spent <= base.spent
  <2>1. CASE Consume(caller, id, amount)
    <3>1. /\ Put(budget, budget', id, [base EXCEPT !.spent = base.spent + amount])
          /\ Put(used, used', id, used[id] + amount)
          /\ base.spent + amount <= Ceiling(base) \/ base.allow_deficit
      BY <2>1 DEF Consume, Store, Put
    <3> HIDE DEF base
    <3>2. base.allow_deficit \/ base.spent + amount <= Capacity(base)
      BY <1>1, <1>4, <3>1 DEF Ceiling, Capacity
    <3>3. base.spent + amount \in Nat /\ used[id] + amount \in Nat
          /\ (used[id] + amount) - used[id] = (base.spent + amount) - base.spent
      BY <1>1, <1>4
    <3> QED
      BY <3>1, <3>2, <3>3
  <2>2. CASE Release(caller, id, amount)
    <3>1. /\ Put(budget, budget', id, [base EXCEPT !.spent = base.spent - amount])
          /\ Put(used, used', id, used[id] - amount)
          /\ amount <= base.spent
      BY <2>2 DEF Release, Store, Put
    <3> HIDE DEF base
    <3>2. /\ base.spent - amount \in Nat /\ used[id] - amount \in Nat
          /\ (used[id] - amount) - used[id] = (base.spent - amount) - base.spent
          /\ base.spent - amount <= base.spent
      BY <1>1, <1>4, <3>1
    <3> QED
      BY <3>1, <3>2
  <2> QED
    BY <2>1, <2>2
<1>6. now' = now /\ granted' = granted /\ backdated' = backdated /\ endowed' = endowed
  BY DEF Consume, Release
<1> HIDE DEF base
<1> DEFINE c == [base EXCEPT !.spent = spent]
<1>7. Keeps(base, used[id], granted[id], c, v, granted[id], now)
  BY <1>1, <1>3, <1>5, KeepsNewSpent
<1>8. c.limit = budget[id].limit
  BY <1>3, <1>4 DEF BudgetRecord
<1>9. Put(budget, budget', id, c)
  BY <1>5
<1> HIDE DEF c
<1>10. Keeps(budget[id], used[id], granted[id], c, v, granted[id], now)
  BY <1>3, <1>7, KeepsChained
<1>11. Put(granted, granted', id, granted[id])
  BY <1>3, <1>6, PutSame DEF EnvelopesOK
<1>12. Put(endowed, endowed', budget[id].owner, Endowment(id, c))
  BY <1>2, <1>6, <1>8, EndowmentSame
<1> QED
  BY <1>2, <1>5, <1>6, <1>9, <1>10, <1>11, <1>12, RewriteOne

-----------------------------------------------------------------------------
(* Allocation, reallocation and the clock                                   *)

\* Every allocate call, with the rollover and the start that it passes on.
LEMMA AllocateCalls ==
  ASSUME NEW owner, NEW id, NEW g \in Grants, ControlOK,
         \/ AllocateWithDeficit(owner, id, g)
         \/ AllocateWithRollover(owner, id, g)
         \/ \E start_at \in Starts : AllocateScheduled(owner, id, g, start_at)
  PROVE  \E bps \in Nat, cap \in Nat, start \in Nat :
           AllocateInternal(owner, id, g, bps, cap, start)
<1>1. /\ now \in Nat /\ Starts \subseteq Nat /\ FullRollover(g) \in Nat
      /\ g.rollover_bps \in Nat /\ g.rollover_cap \in Nat
  BY BudgetInputsAssumption, BudgetMathAssumption DEF ControlOK, FullRollover
<1>2. CASE AllocateWithDeficit(owner, id, g)
  BY <1>1, <1>2 DEF AllocateWithDeficit
<1>3. CASE AllocateWithRollover(owner, id, g)
  BY <1>1, <1>3 DEF AllocateWithRollover
<1>4. CASE \E start_at \in Starts : AllocateScheduled(owner, id, g, start_at)
  BY <1>1, <1>4 DEF AllocateScheduled
<1> QED
  BY <1>2, <1>3, <1>4

\* A new envelope owes its history the windows since its start.
LEMMA NewEnvelope ==
  ASSUME ControlOK, NEW owner \in Addr, NEW id, NEW g \in Grants,
         NEW bps \in Nat, NEW cap \in Nat, NEW start \in Nat,
         AllocateInternal(owner, id, g, bps, cap, start)
  PROVE  LET b == budget'[id]
             h == g.limit * (1 + BoundariesBy(start, WindowOf(g.period, 0), now))
         IN  /\ Sound(b, 0, h) /\ Covers(b, 0, h, now)
             /\ b.owner = owner /\ b.limit = g.limit
<1> DEFINE b == [owner |-> owner, limit |-> g.limit, spent |-> 0, period |-> g.period,
               period_seconds |-> 0, window_start |-> start,
               rollover_enabled |-> g.rollover_enabled, rollover_credit |-> 0,
               rollover_cap |-> cap, rollover_max_bps |-> 0, rollover_bps |-> bps,
               allow_deficit |-> g.allow_deficit, deficit_amount |-> 0,
               expires_at |-> g.expires_at, state |-> "Active"]
           n == BoundariesBy(start, WindowOf(g.period, 0), now)
           h == g.limit * (1 + n)
<1>1. /\ g.limit \in Nat /\ g.period \in Period /\ g.rollover_enabled \in BOOLEAN
      /\ g.allow_deficit \in BOOLEAN /\ g.expires_at \in Nat /\ now \in Nat
  BY BudgetInputsAssumption DEF ControlOK
<1>2. budget'[id] = b /\ bps <= BPS
  BY DEF AllocateInternal
<1>3. b \in BudgetRecord
  BY <1>1 DEF BudgetRecord, ResourceState
<1>4. /\ b.limit = g.limit /\ b.spent = 0 /\ b.rollover_credit = 0 /\ b.deficit_amount = 0
      /\ b.owner = owner /\ b.rollover_bps = bps
  OBVIOUS
<1>5. Lapsed(b, now) = n
  BY DEF Lapsed, WindowLength
<1> HIDE DEF b
<1>6. n \in Nat
  BY <1>1, <1>3, <1>5, LapsedWindows
<1> HIDE DEF n
<1>7. /\ h = g.limit + g.limit * n /\ g.limit * n \in Nat
  <2>1. \A x \in Nat, y \in Nat : x * (1 + y) = x + x * y
    BY SMT
  <2> QED
    BY <1>1, <1>6, <2>1, ProductMonotonic
<1> HIDE DEF h
<1>8. h \in Nat /\ g.limit <= h
  BY <1>1, <1>7
<1>9. Sound(b, 0, h)
  BY <1>1, <1>2, <1>3, <1>4, <1>8 DEF Sound
<1>10. Open(b) = g.limit
  BY <1>1, <1>4 DEF Open, Available, Capacity, Larger
<1>11. Covers(b, 0, h, now)
  BY <1>1, <1>4, <1>5, <1>7, <1>10 DEF Covers
<1> QED
  BY <1>2, <1>4, <1>9, <1>11 DEF h, n

\* A new envelope is granted its first window.
LEMMA AllocateStep ==
  ASSUME ControlOK, EnvelopesOK, EndowmentsOK, NEW owner \in Addr, NEW id \in BudgetId,
         NEW g \in Grants, NEW bps \in Nat, NEW cap \in Nat, NEW start \in Nat,
         AllocateInternal(owner, id, g, bps, cap, start)
  PROVE  EnvelopesOK' /\ EndowmentsOK'
<1>1. PICK h : h = g.limit * (1 + BoundariesBy(start, WindowOf(g.period, 0), now))
  OBVIOUS
<1>2. /\ Sound(budget'[id], 0, h) /\ Covers(budget'[id], 0, h, now)
      /\ budget'[id].owner = owner /\ budget'[id].limit = g.limit
  BY <1>1, NewEnvelope
<1>3. h \in Nat /\ g.limit \in Nat
  BY <1>2, BudgetInputsAssumption DEF Sound
<1>4. /\ id \notin Allocated /\ Allocated' = Allocated \cup {id}
      /\ \A i \in Allocated : budget'[i] = budget[i]
      /\ now' = now /\ backdated' = backdated
  BY DEF AllocateInternal, Allocated
<1>5. used' = [used EXCEPT ![id] = 0] /\ granted' = [granted EXCEPT ![id] = h]
      /\ endowed' = [endowed EXCEPT ![owner] = endowed[owner] + g.limit]
  BY <1>1 DEF AllocateInternal
<1>6. /\ used' \in [BudgetId -> Nat] /\ used'[id] = 0
      /\ granted' \in [BudgetId -> Nat] /\ granted'[id] = h
      /\ \A i \in Allocated : used'[i] = used[i] /\ granted'[i] = granted[i]
  BY <1>3, <1>4, <1>5 DEF EnvelopesOK
<1>7. EnvelopesOK'
  <2>1. Allocated' \subseteq BudgetId /\ IsFiniteSet(Allocated') /\ backdated' \subseteq Allocated'
    BY <1>4, FS_AddElement DEF EnvelopesOK
  <2>2. \A i \in Allocated' : Sound(budget'[i], used'[i], granted'[i])
    BY <1>2, <1>4, <1>6 DEF EnvelopesOK
  <2>3. \A i \in Allocated' \ backdated' : Covers(budget'[i], used'[i], granted'[i], now')
    BY <1>2, <1>4, <1>6 DEF EnvelopesOK
  <2> QED
    BY <1>6, <2>1, <2>2, <2>3 DEF EnvelopesOK
<1>8. /\ endowed' \in [Addr -> Int] /\ endowed'[owner] = endowed[owner] + g.limit
      /\ \A a \in Addr \ {owner} : endowed'[a] = endowed[a]
  BY <1>3, <1>5 DEF EndowmentsOK
<1>9. AllocationConserved'
  <2>1. PICK e : e = LimitOf
    OBVIOUS
  <2>2. PICK f : f = LimitOf'
    OBVIOUS
  <2>3. /\ \A i \in Allocated : e[i] = f[i] /\ e[i] \in Int
        /\ f[id] = g.limit
    <3>1. \A i \in Allocated : e[i] = budget[i].limit /\ e[i] \in Int
      BY <2>1, LimitsAreNumbers
    <3>2. \A i \in Allocated' : f[i] = budget'[i].limit
      BY <2>2 DEF LimitOf
    <3> QED
      BY <1>2, <1>4, <3>1, <3>2
  <2>4. ASSUME NEW a \in Addr PROVE endowed'[a] = SumFunctionOnSet(f, OwnedBy(a)')
    <3>1. OwnedBy(a) \subseteq Allocated /\ IsFiniteSet(OwnedBy(a))
      BY LimitsAreNumbers
    <3>2. endowed[a] = SumFunctionOnSet(e, OwnedBy(a)) /\ endowed[a] \in Int
      BY <2>1 DEF EndowmentsOK, AllocationConserved
    <3>3. SumFunctionOnSet(e, OwnedBy(a)) = SumFunctionOnSet(f, OwnedBy(a))
      BY <2>3, <3>1, SumSame
    <3>4. CASE a = owner
      <4>1. OwnedBy(a)' = OwnedBy(a) \cup {id} /\ id \notin OwnedBy(a)
        BY <1>2, <1>4, <3>4 DEF OwnedBy
      <4>2. SumFunctionOnSet(f, OwnedBy(a) \cup {id}) = SumFunctionOnSet(f, OwnedBy(a)) + f[id]
        BY <1>3, <2>3, <3>1, <4>1, SumWith
      <4> QED
        BY <1>8, <2>3, <3>2, <3>3, <3>4, <4>1, <4>2
    <3>5. CASE a # owner
      <4>1. OwnedBy(a)' = OwnedBy(a)
        BY <1>2, <1>4, <3>5 DEF OwnedBy
      <4> QED
        BY <1>8, <3>2, <3>3, <3>5, <4>1
    <3> QED
      BY <3>4, <3>5
  <2> QED
    BY <2>2, <2>4 DEF AllocationConserved
<1> QED
  BY <1>7, <1>8, <1>9 DEF EndowmentsOK

\* A reallocation takes from one envelope what it gives to the other.
LEMMA TransferStep ==
  ASSUME ControlOK, EnvelopesOK, EndowmentsOK, NEW caller, NEW from, NEW to,
         NEW amount \in Amounts, TransferAllocation(caller, from, to, amount)
  PROVE  EnvelopesOK' /\ EndowmentsOK'
<1>1. amount \in Nat /\ now \in Nat
  BY BudgetInputsAssumption DEF ControlOK
<1>2. /\ from # to /\ from \in Allocated /\ to \in Allocated
      /\ budget[from].owner = caller /\ budget[to].owner = caller
      /\ amount <= budget[from].limit - budget[from].spent
      /\ now' = now /\ used' = used /\ endowed' = endowed
  BY DEF TransferAllocation, RequireOwner
<1>3. /\ Sound(budget[from], used[from], granted[from]) /\ from \in BudgetId
      /\ Sound(budget[to], used[to], granted[to]) /\ to \in BudgetId
  BY <1>2 DEF EnvelopesOK
<1>4. /\ budget[from] \in BudgetRecord /\ budget[from].limit \in Nat /\ budget[from].spent \in Nat
      /\ granted[from] \in Nat /\ budget[from].limit <= granted[from]
  BY <1>1, <1>3, SoundFields
<1>5. /\ budget[to] \in BudgetRecord /\ budget[to].limit \in Nat /\ budget[to].spent \in Nat
      /\ granted[to] \in Nat
  BY <1>1, <1>3, SoundFields
<1>6. PICK x \in Nat, y \in Nat, p \in Nat, q \in Nat :
        /\ x = budget[from].limit - amount /\ y = budget[to].limit + amount
        /\ p = granted[from] - amount /\ q = granted[to] + amount
  <2>1. budget[from].limit - amount \in Nat /\ granted[from] - amount \in Nat
    BY <1>1, <1>2, <1>4
  <2>2. budget[to].limit + amount \in Nat /\ granted[to] + amount \in Nat
    BY <1>1, <1>5
  <2> QED
    BY <2>1, <2>2
<1>7. /\ budget' = [budget EXCEPT ![from].limit = x, ![to].limit = y]
      /\ granted' = [granted EXCEPT ![from] = p, ![to] = q]
  <2>1. /\ budget' = [budget EXCEPT ![from].limit = budget[from].limit - amount,
                                    ![to].limit = budget[to].limit + amount]
        /\ granted' = [granted EXCEPT ![from] = granted[from] - amount,
                                      ![to] = granted[to] + amount]
    BY <1>2 DEF TransferAllocation
  <2> QED
    BY <1>6, <2>1
<1>8. /\ Allocated' = Allocated
      /\ budget'[from] = [budget[from] EXCEPT !.limit = x]
      /\ budget'[to] = [budget[to] EXCEPT !.limit = y]
      /\ \A i \in Allocated \ {from, to} : budget'[i] = budget[i]
  BY <1>2, <1>7 DEF Allocated
<1>9. /\ granted' \in [BudgetId -> Nat] /\ granted'[from] = p /\ granted'[to] = q
      /\ \A i \in BudgetId \ {from, to} : granted'[i] = granted[i]
  BY <1>2, <1>3, <1>7 DEF EnvelopesOK
<1>10. Keeps(budget[from], used[from], granted[from], budget'[from], used[from], p, now)
  <2>1. x >= budget[from].spent /\ x <= budget[from].limit
        /\ p = granted[from] + x - budget[from].limit
    BY <1>1, <1>2, <1>4, <1>6
  <2> QED
    BY <1>1, <1>3, <1>8, <2>1, KeepsNewLimit
<1>11. /\ to \notin backdated' =>
            Keeps(budget[to], used[to], granted[to], budget'[to], used[to], q, now)
       /\ Sound(budget'[to], used[to], q)
       /\ budget'[to].owner = budget[to].owner
  <2>1. y >= budget[to].limit /\ q = granted[to] + y - budget[to].limit
    BY <1>1, <1>5, <1>6
  <2>2. ASSUME to \notin backdated'
        PROVE  Keeps(budget[to], used[to], granted[to], budget'[to], used[to], q, now)
    <3>1. ~ IsWindowExpired(budget[to], now)
      BY <2>2 DEF TransferAllocation
    <3>2. Lapsed(budget[to], now) = 0
      BY <1>1, <1>5, <3>1, LapsedWindows
    <3> QED
      BY <1>1, <1>3, <1>8, <2>1, <3>2, KeepsNewLimit
  <2>3. Sound(budget'[to], used[to], q) /\ budget'[to].owner = budget[to].owner
    <3> DEFINE c == [budget[to] EXCEPT !.limit = y]
    <3>1. /\ c \in BudgetRecord /\ c.limit = y
          /\ c.spent = budget[to].spent
          /\ c.owner = budget[to].owner /\ c.allow_deficit = budget[to].allow_deficit
          /\ c.deficit_amount = budget[to].deficit_amount
          /\ c.rollover_bps = budget[to].rollover_bps
      BY <1>5 DEF BudgetRecord
    <3>2. c = budget'[to]
      BY <1>8
    <3> HIDE DEF c
    <3>3. budget[to].limit <= granted[to]
      BY <1>3 DEF Sound
    <3>4. c.limit <= q
      BY <1>1, <1>5, <1>6, <3>1, <3>3
    <3>5. Sound(c, used[to], q)
      BY <1>3, <3>1, <3>4 DEF Sound
    <3> QED
      BY <3>1, <3>2, <3>5
  <2> QED
    BY <2>2, <2>3
<1>12. backdated \subseteq backdated' /\ backdated' \subseteq Allocated
  BY <1>2 DEF TransferAllocation, EnvelopesOK
<1>13. EnvelopesOK'
  <2>1. ASSUME NEW i \in Allocated'
        PROVE  /\ Sound(budget'[i], used'[i], granted'[i])
               /\ i \notin backdated' => Covers(budget'[i], used'[i], granted'[i], now')
    <3>1. i \in Allocated /\ i \in BudgetId
      BY <1>8 DEF EnvelopesOK
    <3>2. i \notin backdated' => Covers(budget[i], used[i], granted[i], now)
      BY <1>12, <3>1 DEF EnvelopesOK
    <3>3. CASE i = from
      BY <1>2, <1>9, <1>10, <3>2, <3>3 DEF Keeps
    <3>4. CASE i = to
      BY <1>2, <1>9, <1>11, <3>2, <3>4 DEF Keeps
    <3>5. CASE i \notin {from, to}
      <4>1. budget'[i] = budget[i] /\ granted'[i] = granted[i] /\ used'[i] = used[i]
        BY <1>2, <1>8, <1>9, <3>1, <3>5
      <4>2. Sound(budget[i], used[i], granted[i])
        BY <3>1 DEF EnvelopesOK
      <4> QED
        BY <1>2, <3>2, <4>1, <4>2
    <3> QED
      BY <3>3, <3>4, <3>5
  <2>2. /\ Allocated' \subseteq BudgetId /\ IsFiniteSet(Allocated')
        /\ backdated' \subseteq Allocated' /\ used' \in [BudgetId -> Nat]
    BY <1>2, <1>8, <1>12 DEF EnvelopesOK
  <2> QED
    BY <1>9, <2>1, <2>2 DEF EnvelopesOK
<1>14. AllocationConserved'
  <2>1. PICK e : e = LimitOf
    OBVIOUS
  <2>2. PICK f : f = LimitOf'
    OBVIOUS
  <2>3. PICK m : m = [e EXCEPT ![from] = x]
    OBVIOUS
  <2>4. /\ DOMAIN e = Allocated
        /\ \A i \in Allocated : e[i] = budget[i].limit /\ e[i] \in Int
    BY <2>1, LimitsAreNumbers DEF LimitOf
  <2>5. /\ f[from] = x /\ f[to] = y
        /\ \A i \in Allocated \ {from, to} : f[i] = e[i]
    <3>1. \A i \in Allocated : f[i] = budget'[i].limit
      BY <1>8, <2>2 DEF LimitOf
    <3>2. budget'[from].limit = x /\ budget'[to].limit = y
      BY <1>4, <1>5, <1>8 DEF BudgetRecord
    <3>3. f[from] = x /\ f[to] = y
      BY <1>2, <3>1, <3>2
    <3>4. ASSUME NEW i \in Allocated \ {from, to} PROVE f[i] = e[i]
      <4>1. budget'[i] = budget[i]
        BY <1>8
      <4>2. f[i] = budget'[i].limit /\ e[i] = budget[i].limit
        BY <2>4, <3>1
      <4> QED
        BY <4>1, <4>2
    <3> QED
      BY <3>3, <3>4
  <2>6. /\ m[from] = x /\ m[to] = e[to]
        /\ \A i \in Allocated \ {from} : m[i] = e[i]
    BY <1>2, <2>3, <2>4
  <2>7. \A i \in Allocated : m[i] \in Int /\ f[i] \in Int
    BY <2>4, <2>5, <2>6
  <2>8. ASSUME NEW a \in Addr PROVE endowed'[a] = SumFunctionOnSet(f, OwnedBy(a)')
    <3>1. OwnedBy(a) \subseteq Allocated /\ IsFiniteSet(OwnedBy(a))
      BY LimitsAreNumbers
    <3>2. OwnedBy(a)' = OwnedBy(a)
      <4>1. budget'[from].owner = budget[from].owner
        BY <1>10 DEF Keeps
      <4>2. \A i \in Allocated : budget'[i].owner = budget[i].owner
        BY <1>8, <1>11, <4>1
      <4> QED
        BY <1>8, <4>2 DEF OwnedBy
    <3>3. endowed'[a] = SumFunctionOnSet(e, OwnedBy(a)) /\ endowed[a] \in Int
      BY <1>2, <2>1 DEF EndowmentsOK, AllocationConserved
    <3>4. CASE a = caller
      <4>1. from \in OwnedBy(a) /\ to \in OwnedBy(a)
        BY <1>2, <3>4 DEF OwnedBy
      <4>2. /\ \A i \in OwnedBy(a) : e[i] \in Int /\ m[i] \in Int
            /\ \A i \in OwnedBy(a) \ {from} : m[i] = e[i]
        BY <2>4, <2>6, <2>7, <3>1
      <4>3. SumFunctionOnSet(m, OwnedBy(a)) = SumFunctionOnSet(e, OwnedBy(a)) + m[from] - e[from]
        BY <3>1, <4>1, <4>2, SumChanged
      <4>4. /\ \A i \in OwnedBy(a) : m[i] \in Int /\ f[i] \in Int
            /\ \A i \in OwnedBy(a) \ {to} : f[i] = m[i]
        BY <1>2, <2>5, <2>6, <2>7, <3>1
      <4>5. SumFunctionOnSet(f, OwnedBy(a)) = SumFunctionOnSet(m, OwnedBy(a)) + f[to] - m[to]
        BY <3>1, <4>1, <4>4, SumChanged
      <4>6. PICK S \in Int, T \in Int, U \in Int :
              /\ S = SumFunctionOnSet(e, OwnedBy(a)) /\ T = SumFunctionOnSet(m, OwnedBy(a))
              /\ U = SumFunctionOnSet(f, OwnedBy(a))
        BY <3>1, <4>2, <4>4, SumInt
      <4>7. /\ m[from] = x /\ e[from] = x + amount /\ f[to] = e[to] + amount /\ m[to] = e[to]
            /\ e[to] \in Int
        BY <1>1, <1>2, <1>4, <1>5, <1>6, <2>4, <2>5, <2>6
      <4>8. U = S
        BY <1>1, <4>3, <4>5, <4>6, <4>7
      <4> QED
        BY <3>2, <3>3, <4>6, <4>8
    <3>5. CASE a # caller
      <4>1. from \notin OwnedBy(a) /\ to \notin OwnedBy(a)
        BY <1>2, <3>5 DEF OwnedBy
      <4>2. \A i \in OwnedBy(a) : e[i] = f[i]
        BY <2>5, <3>1, <4>1
      <4>3. SumFunctionOnSet(e, OwnedBy(a)) = SumFunctionOnSet(f, OwnedBy(a))
        BY <3>1, <4>2, SumSame
      <4> QED
        BY <3>2, <3>3, <4>3
    <3> QED
      BY <3>4, <3>5
  <2> QED
    BY <2>2, <2>8 DEF AllocationConserved
<1> QED
  BY <1>2, <1>13, <1>14 DEF EndowmentsOK

\* A boundary that passes is granted when it passes.
LEMMA BoundariesPass ==
  ASSUME NEW start \in Nat, NEW length \in Nat, now \in Nat
  PROVE  /\ BoundariesBy(start, length, now) \in Nat
         /\ BoundariesBy(start, length, now + 1) \in Nat
         /\ Passed(start, length) \in Nat
         /\ BoundariesBy(start, length, now + 1)
              = BoundariesBy(start, length, now) + Passed(start, length)
<1>1. CASE length # 0 /\ now >= start
  <2>1. now - start \in Nat /\ (now + 1) - start \in Nat /\ now - start <= (now + 1) - start
    BY <1>1
  <2>2. /\ (now - start) \div length \in Nat /\ ((now + 1) - start) \div length \in Nat
        /\ (now - start) \div length <= ((now + 1) - start) \div length
    BY <1>1, <2>1, Quotient, QuotientMonotonic
  <2>3. /\ BoundariesBy(start, length, now) = (now - start) \div length
        /\ BoundariesBy(start, length, now + 1) = ((now + 1) - start) \div length
    BY <1>1 DEF BoundariesBy
  <2>4. PICK x \in Nat, y \in Nat :
          x = (now - start) \div length /\ y = ((now + 1) - start) \div length /\ x <= y
    BY <2>2
  <2>5. Passed(start, length) = y - x
    BY <2>3, <2>4 DEF Passed
  <2> QED
    BY <2>3, <2>4, <2>5
<1>2. CASE ~ (length # 0 /\ now >= start)
  <2>1. BoundariesBy(start, length, now) = 0
    BY <1>2 DEF BoundariesBy
  <2>2. BoundariesBy(start, length, now + 1) \in Nat
    <3>1. CASE length # 0 /\ now + 1 >= start
      <4>1. (now + 1) - start \in Nat
        BY <3>1
      <4> QED
        BY <3>1, <4>1, Quotient DEF BoundariesBy
    <3>2. CASE ~ (length # 0 /\ now + 1 >= start)
      BY <3>2 DEF BoundariesBy
    <3> QED
      BY <3>1, <3>2
  <2>3. PICK y \in Nat : y = BoundariesBy(start, length, now + 1)
    BY <2>2
  <2>4. Passed(start, length) = y - 0
    BY <2>1, <2>3 DEF Passed
  <2> QED
    BY <2>1, <2>3, <2>4
<1> QED
  BY <1>1, <1>2

\* A boundary that passes grants one limit.
LEMMA TickEnvelopes ==
  ASSUME ControlOK, EnvelopesOK, Tick
  PROVE  EnvelopesOK'
<1>1. now \in Nat /\ now' = now + 1 /\ budget' = budget /\ used' = used /\ backdated' = backdated
      /\ Allocated' = Allocated
  BY DEF ControlOK, Tick, Allocated
<1> DEFINE P(id) == Passed(budget[id].window_start, WindowLength(budget[id]))
<1>2. /\ \A id \in Allocated : granted'[id] = granted[id] + budget[id].limit * P(id)
      /\ \A id \in BudgetId \ Allocated : granted'[id] = granted[id]
      /\ granted' = [id \in BudgetId |-> granted'[id]]
  BY DEF Tick, EnvelopesOK
<1>3. ASSUME NEW id \in Allocated
      PROVE  /\ granted'[id] \in Nat
             /\ Sound(budget[id], used[id], granted'[id])
             /\ Covers(budget[id], used[id], granted[id], now)
                  => Covers(budget[id], used[id], granted'[id], now + 1)
  <2>1. Sound(budget[id], used[id], granted[id])
    BY DEF EnvelopesOK
  <2>2. /\ budget[id] \in BudgetRecord /\ used[id] \in Nat /\ granted[id] \in Nat
        /\ budget[id].limit \in Nat /\ budget[id].window_start \in Nat
        /\ budget[id].limit <= granted[id] /\ Open(budget[id]) \in Int
    BY <1>1, <2>1, SoundFields
  <2>3. WindowLength(budget[id]) \in Nat
    BY <1>1, <2>2, LapsedWindows
  <2>4. /\ P(id) \in Nat /\ Lapsed(budget[id], now) \in Nat
        /\ Lapsed(budget[id], now + 1) = Lapsed(budget[id], now) + P(id)
    BY <1>1, <2>2, <2>3, BoundariesPass DEF Lapsed
  <2>5. PICK l \in Nat, p \in Nat, n \in Nat, o \in Int, g \in Nat, u \in Nat :
          /\ l = budget[id].limit /\ p = P(id) /\ n = Lapsed(budget[id], now)
          /\ o = Open(budget[id]) /\ g = granted[id] /\ u = used[id]
    BY <2>2, <2>4
  <2>6. l * p \in Nat /\ l * n \in Nat /\ l * (n + p) = l * n + l * p
    <3>1. \A x \in Nat, y \in Nat, z \in Nat : x * (y + z) = x * y + x * z
      BY SMT
    <3> QED
      BY <3>1, ProductMonotonic
  <2>7. granted'[id] = g + l * p
    BY <1>2, <2>5
  <2>8. PICK a \in Nat, b \in Nat : a = l * p /\ b = l * n /\ l * (n + p) = b + a
    BY <2>6
  <2>9. granted'[id] = g + a
    BY <2>7, <2>8
  <2>10. granted'[id] \in Nat /\ budget[id].limit <= granted'[id]
    BY <2>2, <2>5, <2>9
  <2>11. Sound(budget[id], used[id], granted'[id])
    BY <2>1, <2>10 DEF Sound
  <2>12. Covers(budget[id], used[id], granted[id], now) <=> u + o + b <= g
    BY <2>5, <2>8 DEF Covers
  <2>13. Covers(budget[id], used[id], granted'[id], now + 1) <=> u + o + (b + a) <= g + a
    <3>1. budget[id].limit * Lapsed(budget[id], now + 1) = b + a
      BY <2>4, <2>5, <2>8
    <3> QED
      BY <2>5, <2>9, <3>1 DEF Covers
  <2>14. u + o + b <= g => u + o + (b + a) <= g + a
    OBVIOUS
  <2> QED
    BY <2>10, <2>11, <2>12, <2>13, <2>14
<1> HIDE DEF P
<1>4. granted' \in [BudgetId -> Nat]
  <2>1. ASSUME NEW id \in BudgetId PROVE granted'[id] \in Nat
    <3>1. granted[id] \in Nat
      BY DEF EnvelopesOK
    <3> QED
      BY <1>2, <1>3, <3>1
  <2> QED
    BY <1>2, <2>1
<1> QED
  BY <1>1, <1>3, <1>4 DEF EnvelopesOK

\* Calls that touch no envelope.
LEMMA EnvelopesFrame ==
  ASSUME EnvelopesOK, EndowmentsOK, UNCHANGED <<now, envelopes>>
  PROVE  EnvelopesOK' /\ EndowmentsOK'
<1>1. /\ now' = now /\ budget' = budget /\ used' = used /\ granted' = granted
      /\ backdated' = backdated /\ endowed' = endowed
  BY DEF envelopes
<1>2. Allocated' = Allocated /\ LimitOf' = LimitOf /\ \A a : OwnedBy(a)' = OwnedBy(a)
  BY <1>1 DEF Allocated, LimitOf, OwnedBy
<1>3. EnvelopesOK'
  BY <1>1, <1>2 DEF EnvelopesOK
<1> QED
  BY <1>1, <1>2, <1>3 DEF EndowmentsOK, AllocationConserved

\* Time endows nobody.
LEMMA TickEndowments ==
  ASSUME EndowmentsOK, Tick
  PROVE  EndowmentsOK'
<1>1. budget' = budget /\ endowed' = endowed
  BY DEF Tick
<1>2. LimitOf' = LimitOf /\ \A a : OwnedBy(a)' = OwnedBy(a)
  BY <1>1 DEF Allocated, LimitOf, OwnedBy
<1> QED
  BY <1>1, <1>2 DEF EndowmentsOK, AllocationConserved

\* Every step keeps the envelopes sound and the endowments exact.
LEMMA EnvelopesStep ==
  ASSUME ControlOK, EnvelopesOK, EndowmentsOK, [Next]_vars
  PROVE  EnvelopesOK' /\ EndowmentsOK'
<1>1. CASE Tick
  BY <1>1, TickEnvelopes, TickEndowments
<1>2. ASSUME NEW a \in Addr, Initialize(a) PROVE EnvelopesOK' /\ EndowmentsOK'
  BY <1>2, EnvelopesFrame DEF Initialize
<1>3. ASSUME NEW id \in BudgetId, Remaining(id) PROVE EnvelopesOK' /\ EndowmentsOK'
  <2>1. Rewrites(id)
    BY <1>3, SettleRewrites DEF Remaining
  <2> QED
    BY <2>1, RewritesEnvelopes, RewritesEndowments
<1>4. ASSUME NEW id \in BudgetId, NEW t \in Token, GetAssetBudget(id, t)
      PROVE  EnvelopesOK' /\ EndowmentsOK'
  BY <1>4, EnvelopesFrame DEF GetAssetBudget
<1>5. ASSUME NEW id \in BudgetId, NEW caller \in Addr, Administration(caller, id)
      PROVE  EnvelopesOK' /\ EndowmentsOK'
  <2>1. ASSUME NEW g \in Grants, \/ AllocateWithDeficit(caller, id, g)
                                 \/ AllocateWithRollover(caller, id, g)
                                 \/ \E start_at \in Starts : AllocateScheduled(caller, id, g, start_at)
        PROVE  EnvelopesOK' /\ EndowmentsOK'
    <3>1. PICK bps \in Nat, cap \in Nat, start \in Nat :
            AllocateInternal(caller, id, g, bps, cap, start)
      BY <2>1, AllocateCalls
    <3> QED
      BY <3>1, AllocateStep
  <2>2. ASSUME NEW to \in BudgetId, NEW amount \in Amounts,
               TransferAllocation(caller, id, to, amount)
        PROVE  EnvelopesOK' /\ EndowmentsOK'
    BY <2>2, TransferStep
  <2>3. ASSUME Rewrites(id) PROVE EnvelopesOK' /\ EndowmentsOK'
    BY <2>3, RewritesEnvelopes, RewritesEndowments
  <2>4. ASSUME NEW r \in Recurrences, SetRecurrence(caller, id, r) PROVE Rewrites(id)
    BY <2>4, SetRecurrenceRewrites
  <2>5. ASSUME NEW r \in Rollovers, SetRolloverConfig(caller, id, r) PROVE Rewrites(id)
    BY <2>5, SetRolloverConfigRewrites
  <2>6. ASSUME Reset(caller, id) PROVE Rewrites(id)
    BY <2>6, ResetRewrites
  <2>7. ASSUME Rollover(caller, id) PROVE Rewrites(id)
    BY <2>7, SettleRewrites DEF Rollover, RequireOwner
  <2>8. ASSUME NEW limit \in Limits, SetLimit(caller, id, limit) PROVE Rewrites(id)
    BY <2>8, SetLimitRewrites
  <2>9. ASSUME Freeze(caller, id) \/ Unfreeze(caller, id) \/ Archive(caller, id)
        PROVE  Rewrites(id)
    BY <2>9, LifecycleRewrites
  <2> QED
    BY <1>5, <2>1, <2>2, <2>3, <2>4, <2>5, <2>6, <2>7, <2>8, <2>9 DEF Administration
<1>6. ASSUME NEW id \in BudgetId, NEW caller \in Addr, Spending(caller, id)
      PROVE  EnvelopesOK' /\ EndowmentsOK'
  <2>1. ASSUME NEW amount \in Amounts,
               Consume(caller, id, amount) \/ Release(caller, id, amount)
        PROVE  EnvelopesOK' /\ EndowmentsOK'
    <3>1. Rewrites(id)
      BY <2>1, SpendRewrites
    <3> QED
      BY <3>1, RewritesEnvelopes, RewritesEndowments
  <2>2. ASSUME NEW t \in Token, NEW amount \in Amounts, CheckAndRecordSpend(caller, id, t, amount)
        PROVE  EnvelopesOK' /\ EndowmentsOK'
    BY <2>2, EnvelopesFrame DEF CheckAndRecordSpend
  <2>3. ASSUME NEW spends \in Spends, CheckAndRecordBatchSpend(caller, id, spends)
        PROVE  EnvelopesOK' /\ EndowmentsOK'
    BY <2>3, EnvelopesFrame DEF CheckAndRecordBatchSpend
  <2> QED
    BY <1>6, <2>1, <2>2, <2>3 DEF Spending
<1>7. ASSUME NEW id \in BudgetId, NEW caller \in Addr, NEW t \in Token,
             AssetAdministration(caller, id, t)
      PROVE  EnvelopesOK' /\ EndowmentsOK'
  BY <1>7, EnvelopesFrame DEF AssetAdministration, SetBudgetLimit, SetAssetRolloverConfig
<1>8. CASE UNCHANGED vars
  BY <1>8, EnvelopesFrame DEF vars
<1> QED
  BY <1>1, <1>2, <1>3, <1>4, <1>5, <1>6, <1>7, <1>8 DEF Next

-----------------------------------------------------------------------------
(* Settling a per-asset allowance                                           *)

AssetSound(a) ==
  /\ a \in AssetBudget
  /\ ~ a.rollover_enabled => a.rollover_credit = 0
  /\ a.rollover_bps <= BPS

AssetOpen(a) == Larger(AssetAvailable(a), 0)

AssetLapsed(a, t) == BoundariesBy(a.window_start, a.window_seconds, t)

AssetCovers(a, u, g, t) == u + AssetOpen(a) + a.limit * AssetLapsed(a, t) <= g

\* The fields of a sound per-asset budget.
LEMMA AssetFields ==
  ASSUME NEW a, AssetSound(a), NEW t \in Nat
  PROVE  /\ a \in AssetBudget
         /\ a.limit \in Nat /\ a.spent \in Nat /\ a.window_seconds \in Nat
         /\ a.window_start \in Nat /\ a.rollover_credit \in Nat /\ a.rollover_bps \in Nat
         /\ a.max_rollover_cap \in Nat /\ a.rollover_enabled \in BOOLEAN
         /\ AssetOpen(a) \in Nat
         /\ AssetCapacity(a) = a.limit + a.rollover_credit
         /\ AssetOpen(a) = Larger(a.limit + a.rollover_credit - a.spent, 0)
         /\ AssetLapsed(a, t) \in Nat
         /\ a.limit * AssetLapsed(a, t) \in Nat
         /\ t <= a.window_start => AssetLapsed(a, t) = 0
<1>1. a \in AssetBudget
  BY DEF AssetSound
<1>2. /\ a.limit \in Nat /\ a.spent \in Nat /\ a.window_seconds \in Nat
      /\ a.window_start \in Nat /\ a.rollover_credit \in Nat /\ a.rollover_bps \in Nat
      /\ a.max_rollover_cap \in Nat /\ a.rollover_enabled \in BOOLEAN
  BY <1>1 DEF AssetBudget
<1>3. AssetCapacity(a) = a.limit + a.rollover_credit
  <2>1. CASE a.rollover_enabled
    BY <2>1 DEF AssetCapacity
  <2>2. CASE ~ a.rollover_enabled
    BY <1>2, <2>2 DEF AssetCapacity, AssetSound
  <2> QED
    BY <2>1, <2>2
<1>4. /\ AssetOpen(a) = Larger(a.limit + a.rollover_credit - a.spent, 0)
      /\ AssetOpen(a) \in Nat
  BY <1>2, <1>3 DEF AssetOpen, AssetAvailable, Larger
<1>5. AssetLapsed(a, t) \in Nat /\ (t <= a.window_start => AssetLapsed(a, t) = 0)
  <2>1. CASE a.window_seconds # 0 /\ t >= a.window_start
    <3>1. t - a.window_start \in Nat /\ AssetLapsed(a, t) = (t - a.window_start) \div a.window_seconds
      BY <1>2, <2>1 DEF AssetLapsed, BoundariesBy
    <3>2. (t - a.window_start) \div a.window_seconds \in Nat
      BY <1>2, <2>1, <3>1, Quotient
    <3>3. ASSUME t <= a.window_start PROVE (t - a.window_start) \div a.window_seconds = 0
      <4>1. PICK d \in Nat : d = t - a.window_start /\ d = 0
        BY <1>2, <2>1, <3>3
      <4>2. d \div a.window_seconds = 0
        BY <1>2, <2>1, <4>1, QuotientIs
      <4> QED
        BY <4>1, <4>2
    <3> QED
      BY <3>1, <3>2, <3>3
  <2>2. CASE ~ (a.window_seconds # 0 /\ t >= a.window_start)
    BY <2>2 DEF AssetLapsed, BoundariesBy
  <2> QED
    BY <2>1, <2>2
<1>6. a.limit * AssetLapsed(a, t) \in Nat
  BY <1>2, <1>5, ProductMonotonic
<1> QED
  BY <1>1, <1>2, <1>3, <1>4, <1>5, <1>6

\* What a settlement and a spend write into an allowance.
AssetUpdated(e, a, c, s, w) ==
  /\ e \in AssetBudget
  /\ e.rollover_credit = c /\ e.spent = s /\ e.window_start = w
  /\ e.limit = a.limit /\ e.window_seconds = a.window_seconds
  /\ e.rollover_enabled = a.rollover_enabled
  /\ e.rollover_bps = a.rollover_bps

\* The fields a per-asset settlement rewrites, one by one.
LEMMA AssetUpdate ==
  ASSUME NEW a \in AssetBudget, NEW c \in Nat, NEW s \in Nat, NEW w \in Nat
  PROVE  AssetUpdated([a EXCEPT !.rollover_credit = c, !.spent = s, !.window_start = w], a, c, s, w)
  BY DEF AssetBudget, AssetUpdated

\* A settlement adds no more than a limit for every lapsed window.
AssetSettled(a, e, t) ==
  /\ AssetSound(e)
  /\ e.limit = a.limit
  /\ e.window_seconds = a.window_seconds
  /\ AssetLapsed(e, t) = 0
  /\ AssetOpen(e) <= AssetOpen(a) + a.limit * AssetLapsed(a, t)

\* Settling a per-asset budget pays for its lapsed windows and for nothing
\* else.
LEMMA AssetSettlement ==
  ASSUME NEW a, AssetSound(a), NEW t \in Nat
  PROVE  AssetSettled(a, AssetTransition(a, t), t)
<1> DEFINE e == AssetTransition(a, t)
           n == AssetLapsed(a, t)
           W == a.window_seconds
           s == a.window_start
<1>1. /\ a \in AssetBudget
      /\ a.limit \in Nat /\ a.spent \in Nat /\ W \in Nat
      /\ s \in Nat /\ a.rollover_credit \in Nat /\ a.rollover_bps \in Nat
      /\ a.max_rollover_cap \in Nat /\ a.rollover_enabled \in BOOLEAN
      /\ AssetOpen(a) \in Nat
      /\ AssetOpen(a) = Larger(a.limit + a.rollover_credit - a.spent, 0)
      /\ n \in Nat /\ a.limit * n \in Nat
  BY AssetFields
<1>2. CASE W = 0 \/ AssetElapsed(a, t) < W
  <2>1. e = a
    BY <1>2 DEF AssetTransition
  <2>2. n = 0
    <3>1. CASE W = 0 \/ ~ (t >= s)
      BY <3>1 DEF AssetLapsed, BoundariesBy
    <3>2. CASE W # 0 /\ t >= s
      <4>1. PICK d \in Nat : d = t - s /\ d < W
        BY <1>1, <1>2, <3>2 DEF AssetElapsed, Larger
      <4>2. d \div W = 0
        BY <1>1, <3>2, <4>1, QuotientIs
      <4> QED
        BY <3>2, <4>1, <4>2 DEF AssetLapsed, BoundariesBy
    <3> QED
      BY <3>1, <3>2
  <2> QED
    BY <1>1, <2>1, <2>2 DEF AssetSettled
<1>3. CASE ~ (W = 0 \/ AssetElapsed(a, t) < W)
  <2>1. PICK d \in Nat : d = t - s /\ d = AssetElapsed(a, t) /\ d >= W /\ W # 0 /\ t >= s
    BY <1>1, <1>3 DEF AssetElapsed, Larger
  <2>2. n = d \div W
    BY <2>1 DEF AssetLapsed, BoundariesBy
  <2>3. n >= 1 /\ n * W <= d /\ d < (n + 1) * W
    <3>1. (d \div W) * W <= d /\ d < (d \div W + 1) * W
      BY <1>1, <2>1, Quotient
    <3>2. W \div W = 1
      <4>1. 1 * W <= W /\ W < (1 + 1) * W
        BY <1>1, <2>1
      <4> QED
        BY <1>1, <2>1, <4>1, QuotientIs
    <3>3. W \div W <= d \div W
      BY <1>1, <2>1, QuotientMonotonic
    <3> QED
      BY <2>2, <3>1, <3>2, <3>3
  <2> DEFINE x == IF a.rollover_enabled
                    THEN CalculateBudgetRollover(AssetClosing(a), a.rollover_bps, a.max_rollover_cap)
                    ELSE 0
             w == s + n * W
  <2>4. e = [a EXCEPT !.rollover_credit = x, !.spent = 0, !.window_start = w]
    BY <1>3, <2>1, <2>2 DEF AssetTransition
  <2>5. x \in Nat /\ x <= AssetOpen(a) /\ (~ a.rollover_enabled => x = 0)
    <3>1. AssetClosing(a) \in Nat /\ AssetClosing(a) <= AssetOpen(a)
      BY <1>1 DEF AssetClosing, Larger
    <3>2. PICK z \in Nat : z = AssetClosing(a) /\ z <= AssetOpen(a)
      BY <3>1
    <3>3. ShareOf(z, a.rollover_bps) \in Nat /\ ShareOf(z, a.rollover_bps) <= z
      BY <1>1, ShareBound DEF AssetSound
    <3>4. PICK y \in Nat : y = ShareOf(z, a.rollover_bps) /\ y <= z
      BY <3>3
    <3>5. ApplyCap(y, a.max_rollover_cap) \in Nat /\ ApplyCap(y, a.max_rollover_cap) <= y
      BY <1>1, CapBound
    <3>6. CalculateBudgetRollover(z, a.rollover_bps, a.max_rollover_cap)
            = ApplyCap(y, a.max_rollover_cap)
      BY <3>4 DEF CalculateBudgetRollover
    <3>7. PICK c \in Nat :
            /\ c = CalculateBudgetRollover(AssetClosing(a), a.rollover_bps, a.max_rollover_cap)
            /\ c <= y
      BY <3>2, <3>5, <3>6
    <3>8. c <= AssetOpen(a)
      BY <1>1, <3>2, <3>4, <3>7
    <3>9. CASE a.rollover_enabled
      BY <3>7, <3>8, <3>9
    <3>10. CASE ~ a.rollover_enabled
      BY <1>1, <3>10
    <3> QED
      BY <3>9, <3>10
  <2>6. w \in Nat
    <3>1. n * W \in Nat
      BY <1>1, ProductMonotonic
    <3> QED
      BY <1>1, <3>1
  <2> HIDE DEF x, w
  <2>7. /\ e \in AssetBudget /\ e.rollover_credit = x /\ e.spent = 0 /\ e.window_start = w
        /\ e.limit = a.limit /\ e.window_seconds = W /\ e.rollover_enabled = a.rollover_enabled
        /\ e.rollover_bps = a.rollover_bps
    <3>1. PICK z \in Nat : z = 0
      OBVIOUS
    <3>2. AssetUpdated([a EXCEPT !.rollover_credit = x, !.spent = z, !.window_start = w], a, x, z, w)
      BY <1>1, <2>5, <2>6, AssetUpdate
    <3> QED
      BY <2>4, <3>1, <3>2 DEF AssetUpdated
  <2> HIDE DEF e, n
  <2>8. AssetSound(e)
    BY <2>5, <2>7 DEF AssetSound
  <2>9. AssetLapsed(e, t) = 0
    <3>1. PICK m \in Nat : m = n * W /\ m <= d /\ d < m + W
      <4>1. (n + 1) * W = n * W + W /\ n * W \in Nat
        BY <1>1, ProductMonotonic, SMT
      <4> QED
        BY <2>3, <4>1
    <3>2. w = s + m
      BY <3>1 DEF w
    <3>3. PICK f \in Nat : f = t - w /\ f < W
      BY <1>1, <2>1, <3>1, <3>2
    <3>4. f \div W = 0
      BY <1>1, <2>1, <3>3, QuotientIs
    <3>5. AssetLapsed(e, t) = f \div W
      BY <1>1, <2>1, <2>6, <2>7, <3>3 DEF AssetLapsed, BoundariesBy
    <3> QED
      BY <3>4, <3>5
  <2>10. AssetOpen(e) = a.limit + x
    <3>1. AssetOpen(e) = Larger(e.limit + e.rollover_credit - e.spent, 0)
      BY <2>8, AssetFields
    <3> QED
      BY <1>1, <2>5, <2>7, <3>1 DEF Larger
  <2>11. a.limit <= a.limit * n
    <3>1. a.limit * 1 <= a.limit * n
      BY <1>1, <2>3, ProductMonotonic
    <3> QED
      BY <1>1, <3>1
  <2>12. AssetOpen(e) <= AssetOpen(a) + a.limit * n
    BY <1>1, <2>5, <2>10, <2>11
  <2> QED
    BY <2>7, <2>8, <2>9, <2>12 DEF AssetSettled, e, n
<1> QED
  BY <1>2, <1>3

\* With nothing lapsed, the cover is about the open window alone.
LEMMA AssetCoversOpen ==
  ASSUME NEW a, AssetSound(a), NEW t \in Nat, AssetLapsed(a, t) = 0, NEW u \in Nat, NEW g \in Nat
  PROVE  AssetCovers(a, u, g, t) <=> u + AssetOpen(a) <= g
<1>1. a.limit \in Nat /\ AssetOpen(a) \in Nat
  BY AssetFields
<1>2. a.limit * AssetLapsed(a, t) = 0
  BY <1>1
<1> QED
  BY <1>1, <1>2 DEF AssetCovers

\* A per-asset settlement keeps the cover and leaves no window lapsed.
LEMMA AssetKeepsSettled ==
  ASSUME NEW a, AssetSound(a), NEW t \in Nat, NEW u \in Nat, NEW g \in Nat,
         AssetCovers(a, u, g, t)
  PROVE  LET e == AssetTransition(a, t)
         IN  AssetSound(e) /\ AssetLapsed(e, t) = 0 /\ u + AssetOpen(e) <= g
             /\ AssetCovers(e, u, g, t)
<1> DEFINE e == AssetTransition(a, t)
<1>1. AssetSettled(a, e, t)
  BY AssetSettlement
<1> HIDE DEF e
<1>2. AssetSound(e) /\ AssetLapsed(e, t) = 0
  BY <1>1 DEF AssetSettled
<1>3. PICK o \in Nat, p \in Nat, m \in Nat :
        o = AssetOpen(e) /\ p = AssetOpen(a) /\ m = a.limit * AssetLapsed(a, t) /\ o <= p + m
  <2>1. AssetOpen(e) \in Nat
    BY <1>2, AssetFields
  <2>2. AssetOpen(a) \in Nat /\ a.limit * AssetLapsed(a, t) \in Nat
    BY AssetFields
  <2> QED
    BY <1>1, <2>1, <2>2 DEF AssetSettled
<1>4. u + p + m <= g
  BY <1>3 DEF AssetCovers
<1>5. u + AssetOpen(e) <= g
  BY <1>3, <1>4
<1> QED
  BY <1>2, <1>5, AssetCoversOpen DEF e

\* A spend within the capacity moves allowance from open to used.
LEMMA AssetKeepsSpend ==
  ASSUME NEW e, AssetSound(e), NEW t \in Nat, NEW u \in Nat, NEW g \in Nat, NEW amount \in Nat,
         AssetLapsed(e, t) = 0, u + AssetOpen(e) <= g, e.spent + amount <= AssetCapacity(e)
  PROVE  LET c == [e EXCEPT !.spent = e.spent + amount]
         IN  AssetSound(c) /\ AssetCovers(c, u + amount, g, t)
<1> DEFINE c == [e EXCEPT !.spent = e.spent + amount]
<1>1. /\ e \in AssetBudget /\ e.limit \in Nat /\ e.spent \in Nat /\ e.rollover_credit \in Nat
      /\ AssetCapacity(e) = e.limit + e.rollover_credit
      /\ AssetOpen(e) = Larger(e.limit + e.rollover_credit - e.spent, 0)
  BY AssetFields
<1>2. /\ c \in AssetBudget /\ c.spent = e.spent + amount /\ c.limit = e.limit
      /\ c.rollover_credit = e.rollover_credit /\ c.rollover_enabled = e.rollover_enabled
      /\ c.rollover_bps = e.rollover_bps
      /\ c.window_start = e.window_start /\ c.window_seconds = e.window_seconds
  BY <1>1 DEF AssetBudget
<1> HIDE DEF c
<1>3. AssetSound(c)
  BY <1>2 DEF AssetSound
<1>4. AssetLapsed(c, t) = 0
  BY <1>2 DEF AssetLapsed
<1>5. AssetOpen(c) = Larger(c.limit + c.rollover_credit - c.spent, 0)
  BY <1>3, AssetFields
<1>6. (u + amount) + AssetOpen(c) <= g
  BY <1>1, <1>2, <1>5 DEF Larger
<1>7. AssetCovers(c, u + amount, g, t)
  <2>1. u + amount \in Nat
    OBVIOUS
  <2> QED
    BY <1>3, <1>4, <1>6, <2>1, AssetCoversOpen
<1> QED
  BY <1>3, <1>7 DEF c

-----------------------------------------------------------------------------
(* The allowances' invariant                                                *)

AssetGood(k) ==
  /\ AssetSound(asset[k])
  /\ AssetCovers(asset[k], assetUsed[k], assetGranted[k], now)

\* Each registered allowance is sound and covered, and none was overspent.
AssetsOK ==
  /\ Registered \subseteq Allocated \X Token
  /\ assetUsed \in [BudgetId \X Token -> Nat]
  /\ assetGranted \in [BudgetId \X Token -> Nat]
  /\ \A k \in BudgetId \X Token : assetUsed[k] <= assetGranted[k]
  /\ \A k \in Registered : AssetGood(k)

\* Calls that write one allowance.
LEMMA AssetRewrite ==
  ASSUME ControlOK, EnvelopesOK, AssetsOK, NEW k \in Allocated \X Token,
         Allocated' = Allocated, now' = now,
         Registered' = Registered \cup {k},
         \A j \in Registered \ {k} : asset'[j] = asset[j],
         assetUsed' \in [BudgetId \X Token -> Nat],
         assetGranted' \in [BudgetId \X Token -> Nat],
         \A j \in (BudgetId \X Token) \ {k} :
            assetUsed'[j] = assetUsed[j] /\ assetGranted'[j] = assetGranted[j],
         AssetSound(asset'[k]),
         AssetCovers(asset'[k], assetUsed'[k], assetGranted'[k], now)
  PROVE  AssetsOK'
<1>1. k \in BudgetId \X Token /\ Registered \subseteq BudgetId \X Token
  BY DEF AssetsOK, EnvelopesOK
<1>2. Registered' \subseteq Allocated' \X Token
  BY DEF AssetsOK
<1>3. assetUsed'[k] <= assetGranted'[k]
  <2>1. AssetOpen(asset'[k]) \in Nat /\ asset'[k].limit * AssetLapsed(asset'[k], now) \in Nat
    BY AssetFields DEF ControlOK
  <2>2. PICK u \in Nat, g \in Nat, o \in Nat, m \in Nat :
          /\ u = assetUsed'[k] /\ g = assetGranted'[k] /\ o = AssetOpen(asset'[k])
          /\ m = asset'[k].limit * AssetLapsed(asset'[k], now)
    BY <1>1, <2>1
  <2>3. u + o + m <= g
    BY <2>2 DEF AssetCovers
  <2> QED
    BY <2>2, <2>3
<1>4. \A j \in BudgetId \X Token : assetUsed'[j] <= assetGranted'[j]
  BY <1>3 DEF AssetsOK
<1>5. ASSUME NEW j \in Registered' PROVE AssetGood(j)'
  <2>1. CASE j = k
    BY <2>1 DEF AssetGood
  <2>2. CASE j # k
    <3>1. j \in Registered \ {k} /\ j \in (BudgetId \X Token) \ {k}
      BY <1>1, <1>5, <2>2
    <3>2. /\ asset'[j] = asset[j] /\ assetUsed'[j] = assetUsed[j]
          /\ assetGranted'[j] = assetGranted[j]
      BY <3>1
    <3>3. AssetGood(j)
      BY <3>1 DEF AssetsOK
    <3> QED
      BY <3>2, <3>3 DEF AssetGood
  <2> QED
    BY <2>1, <2>2
<1> QED
  BY <1>2, <1>4, <1>5 DEF AssetsOK

\* The registered allowance a call starts from, and its settlement.
LEMMA AssetSettleFirst ==
  ASSUME ControlOK, EnvelopesOK, AssetsOK, NEW k \in Registered
  PROVE  LET e == AssetTransition(asset[k], now)
         IN  /\ k \in Allocated \X Token /\ k \in BudgetId \X Token
             /\ assetUsed[k] \in Nat /\ assetGranted[k] \in Nat
             /\ AssetSound(e) /\ AssetLapsed(e, now) = 0
             /\ assetUsed[k] + AssetOpen(e) <= assetGranted[k]
             /\ AssetCovers(e, assetUsed[k], assetGranted[k], now)
<1>1. k \in Allocated \X Token /\ k \in BudgetId \X Token
  BY DEF AssetsOK, EnvelopesOK
<1>2. assetUsed[k] \in Nat /\ assetGranted[k] \in Nat /\ now \in Nat
  BY <1>1 DEF AssetsOK, ControlOK
<1>3. AssetSound(asset[k]) /\ AssetCovers(asset[k], assetUsed[k], assetGranted[k], now)
  BY DEF AssetsOK, AssetGood
<1> QED
  BY <1>1, <1>2, <1>3, AssetKeepsSettled

\* Registering a token starts its allowance afresh.
LEMMA SetBudgetLimitAssets ==
  ASSUME ControlOK, EnvelopesOK, AssetsOK, NEW caller, NEW id, NEW t \in Token,
         NEW m \in AssetTerms, SetBudgetLimit(caller, id, t, m)
  PROVE  AssetsOK'
<1> DEFINE k == <<id, t>>
           start == Larger(budget[id].window_start, now)
           c == [limit |-> m.limit, spent |-> 0, window_seconds |-> m.window_seconds,
                 window_start |-> start,
                 rollover_enabled |-> m.rollover_enabled, rollover_credit |-> 0,
                 rollover_bps |-> m.rollover_bps, max_rollover_cap |-> m.rollover_cap]
<1>1. /\ id \in Allocated /\ m.rollover_bps <= BPS /\ StoreAsset(id, t, c)
      /\ assetGranted' = [assetGranted EXCEPT ![k] = assetGranted[k] + m.limit]
      /\ assetUsed' = assetUsed /\ now' = now /\ budget' = budget
  BY DEF SetBudgetLimit, RequireOwner, envelopes
<1>2. /\ m.limit \in Nat /\ m.window_seconds \in Nat /\ m.rollover_enabled \in BOOLEAN
      /\ m.rollover_bps \in Nat /\ m.rollover_cap \in Nat
  BY BudgetInputsAssumption
<1>3. start \in Nat /\ now <= start /\ now \in Nat
  <2>1. budget[id] \in BudgetRecord /\ now \in Nat
    BY <1>1 DEF EnvelopesOK, Sound, ControlOK
  <2>2. budget[id].window_start \in Nat
    BY <2>1 DEF BudgetRecord
  <2> QED
    BY <2>1, <2>2 DEF Larger
<1> HIDE DEF start
<1>4. /\ c \in AssetBudget /\ c.limit = m.limit /\ c.spent = 0 /\ c.rollover_credit = 0
      /\ c.window_start = start /\ c.rollover_bps = m.rollover_bps
  BY <1>2, <1>3 DEF AssetBudget
<1>5. /\ Registered' = Registered \cup {k} /\ asset'[k] = c
      /\ \A j \in Registered \ {k} : asset'[j] = asset[j]
      /\ Allocated' = Allocated
  BY <1>1 DEF StoreAsset, Registered, Allocated
<1> HIDE DEF c
<1>6. AssetSound(c)
  BY <1>1, <1>4 DEF AssetSound
<1>7. AssetLapsed(c, now) = 0 /\ AssetOpen(c) = m.limit
  <2>1. /\ AssetOpen(c) = Larger(c.limit + c.rollover_credit - c.spent, 0)
        /\ now <= c.window_start => AssetLapsed(c, now) = 0
    BY <1>3, <1>6, AssetFields
  <2> QED
    BY <1>2, <1>3, <1>4, <2>1 DEF Larger
<1>8. k \in Allocated \X Token /\ k \in BudgetId \X Token
  BY <1>1 DEF EnvelopesOK
<1> HIDE DEF k
<1>9. assetUsed[k] \in Nat /\ assetGranted[k] \in Nat /\ assetUsed[k] <= assetGranted[k]
      /\ assetGranted \in [BudgetId \X Token -> Nat] /\ assetUsed \in [BudgetId \X Token -> Nat]
  BY <1>8 DEF AssetsOK
<1>10. assetGranted[k] + m.limit \in Nat
       /\ assetUsed[k] + m.limit <= assetGranted[k] + m.limit
  BY <1>2, <1>9
<1>11. /\ assetGranted' \in [BudgetId \X Token -> Nat]
       /\ assetGranted'[k] = assetGranted[k] + m.limit
       /\ \A j \in (BudgetId \X Token) \ {k} : assetGranted'[j] = assetGranted[j]
  BY <1>1, <1>8, <1>9, <1>10 DEF k
<1>12. AssetCovers(c, assetUsed[k], assetGranted'[k], now)
  BY <1>3, <1>6, <1>7, <1>9, <1>10, <1>11, AssetCoversOpen
<1> QED
  BY <1>1, <1>5, <1>6, <1>8, <1>9, <1>11, <1>12, AssetRewrite

\* A new rollover policy settles first and never raises the credit.
LEMMA SetAssetRolloverConfigAssets ==
  ASSUME ControlOK, EnvelopesOK, AssetsOK, NEW caller, NEW id, NEW t \in Token,
         NEW r \in AssetRollovers, SetAssetRolloverConfig(caller, id, t, r)
  PROVE  AssetsOK'
<1> DEFINE k == <<id, t>>
           e == AssetTransition(asset[k], now)
           x == IF r.rollover_enabled THEN ApplyCap(e.rollover_credit, r.rollover_cap) ELSE 0
           c == [e EXCEPT !.rollover_enabled = r.rollover_enabled,
                          !.rollover_bps = r.rollover_bps,
                          !.max_rollover_cap = r.rollover_cap,
                          !.rollover_credit = x]
<1>1. /\ k \in Registered /\ r.rollover_bps <= BPS /\ StoreAsset(id, t, c)
      /\ assetGranted' = assetGranted
      /\ assetUsed' = assetUsed /\ now' = now /\ budget' = budget
  BY DEF SetAssetRolloverConfig, envelopes
<1>2. r.rollover_enabled \in BOOLEAN /\ r.rollover_bps \in Nat /\ r.rollover_cap \in Nat
      /\ now \in Nat
  BY BudgetInputsAssumption DEF ControlOK
<1>3. /\ k \in Allocated \X Token /\ k \in BudgetId \X Token
      /\ assetUsed[k] \in Nat /\ assetGranted[k] \in Nat
      /\ AssetSound(e) /\ AssetLapsed(e, now) = 0
      /\ assetUsed[k] + AssetOpen(e) <= assetGranted[k]
  BY <1>1, AssetSettleFirst
<1>4. /\ Registered' = Registered \cup {k} /\ asset'[k] = c
      /\ \A j \in Registered \ {k} : asset'[j] = asset[j]
      /\ Allocated' = Allocated
  BY <1>1 DEF StoreAsset, Registered, Allocated
<1> HIDE DEF e, k
<1>5. /\ e \in AssetBudget /\ e.limit \in Nat /\ e.spent \in Nat /\ e.rollover_credit \in Nat
      /\ AssetOpen(e) \in Nat
      /\ AssetOpen(e) = Larger(e.limit + e.rollover_credit - e.spent, 0)
  BY <1>2, <1>3, AssetFields
<1>6. x \in Nat /\ x <= e.rollover_credit /\ (~ r.rollover_enabled => x = 0)
  <2>1. /\ ApplyCap(e.rollover_credit, r.rollover_cap) \in Nat
        /\ ApplyCap(e.rollover_credit, r.rollover_cap) <= e.rollover_credit
    BY <1>2, <1>5, CapBound
  <2>2. CASE r.rollover_enabled
    BY <2>1, <2>2
  <2>3. CASE ~ r.rollover_enabled
    BY <1>5, <2>3
  <2> QED
    BY <2>2, <2>3
<1> HIDE DEF x
<1>7. /\ c \in AssetBudget /\ c.limit = e.limit /\ c.spent = e.spent /\ c.rollover_credit = x
      /\ c.rollover_enabled = r.rollover_enabled /\ c.rollover_bps = r.rollover_bps
      /\ c.window_start = e.window_start /\ c.window_seconds = e.window_seconds
  BY <1>2, <1>5, <1>6 DEF AssetBudget
<1> HIDE DEF c
<1>8. AssetSound(c)
  BY <1>1, <1>6, <1>7 DEF AssetSound
<1>9. AssetLapsed(c, now) = 0
  BY <1>3, <1>7 DEF AssetLapsed
<1>10. AssetOpen(c) \in Nat /\ AssetOpen(c) <= AssetOpen(e)
  <2>1. AssetOpen(c) = Larger(c.limit + c.rollover_credit - c.spent, 0) /\ AssetOpen(c) \in Nat
    BY <1>2, <1>8, AssetFields
  <2> QED
    BY <1>5, <1>6, <1>7, <2>1 DEF Larger
<1>11. assetUsed[k] + AssetOpen(c) <= assetGranted[k]
  BY <1>3, <1>5, <1>10
<1>12. AssetCovers(c, assetUsed'[k], assetGranted'[k], now)
  BY <1>1, <1>2, <1>3, <1>8, <1>9, <1>11, AssetCoversOpen
<1>13. /\ assetUsed' \in [BudgetId \X Token -> Nat] /\ assetGranted' \in [BudgetId \X Token -> Nat]
  BY <1>1 DEF AssetsOK
<1> QED
  BY <1>1, <1>3, <1>4, <1>8, <1>12, <1>13, AssetRewrite

\* A spend stays within limit and credit.
LEMMA CheckAndRecordSpendAssets ==
  ASSUME ControlOK, EnvelopesOK, AssetsOK, NEW caller, NEW id, NEW t \in Token,
         NEW amount \in Amounts, CheckAndRecordSpend(caller, id, t, amount)
  PROVE  AssetsOK'
<1> DEFINE k == <<id, t>>
           e == AssetTransition(asset[k], now)
           c == [e EXCEPT !.spent = e.spent + amount]
<1>1. /\ k \in Registered /\ e.spent + amount <= AssetCapacity(e) /\ StoreAsset(id, t, c)
      /\ assetUsed' = [assetUsed EXCEPT ![k] = assetUsed[k] + amount]
      /\ assetGranted' = assetGranted /\ now' = now /\ budget' = budget
  BY DEF CheckAndRecordSpend, envelopes
<1>2. amount \in Nat /\ now \in Nat
  BY BudgetInputsAssumption DEF ControlOK
<1>3. /\ k \in Allocated \X Token /\ k \in BudgetId \X Token
      /\ assetUsed[k] \in Nat /\ assetGranted[k] \in Nat
      /\ AssetSound(e) /\ AssetLapsed(e, now) = 0
      /\ assetUsed[k] + AssetOpen(e) <= assetGranted[k]
  BY <1>1, AssetSettleFirst
<1>4. /\ Registered' = Registered \cup {k} /\ asset'[k] = c
      /\ \A j \in Registered \ {k} : asset'[j] = asset[j]
      /\ Allocated' = Allocated
  BY <1>1 DEF StoreAsset, Registered, Allocated
<1> HIDE DEF e, k
<1>5. AssetSound(c) /\ AssetCovers(c, assetUsed[k] + amount, assetGranted[k], now)
  BY <1>1, <1>2, <1>3, AssetKeepsSpend
<1> HIDE DEF c
<1>6. assetUsed \in [BudgetId \X Token -> Nat] /\ assetGranted' \in [BudgetId \X Token -> Nat]
  BY <1>1 DEF AssetsOK
<1>7. assetUsed[k] + amount \in Nat
  BY <1>2, <1>3
<1>8. /\ assetUsed' \in [BudgetId \X Token -> Nat] /\ assetUsed'[k] = assetUsed[k] + amount
      /\ \A j \in (BudgetId \X Token) \ {k} : assetUsed'[j] = assetUsed[j]
  BY <1>1, <1>3, <1>6, <1>7
<1>9. AssetCovers(c, assetUsed'[k], assetGranted'[k], now)
  BY <1>1, <1>5, <1>8
<1> QED
  BY <1>1, <1>3, <1>4, <1>5, <1>6, <1>8, <1>9, AssetRewrite

\* The view persists a settlement and nothing else.
LEMMA GetAssetBudgetAssets ==
  ASSUME ControlOK, EnvelopesOK, AssetsOK, NEW id, NEW t, GetAssetBudget(id, t)
  PROVE  AssetsOK'
<1> DEFINE k == <<id, t>>
           e == AssetTransition(asset[k], now)
<1>1. /\ k \in Registered /\ asset' = [asset EXCEPT ![k] = e]
      /\ assetUsed' = assetUsed /\ assetGranted' = assetGranted /\ now' = now /\ budget' = budget
  BY DEF GetAssetBudget, envelopes
<1>2. /\ k \in Allocated \X Token
      /\ AssetSound(e) /\ AssetCovers(e, assetUsed[k], assetGranted[k], now)
  BY <1>1, AssetSettleFirst
<1> HIDE DEF e, k
<1>3. /\ Registered' = Registered \cup {k} /\ asset'[k] = e
      /\ \A j \in Registered \ {k} : asset'[j] = asset[j]
      /\ Allocated' = Allocated
  BY <1>1 DEF Registered, Allocated
<1>4. assetUsed' \in [BudgetId \X Token -> Nat] /\ assetGranted' \in [BudgetId \X Token -> Nat]
  BY <1>1 DEF AssetsOK
<1>5. AssetSound(asset'[k]) /\ AssetCovers(asset'[k], assetUsed'[k], assetGranted'[k], now)
  BY <1>1, <1>2, <1>3
<1> QED
  BY <1>1, <1>2, <1>3, <1>4, <1>5, AssetRewrite

\* With one leg a token, what a batch takes of a token is its one leg.
LEMMA DemandOfLeg ==
  ASSUME NEW spends \in Spends, DistinctTokens(spends), NEW i \in DOMAIN spends
  PROVE  /\ spends[i].amount \in Nat
         /\ {j \in DOMAIN spends : spends[j].token = spends[i].token} = {i}
         /\ Demand(spends, spends[i].token) = spends[i].amount
<1>1. spends[i].amount \in Nat
  <2>1. spends \in Seq([token: Token, amount: Nat])
    BY BudgetInputsAssumption
  <2>2. ASSUME NEW R, NEW s \in Seq(R), NEW j \in DOMAIN s PROVE s[j] \in R
    OBVIOUS
  <2>3. spends[i] \in [token: Token, amount: Nat]
    BY <2>1, <2>2
  <2> QED
    BY <2>3
<1>2. {j \in DOMAIN spends : spends[j].token = spends[i].token} = {i}
  BY DEF DistinctTokens
<1>3. PICK f : f = [j \in DOMAIN spends |-> spends[j].amount]
  OBVIOUS
<1>4. SumFunctionOnSet(f, {i}) = f[i]
  BY <1>1, <1>3, SumOne
<1> QED
  BY <1>1, <1>2, <1>3, <1>4 DEF Demand

\* A batch asks nothing of a token it does not name.
LEMMA DemandOfNone ==
  ASSUME NEW spends, NEW t, \A i \in DOMAIN spends : spends[i].token # t
  PROVE  Demand(spends, t) = 0
<1>1. {i \in DOMAIN spends : spends[i].token = t} = {}
  OBVIOUS
<1> QED
  BY <1>1, SumEmpty DEF Demand

\* The greatest of one number.
LEMMA MaxOfOne ==
  ASSUME NEW i \in Nat
  PROVE  Max({i}) = i
  BY DEF Max

\* A batch spends within the limit of every token it names.
LEMMA BatchSpendAssets ==
  ASSUME ControlOK, EnvelopesOK, AssetsOK, NEW caller, NEW id, NEW spends \in Spends,
         CheckAndRecordBatchSpend(caller, id, spends)
  PROVE  AssetsOK'
<1> DEFINE leg(i) == AssetTransition(asset[<<id, spends[i].token>>], now)
           tokens == {spends[i].token : i \in DOMAIN spends}
           last(t) == Max({i \in DOMAIN spends : spends[i].token = t})
           written == {<<id, t>> : t \in tokens}
<1>1. /\ \A i \in DOMAIN spends :
           /\ <<id, spends[i].token>> \in Registered
           /\ leg(i).spent + spends[i].amount <= leg(i).limit
      /\ DistinctTokens(spends)
      /\ asset' = [k \in Registered |->
           IF k \in written
             THEN [leg(last(k[2])) EXCEPT !.spent = leg(last(k[2])).spent + spends[last(k[2])].amount]
             ELSE asset[k]]
      /\ assetUsed' = [k \in DOMAIN assetUsed |->
           IF k[1] = id THEN assetUsed[k] + Demand(spends, k[2]) ELSE assetUsed[k]]
      /\ assetGranted' = assetGranted /\ now' = now /\ budget' = budget
  BY DEF CheckAndRecordBatchSpend, envelopes
<1>2. Registered' = Registered /\ Allocated' = Allocated
  BY <1>1 DEF Registered, Allocated
<1>3. /\ assetUsed \in [BudgetId \X Token -> Nat] /\ assetGranted \in [BudgetId \X Token -> Nat]
      /\ Registered \subseteq BudgetId \X Token /\ now \in Nat
  BY DEF AssetsOK, EnvelopesOK, ControlOK
<1>4. ASSUME NEW i \in DOMAIN spends, NEW k, k = <<id, spends[i].token>>
      PROVE  /\ k \in Registered /\ k \in BudgetId \X Token
             /\ assetUsed'[k] \in Nat
             /\ AssetSound(asset'[k])
             /\ AssetCovers(asset'[k], assetUsed'[k], assetGranted[k], now)
  <2>1. k \in Registered /\ k \in BudgetId \X Token /\ k[1] = id /\ k[2] = spends[i].token
    BY <1>1, <1>3, <1>4
  <2>2. k \in written
    BY <1>4
  <2>3. /\ spends[i].amount \in Nat
        /\ {j \in DOMAIN spends : spends[j].token = spends[i].token} = {i}
        /\ Demand(spends, spends[i].token) = spends[i].amount
    BY <1>1, DemandOfLeg
  <2>4. last(spends[i].token) = i
    <3>1. spends \in Seq([token: Token, amount: Nat])
      BY BudgetInputsAssumption
    <3>2. i \in Nat
      BY <3>1
    <3> QED
      BY <2>3, <3>2, MaxOfOne
  <2> DEFINE e == AssetTransition(asset[k], now)
             c == [e EXCEPT !.spent = e.spent + spends[i].amount]
  <2>5. leg(i) = e
    BY <1>4
  <2>6. asset'[k] = c
    <3> HIDE DEF leg, last, written, e
    <3>1. asset'[k] = [leg(last(k[2])) EXCEPT !.spent =
                          leg(last(k[2])).spent + spends[last(k[2])].amount]
      BY <1>1, <2>1, <2>2
    <3>2. last(k[2]) = i
      BY <2>1, <2>4
    <3> QED
      BY <2>5, <3>1, <3>2
  <2>7. assetUsed'[k] = assetUsed[k] + spends[i].amount
    BY <1>1, <1>3, <2>1, <2>3
  <2>8. /\ assetUsed[k] \in Nat /\ assetGranted[k] \in Nat
        /\ AssetSound(e) /\ AssetLapsed(e, now) = 0
        /\ assetUsed[k] + AssetOpen(e) <= assetGranted[k]
    BY <2>1, AssetSettleFirst
  <2>9. e.spent + spends[i].amount <= e.limit
    BY <1>1, <2>5
  <2> HIDE DEF e, leg
  <2>10. e.spent + spends[i].amount <= AssetCapacity(e)
    <3>1. /\ e.limit \in Nat /\ e.spent \in Nat /\ e.rollover_credit \in Nat
          /\ AssetCapacity(e) = e.limit + e.rollover_credit
      BY <1>3, <2>8, AssetFields
    <3> QED
      BY <2>3, <2>9, <3>1
  <2>11. /\ AssetSound(c)
         /\ AssetCovers(c, assetUsed[k] + spends[i].amount, assetGranted[k], now)
    BY <1>3, <2>3, <2>8, <2>10, AssetKeepsSpend
  <2> HIDE DEF c
  <2> QED
    BY <2>1, <2>3, <2>6, <2>7, <2>8, <2>11
<1>5. ASSUME NEW k \in BudgetId \X Token, \A i \in DOMAIN spends : k # <<id, spends[i].token>>
      PROVE  /\ assetUsed'[k] = assetUsed[k]
             /\ k \in Registered => asset'[k] = asset[k]
  <2>1. k \notin written
    BY <1>5
  <2>2. k \in Registered => asset'[k] = asset[k]
    <3> HIDE DEF leg, last, written
    <3> QED
      BY <1>1, <2>1
  <2>3. assetUsed[k] \in Nat
    BY <1>3
  <2>4. CASE k[1] = id
    <3>1. k = <<id, k[2]>>
      BY <2>4
    <3>2. \A i \in DOMAIN spends : spends[i].token # k[2]
      BY <1>5, <3>1
    <3>3. Demand(spends, k[2]) = 0
      BY <3>2, DemandOfNone
    <3>4. assetUsed'[k] = assetUsed[k] + Demand(spends, k[2])
      BY <1>1, <1>3, <2>4
    <3> QED
      BY <2>2, <2>3, <3>3, <3>4
  <2>5. CASE k[1] # id
    <3>1. assetUsed'[k] = assetUsed[k]
      BY <1>1, <1>3, <2>5
    <3> QED
      BY <2>2, <3>1
  <2> QED
    BY <2>4, <2>5
<1>6. DOMAIN assetUsed' = BudgetId \X Token /\ assetUsed' = [k \in BudgetId \X Token |-> assetUsed'[k]]
  BY <1>1, <1>3
<1> HIDE DEF leg, tokens, last, written
<1>7. ASSUME NEW k \in BudgetId \X Token
      PROVE  /\ assetUsed'[k] \in Nat
             /\ assetUsed'[k] <= assetGranted'[k]
             /\ k \in Registered => AssetGood(k)'
  <2>1. assetUsed[k] \in Nat /\ assetGranted[k] \in Nat /\ assetUsed[k] <= assetGranted[k]
    BY <1>3 DEF AssetsOK
  <2>2. CASE \E i \in DOMAIN spends : k = <<id, spends[i].token>>
    <3>1. /\ assetUsed'[k] \in Nat /\ AssetSound(asset'[k])
          /\ AssetCovers(asset'[k], assetUsed'[k], assetGranted[k], now)
      BY <1>4, <2>2
    <3>2. /\ AssetOpen(asset'[k]) \in Nat
          /\ asset'[k].limit * AssetLapsed(asset'[k], now) \in Nat
      BY <1>3, <3>1, AssetFields
    <3>3. PICK u \in Nat, g \in Nat, o \in Nat, m \in Nat :
            /\ u = assetUsed'[k] /\ g = assetGranted[k] /\ o = AssetOpen(asset'[k])
            /\ m = asset'[k].limit * AssetLapsed(asset'[k], now)
      BY <2>1, <3>1, <3>2
    <3>4. u + o + m <= g
      BY <3>1, <3>3 DEF AssetCovers
    <3>5. assetUsed'[k] <= assetGranted'[k]
      <4>1. u <= g
        BY <3>4
      <4>2. assetGranted'[k] = assetGranted[k]
        BY <1>1
      <4> QED
        BY <3>3, <4>1, <4>2
    <3> QED
      BY <1>1, <3>1, <3>5 DEF AssetGood
  <2>3. CASE ~ \E i \in DOMAIN spends : k = <<id, spends[i].token>>
    <3>1. assetUsed'[k] = assetUsed[k] /\ (k \in Registered => asset'[k] = asset[k])
      BY <1>5, <2>3
    <3>2. assetGranted'[k] = assetGranted[k] /\ now' = now
      BY <1>1
    <3>3. k \in Registered => AssetGood(k)
      BY DEF AssetsOK
    <3> QED
      BY <2>1, <3>1, <3>2, <3>3 DEF AssetGood
  <2> QED
    BY <2>2, <2>3
<1>8. assetUsed' \in [BudgetId \X Token -> Nat]
  BY <1>6, <1>7
<1>9. assetGranted' \in [BudgetId \X Token -> Nat] /\ Registered' \subseteq Allocated' \X Token
  BY <1>1, <1>2, <1>3 DEF AssetsOK
<1>10. \A k \in Registered' : AssetGood(k)'
  BY <1>2, <1>3, <1>7
<1> QED
  BY <1>7, <1>8, <1>9, <1>10 DEF AssetsOK

\* A boundary that passes grants one limit of each asset.
LEMMA TickAssets ==
  ASSUME ControlOK, EnvelopesOK, AssetsOK, Tick
  PROVE  AssetsOK'
<1>1. /\ now \in Nat /\ now' = now + 1 /\ asset' = asset /\ assetUsed' = assetUsed
      /\ Allocated' = Allocated /\ Registered' = Registered
  BY DEF ControlOK, Tick, Allocated, Registered
<1> DEFINE P(k) == Passed(asset[k].window_start, asset[k].window_seconds)
<1>2. /\ \A k \in BudgetId \X Token :
           assetGranted'[k] = IF k \in Registered THEN assetGranted[k] + asset[k].limit * P(k)
                                                  ELSE assetGranted[k]
      /\ assetGranted' = [k \in BudgetId \X Token |-> assetGranted'[k]]
  BY DEF Tick
<1>3. /\ assetUsed \in [BudgetId \X Token -> Nat] /\ assetGranted \in [BudgetId \X Token -> Nat]
      /\ Registered \subseteq BudgetId \X Token
  BY DEF AssetsOK, EnvelopesOK
<1>4. ASSUME NEW k \in Registered
      PROVE  /\ assetGranted'[k] \in Nat
             /\ assetUsed[k] <= assetGranted'[k]
             /\ AssetSound(asset[k])
             /\ AssetCovers(asset[k], assetUsed[k], assetGranted'[k], now + 1)
  <2>1. AssetSound(asset[k]) /\ AssetCovers(asset[k], assetUsed[k], assetGranted[k], now)
    BY DEF AssetsOK, AssetGood
  <2>2. /\ asset[k].limit \in Nat /\ asset[k].window_start \in Nat
        /\ asset[k].window_seconds \in Nat /\ AssetOpen(asset[k]) \in Nat
    BY <1>1, <2>1, AssetFields
  <2>3. assetUsed[k] \in Nat /\ assetGranted[k] \in Nat
    BY <1>3
  <2>4. /\ P(k) \in Nat /\ AssetLapsed(asset[k], now) \in Nat
        /\ AssetLapsed(asset[k], now + 1) = AssetLapsed(asset[k], now) + P(k)
    BY <1>1, <2>2, BoundariesPass DEF AssetLapsed
  <2>5. PICK l \in Nat, p \in Nat, n \in Nat, o \in Nat, g \in Nat, u \in Nat :
          /\ l = asset[k].limit /\ p = P(k) /\ n = AssetLapsed(asset[k], now)
          /\ o = AssetOpen(asset[k]) /\ g = assetGranted[k] /\ u = assetUsed[k]
    BY <2>2, <2>3, <2>4
  <2>6. l * p \in Nat /\ l * n \in Nat /\ l * (n + p) = l * n + l * p
    <3>1. \A x \in Nat, y \in Nat, z \in Nat : x * (y + z) = x * y + x * z
      BY SMT
    <3> QED
      BY <3>1, ProductMonotonic
  <2>7. PICK a \in Nat, b \in Nat : a = l * p /\ b = l * n /\ l * (n + p) = b + a
    BY <2>6
  <2>8. assetGranted'[k] = g + a
    BY <1>2, <1>3, <2>5, <2>7
  <2>9. u + o + b <= g
    BY <2>1, <2>5, <2>7 DEF AssetCovers
  <2>10. u + o + (b + a) <= g + a /\ u <= g + a
    BY <2>9
  <2>11. AssetCovers(asset[k], assetUsed[k], assetGranted'[k], now + 1)
    <3>1. asset[k].limit * AssetLapsed(asset[k], now + 1) = b + a
      BY <2>4, <2>5, <2>7
    <3> QED
      BY <2>5, <2>8, <2>10, <3>1 DEF AssetCovers
  <2> QED
    BY <2>1, <2>5, <2>8, <2>10, <2>11
<1> HIDE DEF P
<1>5. ASSUME NEW k \in BudgetId \X Token
      PROVE  assetGranted'[k] \in Nat /\ assetUsed[k] <= assetGranted'[k]
  <2>1. assetGranted[k] \in Nat /\ assetUsed[k] <= assetGranted[k]
    BY <1>3 DEF AssetsOK
  <2> QED
    BY <1>2, <1>4, <2>1
<1>6. assetGranted' \in [BudgetId \X Token -> Nat]
  BY <1>2, <1>5
<1>7. \A k \in Registered' : AssetGood(k)'
  BY <1>1, <1>4 DEF AssetGood
<1>8. Registered' \subseteq Allocated' \X Token
  BY <1>1 DEF AssetsOK
<1> QED
  BY <1>1, <1>3, <1>5, <1>6, <1>7, <1>8 DEF AssetsOK

\* Calls that touch no allowance.
LEMMA AssetsFrame ==
  ASSUME AssetsOK, UNCHANGED <<now, assets>>, Allocated \subseteq Allocated'
  PROVE  AssetsOK'
<1>1. now' = now /\ asset' = asset /\ assetUsed' = assetUsed /\ assetGranted' = assetGranted
  BY DEF assets
<1>2. Registered' = Registered /\ \A k : AssetGood(k)' <=> AssetGood(k)
  BY <1>1 DEF Registered, AssetGood
<1>3. Registered' \subseteq Allocated' \X Token
  BY <1>2 DEF AssetsOK
<1> QED
  BY <1>1, <1>2, <1>3 DEF AssetsOK

\* No envelope is ever deallocated.
LEMMA AllocatedByStore ==
  ASSUME NEW id, NEW b, Store(id, b)
  PROVE  Allocated \subseteq Allocated'
  BY DEF Store, Allocated

\* Calls on an envelope leave the per-asset budgets alone.
LEMMA EnvelopeCallsFrame ==
  ASSUME ControlOK, AssetsOK, NEW id, NEW caller, Administration(caller, id)
  PROVE  UNCHANGED <<now, assets>> /\ Allocated \subseteq Allocated'
<1>1. ASSUME NEW g \in Grants, \/ AllocateWithDeficit(caller, id, g)
                               \/ AllocateWithRollover(caller, id, g)
                               \/ \E start_at \in Starts : AllocateScheduled(caller, id, g, start_at)
      PROVE  UNCHANGED <<now, assets>> /\ Allocated \subseteq Allocated'
  <2>1. PICK bps \in Nat, cap \in Nat, start \in Nat :
          AllocateInternal(caller, id, g, bps, cap, start)
    BY <1>1, AllocateCalls
  <2> QED
    BY <2>1 DEF AllocateInternal, Allocated
<1>2. ASSUME NEW to \in BudgetId, NEW amount \in Amounts,
             TransferAllocation(caller, id, to, amount)
      PROVE  UNCHANGED <<now, assets>> /\ Allocated \subseteq Allocated'
  BY <1>2 DEF TransferAllocation, Allocated
<1>3. ASSUME NEW r \in Recurrences, SetRecurrence(caller, id, r)
      PROVE  UNCHANGED <<now, assets>> /\ Allocated \subseteq Allocated'
  BY <1>3, AllocatedByStore DEF SetRecurrence
<1>4. ASSUME NEW r \in Rollovers, SetRolloverConfig(caller, id, r)
      PROVE  UNCHANGED <<now, assets>> /\ Allocated \subseteq Allocated'
  BY <1>4, AllocatedByStore DEF SetRolloverConfig
<1>5. ASSUME Reset(caller, id)
      PROVE  UNCHANGED <<now, assets>> /\ Allocated \subseteq Allocated'
  BY <1>5, AllocatedByStore DEF Reset
<1>6. ASSUME Rollover(caller, id)
      PROVE  UNCHANGED <<now, assets>> /\ Allocated \subseteq Allocated'
  BY <1>6, AllocatedByStore DEF Rollover
<1>7. ASSUME NEW limit \in Limits, SetLimit(caller, id, limit)
      PROVE  UNCHANGED <<now, assets>> /\ Allocated \subseteq Allocated'
  BY <1>7, AllocatedByStore DEF SetLimit
<1>8. ASSUME Freeze(caller, id) \/ Unfreeze(caller, id) \/ Archive(caller, id)
      PROVE  UNCHANGED <<now, assets>> /\ Allocated \subseteq Allocated'
  BY <1>8, AllocatedByStore DEF Freeze, Unfreeze, Archive
<1> QED
  BY <1>1, <1>2, <1>3, <1>4, <1>5, <1>6, <1>7, <1>8 DEF Administration

\* Every step keeps the per-asset budgets covered.
LEMMA AssetsStep ==
  ASSUME ControlOK, EnvelopesOK, AssetsOK, [Next]_vars
  PROVE  AssetsOK'
<1>1. CASE Tick
  BY <1>1, TickAssets
<1>2. ASSUME NEW a \in Addr, Initialize(a) PROVE AssetsOK'
  BY <1>2, AssetsFrame DEF Initialize, envelopes, Allocated
<1>3. ASSUME NEW id \in BudgetId, Remaining(id) PROVE AssetsOK'
  BY <1>3, AssetsFrame, AllocatedByStore DEF Remaining
<1>4. ASSUME NEW id \in BudgetId, NEW t \in Token, GetAssetBudget(id, t) PROVE AssetsOK'
  BY <1>4, GetAssetBudgetAssets
<1>5. ASSUME NEW id \in BudgetId, NEW caller \in Addr, Administration(caller, id)
      PROVE  AssetsOK'
  BY <1>5, EnvelopeCallsFrame, AssetsFrame
<1>6. ASSUME NEW id \in BudgetId, NEW caller \in Addr, Spending(caller, id)
      PROVE  AssetsOK'
  <2>1. ASSUME NEW amount \in Amounts,
               Consume(caller, id, amount) \/ Release(caller, id, amount)
        PROVE  AssetsOK'
    BY <2>1, AssetsFrame, AllocatedByStore DEF Consume, Release
  <2>2. ASSUME NEW t \in Token, NEW amount \in Amounts, CheckAndRecordSpend(caller, id, t, amount)
        PROVE  AssetsOK'
    BY <2>2, CheckAndRecordSpendAssets
  <2>3. ASSUME NEW spends \in Spends, CheckAndRecordBatchSpend(caller, id, spends)
        PROVE  AssetsOK'
    BY <2>3, BatchSpendAssets
  <2> QED
    BY <1>6, <2>1, <2>2, <2>3 DEF Spending
<1>7. ASSUME NEW id \in BudgetId, NEW caller \in Addr, NEW t \in Token,
             AssetAdministration(caller, id, t)
      PROVE  AssetsOK'
  BY <1>7, SetBudgetLimitAssets, SetAssetRolloverConfigAssets DEF AssetAdministration
<1>8. CASE UNCHANGED vars
  BY <1>8, AssetsFrame DEF vars, envelopes, Allocated
<1> QED
  BY <1>1, <1>2, <1>3, <1>4, <1>5, <1>6, <1>7, <1>8 DEF Next

-----------------------------------------------------------------------------
(* The invariant and the theorems                                           *)

\* Administrative calls are counted and spending is not.
LEMMA ControlStep ==
  ASSUME ControlOK, [Next]_vars
  PROVE  ControlOK'
<1>1. CASE Tick
  BY <1>1 DEF Tick, ControlOK
<1>2. ASSUME NEW a \in Addr, Initialize(a) PROVE ControlOK'
  BY <1>2, BudgetInputsAssumption DEF Initialize, Administered, MayAdminister, ControlOK
<1>3. ASSUME UNCHANGED <<now, admin, settings>> PROVE ControlOK'
  BY <1>3 DEF ControlOK
<1>4. ASSUME UNCHANGED <<now, admin>>, Administered PROVE ControlOK'
  <2>1. MaxSettings \in Nat /\ settings \in 0..MaxSettings /\ settings < MaxSettings
    BY <1>4, BudgetInputsAssumption DEF ControlOK, Administered, MayAdminister
  <2>2. settings' = settings + 1
    BY <1>4 DEF Administered
  <2>3. settings' \in 0..MaxSettings
    BY <2>1, <2>2
  <2> QED
    BY <1>4, <2>3 DEF ControlOK
<1>5. ASSUME NEW id \in BudgetId, NEW caller \in Addr, Administration(caller, id)
      PROVE  UNCHANGED <<now, admin>> /\ Administered
  BY <1>5, ZenonT(60)
          DEF Administration, AllocateWithDeficit, AllocateWithRollover, AllocateScheduled,
              AllocateInternal, SetRecurrence, SetRolloverConfig, Reset, Rollover, SetLimit,
              Freeze, Unfreeze, Archive, TransferAllocation
<1>6. ASSUME NEW id \in BudgetId, NEW caller \in Addr, Spending(caller, id)
      PROVE  UNCHANGED <<now, admin, settings>>
  BY <1>6 DEF Spending, Consume, Release, CheckAndRecordSpend, CheckAndRecordBatchSpend
<1>7. ASSUME NEW id \in BudgetId, NEW caller \in Addr, NEW t \in Token,
             AssetAdministration(caller, id, t)
      PROVE  UNCHANGED <<now, admin>> /\ Administered
  BY <1>7 DEF AssetAdministration, SetBudgetLimit, SetAssetRolloverConfig
<1>8. ASSUME NEW id \in BudgetId, Remaining(id) PROVE UNCHANGED <<now, admin, settings>>
  BY <1>8 DEF Remaining
<1>9. ASSUME NEW id \in BudgetId, NEW t \in Token, GetAssetBudget(id, t)
      PROVE  UNCHANGED <<now, admin, settings>>
  BY <1>9 DEF GetAssetBudget
<1>10. CASE UNCHANGED vars
  BY <1>3, <1>10 DEF vars
<1> QED
  BY <1>1, <1>2, <1>3, <1>4, <1>5, <1>6, <1>7, <1>8, <1>9, <1>10 DEF Next

Inv == ControlOK /\ EnvelopesOK /\ EndowmentsOK /\ AssetsOK

\* The contract starts empty.
LEMMA InitInv == Init => Inv
<1> SUFFICES ASSUME Init PROVE Inv
  OBVIOUS
<1>1. Allocated = {} /\ Registered = {}
  BY DEF Init, Allocated, Registered
<1>2. ControlOK
  BY BudgetInputsAssumption DEF Init, ControlOK
<1>3. EnvelopesOK
  BY <1>1, FS_EmptySet DEF Init, EnvelopesOK
<1>4. EndowmentsOK
  <2>1. \A a \in Addr : endowed[a] = 0
    BY DEF Init
  <2>2. \A a : OwnedBy(a) = {}
    BY <1>1 DEF OwnedBy
  <2>3. \A a \in Addr : endowed[a] = SumFunctionOnSet(LimitOf, OwnedBy(a))
    BY <2>1, <2>2, SumEmpty
  <2> QED
    BY <2>3 DEF Init, EndowmentsOK, AllocationConserved
<1>5. AssetsOK
  BY <1>1 DEF Init, AssetsOK
<1> QED
  BY <1>2, <1>3, <1>4, <1>5 DEF Inv

\* The inductive invariant: every envelope and every allowance is sound and
\* covered, and the limits add up.
THEOREM Invariant == Spec => []Inv
<1>1. Inv /\ [Next]_vars => Inv'
  BY ControlStep, EnvelopesStep, AssetsStep DEF Inv
<1> QED
  BY <1>1, InitInv, PTL DEF Spec

\* Storage keeps its types: no call leaves an amount spent, credited, owed,
\* granted or put in below zero.
THEOREM BudgetTypeCorrect == Spec => []TypeOK
<1>1. ASSUME Inv PROVE TypeOK
  <2>1. \A id \in Allocated : budget[id] \in BudgetRecord
    BY <1>1 DEF Inv, EnvelopesOK, Sound
  <2>2. \A k \in Registered : asset[k] \in AssetBudget
    BY <1>1 DEF Inv, AssetsOK, AssetGood, AssetSound
  <2>3. endowed \in [Addr -> Nat]
    <3>1. ASSUME NEW a \in Addr PROVE endowed[a] \in Nat
      <4>1. /\ OwnedBy(a) \subseteq Allocated /\ IsFiniteSet(OwnedBy(a))
            /\ \A i \in Allocated : LimitOf[i] \in Nat
        BY <1>1, LimitsAreNumbers DEF Inv
      <4>2. SumFunctionOnSet(LimitOf, OwnedBy(a)) \in Nat
        BY <4>1, SumNat
      <4> QED
        BY <1>1, <4>2 DEF Inv, EndowmentsOK, AllocationConserved
    <3> QED
      BY <1>1, <3>1 DEF Inv, EndowmentsOK
  <2> QED
    BY <1>1, <2>1, <2>2, <2>3 DEF Inv, ControlOK, EnvelopesOK, AssetsOK, TypeOK
<1> QED
  BY <1>1, Invariant, PTL

\* However often and whenever windows are settled, by owners or by anyone's
\* read, and whatever is reset, released, re-limited or reallocated, what an
\* envelope has given and can still give is within one limit per period.
THEOREM AllowanceIsNotMinted == Spec => []AllowanceNotMinted
<1>1. ASSUME Inv PROVE AllowanceNotMinted
  <2> SUFFICES ASSUME NEW id \in Allocated \ backdated PROVE Entitled(id)
    BY DEF AllowanceNotMinted
  <2>1. ControlOK /\ EnvelopesOK /\ now \in Nat
    BY <1>1 DEF Inv, ControlOK
  <2>2. /\ Covers(budget[id], used[id], granted[id], now)
        /\ Sound(budget[id], used[id], granted[id])
    BY <2>1 DEF EnvelopesOK
  <2>3. ASSUME NEW b, Sound(b, used[id], granted[id]), Covers(b, used[id], granted[id], now)
        PROVE  used[id] + Open(b) <= granted[id]
    <3>1. /\ used[id] \in Nat /\ granted[id] \in Nat /\ Open(b) \in Int
          /\ b.limit * Lapsed(b, now) \in Nat
      BY <2>1, <2>3, SoundFields
    <3>2. used[id] + Open(b) + b.limit * Lapsed(b, now) <= granted[id]
      BY <2>3 DEF Covers
    <3>3. PICK u \in Nat, g \in Nat, o \in Int, m \in Nat :
            /\ u = used[id] /\ g = granted[id] /\ o = Open(b) /\ m = b.limit * Lapsed(b, now)
      BY <3>1
    <3>4. u + o + m <= g
      BY <3>2, <3>3
    <3> QED
      BY <3>3, <3>4
  <2>4. used[id] + Open(budget[id]) <= granted[id]
    BY <2>2, <2>3
  <2>5. used[id] + Open(Settled(id)) <= granted[id]
    <3>1. /\ Sound(Settled(id), used[id], granted[id])
          /\ Keeps(budget[id], used[id], granted[id], Settled(id), used[id], granted[id], now)
      BY <2>1, SettleFirst
    <3> QED
      BY <2>2, <2>3, <3>1 DEF Keeps
  <2> QED
    BY <2>4, <2>5 DEF Entitled, Open
<1> QED
  BY <1>1, Invariant, PTL

\* Reallocation between envelopes of an owner makes and loses no limit, and
\* no call moves another owner's.
THEOREM LimitsAreConserved == Spec => []AllocationConserved
<1>1. Inv => AllocationConserved
  BY DEF Inv, EndowmentsOK
<1> QED
  BY <1>1, Invariant, PTL

\* A read that happens to settle an envelope at its boundary changes nothing
\* for an envelope that carries everything or nothing.
THEOREM SettlingIsConfluent == Spec => []SettlementConfluent
<1>1. ASSUME Inv PROVE SettlementConfluent
  <2> SUFFICES ASSUME NEW id \in Allocated,
                      IsWindowExpired(budget[id], now), ~ WentIntoDeficit(budget[id]),
                      budget[id].rollover_enabled => budget[id].rollover_bps = BPS
               PROVE  WindowTransition(SettledAtBoundary(budget[id]), now) = Settled(id)
    BY DEF SettlementConfluent
  <2>1. budget[id] \in BudgetRecord /\ budget[id].rollover_bps <= BPS /\ now \in Nat
    BY <1>1 DEF Inv, ControlOK, EnvelopesOK, Sound
  <2> QED
    BY <2>1, LateIsOnTime DEF Settled
<1> QED
  BY <1>1, Invariant, PTL

\* Single spends, batches and settlements together take no more of a
\* per-asset allowance than one limit per registration and window.
THEOREM AssetAllowanceIsNotMinted == Spec => []AssetAllowanceNotMinted
<1>1. ASSUME Inv PROVE AssetAllowanceNotMinted
  <2> SUFFICES ASSUME NEW k \in Registered
               PROVE  assetUsed[k] + AssetOpen(AssetTransition(asset[k], now)) <= assetGranted[k]
    BY DEF AssetAllowanceNotMinted, AssetOpen
  <2> QED
    BY <1>1, AssetSettleFirst DEF Inv
<1> QED
  BY <1>1, Invariant, PTL

=============================================================================
