---------------------------- MODULE WalletProofs ----------------------------
(***************************************************************************)
(* Proofs about the wallet contract: the types of its storage, what custody *)
(* holds behind the wallets' books, that stops, archive and a wired budget  *)
(* are obeyed, and that the rolling windows bound what calls declare.       *)
(***************************************************************************)
EXTENDS Wallet, SumProofs

-----------------------------------------------------------------------------
(* Bucket arithmetic                                                        *)

\* A valid window has buckets of at least a second.
LEMMA BucketOfValidWindow ==
  ASSUME NEW seconds \in Nat, ValidWindow(seconds)
  PROVE  BucketSeconds(seconds) \in Nat \ {0}
<1> USE BucketsAssumption
<1> DEFINE q == seconds \div Buckets
<1>1. q \in Nat /\ seconds < (q + 1) * Buckets
  BY Quotient
<1>2. seconds >= Buckets
  BY DEF ValidWindow
<1>3. q # 0
  <2> HIDE DEF q
  <2>1. ASSUME q = 0 PROVE FALSE
    <3>1. (q + 1) * Buckets = Buckets
      BY <2>1
    <3> QED
      BY <1>1, <1>2, <3>1
  <2> QED
    BY <2>1
<1> QED
  BY <1>1, <1>3 DEF BucketSeconds

\* The times that a span of all buckets but one reaches back to lie in the
\* Buckets buckets that end with the current one.
LEMMA SpanInBuckets ==
  ASSUME NEW time \in Nat, NEW t \in Nat, NEW m \in Nat \ {0}, t <= time,
         t >= time - (Buckets - 1) * m
  PROVE  time \div m - t \div m \in Bucket
<1> USE BucketsAssumption
<1> DEFINE p == t \div m
           q == time \div m
<1>1. p \in Nat /\ q \in Nat /\ q * m <= time /\ t < (p + 1) * m /\ p <= q
  BY Quotient, QuotientMonotonic
<1> HIDE DEF p, q
<1>2. (q - (Buckets - 1)) * m = q * m - (Buckets - 1) * m
  BY <1>1, SMT
<1>3. (q - (Buckets - 1)) * m < (p + 1) * m
  <2>1. q * m \in Int /\ (Buckets - 1) * m \in Int /\ (p + 1) * m \in Int
    BY <1>1
  <2> QED
    BY <1>1, <1>2, <2>1
<1>4. q - (Buckets - 1) < p + 1
  BY <1>1, <1>3, CancelFactor
<1>5. q - p \in 0..(Buckets - 1)
  BY <1>1, <1>4
<1> QED
  BY <1>5 DEF p, q, Bucket

-----------------------------------------------------------------------------
(* What a usage record knows of the history                                 *)

\* The times in bucket b, of m seconds.
InBucket(m, b) == {t \in 0..MaxTime : t \div m = b}

History == [0..MaxTime -> Nat]

\* Each cell is the sum of its bucket, and nothing happened after the record's.
Tracks(cells, bucket, hist, m) ==
  /\ \A i \in Bucket : cells[i] = SumFunctionOnSet(hist, InBucket(m, bucket - i))
  /\ \A t \in 0..MaxTime : t \div m > bucket => hist[t] = 0

\* A window and a bucket hold finitely many instants.
LEMMA TimesFinite ==
  /\ IsFiniteSet(0..MaxTime)
  /\ \A m, b : IsFiniteSet(InBucket(m, b)) /\ InBucket(m, b) \subseteq 0..MaxTime
<1>1. IsFiniteSet(0..MaxTime)
  BY WalletAssumption, FS_Interval
<1>2. ASSUME NEW m, NEW b PROVE IsFiniteSet(InBucket(m, b)) /\ InBucket(m, b) \subseteq 0..MaxTime
  BY <1>1, FS_Subset DEF InBucket
<1> QED
  BY <1>1, <1>2

\* Empty cells track a history in which nothing happened.
LEMMA TracksIdle ==
  ASSUME NEW hist \in History, \A t \in 0..MaxTime : hist[t] = 0, NEW b \in Nat, NEW m
  PROVE  Tracks(Idle, b, hist, m)
<1>1. ASSUME NEW i \in Bucket PROVE SumFunctionOnSet(hist, InBucket(m, b - i)) = 0
  <2>1. IsFiniteSet(InBucket(m, b - i)) /\ \A t \in InBucket(m, b - i) : hist[t] = 0
    BY TimesFinite
  <2> QED
    BY <2>1, SumZero
<1> QED
  BY <1>1 DEF Tracks, Idle

\* Shifting cells yields cells.
LEMMA AgedTyped ==
  ASSUME NEW cells \in [Bucket -> Nat], NEW shift \in Nat
  PROVE  Aged(cells, shift) \in [Bucket -> Nat]
<1>1. ASSUME NEW i \in Bucket, i >= shift PROVE i - shift \in Bucket
  BY <1>1, BucketsAssumption DEF Bucket
<1> QED
  BY <1>1 DEF Aged

\* Cells that track a history track it after the window has moved on.
LEMMA TracksAged ==
  ASSUME NEW hist \in History, NEW m \in Nat \ {0}, NEW b \in Nat, NEW c \in Nat, b <= c,
         NEW cells \in [Bucket -> Nat], Tracks(cells, b, hist, m)
  PROVE  Tracks(Aged(cells, c - b), c, hist, m)
<1> USE BucketsAssumption
<1>0. \A i \in Bucket : i \in Nat
  BY DEF Bucket
<1>1. ASSUME NEW i \in Bucket
      PROVE  Aged(cells, c - b)[i] = SumFunctionOnSet(hist, InBucket(m, c - i))
  <2>1. CASE i >= c - b
    <3>1. i - (c - b) \in Bucket /\ b - (i - (c - b)) = c - i
      BY <2>1 DEF Bucket
    <3>2. cells[i - (c - b)] = SumFunctionOnSet(hist, InBucket(m, b - (i - (c - b))))
      BY <3>1 DEF Tracks
    <3> QED
      BY <2>1, <3>1, <3>2 DEF Aged
  <2>2. CASE ~ (i >= c - b)
    <3>1. c - i > b
      BY <1>0, <2>2
    <3>2. ASSUME NEW t \in InBucket(m, c - i) PROVE hist[t] = 0
      <4>1. t \in 0..MaxTime /\ t \div m = c - i
        BY DEF InBucket
      <4> QED
        BY <3>1, <4>1 DEF Tracks
    <3>3. SumFunctionOnSet(hist, InBucket(m, c - i)) = 0
      BY <3>2, TimesFinite, SumZero
    <3> QED
      BY <2>2, <3>3 DEF Aged
  <2> QED
    BY <2>1, <2>2
<1>2. ASSUME NEW t \in 0..MaxTime, t \div m > c PROVE hist[t] = 0
  <2>1. t \in Nat
    BY WalletAssumption
  <2>2. t \div m \in Nat
    BY <2>1, Quotient
  <2>3. t \div m > b
    BY <1>2, <2>2
  <2> QED
    BY <2>3 DEF Tracks
<1> QED
  BY <1>1, <1>2 DEF Tracks

\* An amount added to the current cell and to the current time.
LEMMA TracksCharged ==
  ASSUME NEW hist \in History, NEW m \in Nat \ {0}, NEW time \in 0..MaxTime, NEW n \in Nat,
         NEW cells \in [Bucket -> Nat], Tracks(cells, time \div m, hist, m),
         NEW more \in [Bucket -> Nat],
         \A i \in Bucket : more[i] = IF i = 0 THEN cells[i] + n ELSE cells[i],
         NEW later \in History,
         \A t \in 0..MaxTime : later[t] = IF t = time THEN hist[t] + n ELSE hist[t]
  PROVE  Tracks(more, time \div m, later, m)
<1> USE BucketsAssumption
<1> DEFINE b == time \div m
<1>0. b \in Nat /\ time \in Nat /\ 0 \in Bucket /\ \A i \in Bucket : i \in Nat
  <2>1. time \in Nat
    BY WalletAssumption
  <2>2. b \in Nat
    BY <2>1, Quotient
  <2>3. 0 \in Bucket /\ \A i \in Bucket : i \in Nat
    BY DEF Bucket
  <2> QED
    BY <2>1, <2>2, <2>3
<1> HIDE DEF b
<1>3. \A t \in 0..MaxTime : t # time => later[t] = hist[t]
  BY DEF History
<1>1. ASSUME NEW i \in Bucket PROVE more[i] = SumFunctionOnSet(later, InBucket(m, b - i))
  <2> DEFINE T == InBucket(m, b - i)
  <2>0. /\ IsFiniteSet(T) /\ \A t \in T : t \in 0..MaxTime
        /\ cells[i] = SumFunctionOnSet(hist, T)
        /\ time \in T <=> b = b - i
    <3>1. time \in T <=> b = b - i
      BY DEF InBucket, b
    <3>2. cells[i] = SumFunctionOnSet(hist, T)
      BY DEF Tracks, b
    <3>3. IsFiniteSet(T) /\ \A t \in T : t \in 0..MaxTime
      BY TimesFinite
    <3> QED
      BY <3>1, <3>2, <3>3
  <2>1. \A t \in T : hist[t] \in Int /\ later[t] \in Int
    BY <2>0 DEF History
  <2>4. IsFiniteSet(T)
    BY <2>0
  <2> HIDE DEF T
  <2>2. CASE i = 0
    <3>1. time \in T
      BY <1>0, <2>0, <2>2
    <3>2. \A t \in T \ {time} : later[t] = hist[t]
      BY <1>3, <2>0
    <3>3. SumFunctionOnSet(later, T) = SumFunctionOnSet(hist, T) + later[time] - hist[time]
      <4>1. AgreeBut(hist, later, T, time)
        BY <2>1, <3>1, <3>2 DEF AgreeBut
      <4> QED
        BY <2>4, <4>1, SumAgreeing
    <3>4. later[time] = hist[time] + n /\ hist[time] \in Nat
      BY DEF History
    <3>5. more[i] = cells[i] + n /\ cells[i] \in Nat
      BY <2>2
    <3> QED
      BY <2>0, <3>3, <3>4, <3>5 DEF T
  <2>3. CASE i # 0
    <3>1. time \notin T
      BY <1>0, <2>0, <2>3
    <3>2. \A t \in T : later[t] = hist[t]
      BY <1>3, <2>0, <3>1
    <3>3. SumFunctionOnSet(later, T) = SumFunctionOnSet(hist, T)
      BY <2>4, <3>2, SumSame
    <3>4. more[i] = cells[i]
      BY <2>3
    <3> QED
      BY <2>0, <3>3, <3>4 DEF T
  <2> QED
    BY <2>2, <2>3
<1>2. ASSUME NEW t \in 0..MaxTime, t \div m > b PROVE later[t] = 0
  <2>1. t # time
    BY <1>0, <1>2 DEF b
  <2>2. hist[t] = 0
    BY <1>2 DEF Tracks, b
  <2> QED
    BY <2>1, <2>2 DEF History
<1> QED
  BY <1>1, <1>2 DEF Tracks, b

\* The cells together cover the span of all buckets but one that ends now.
LEMMA TracksTotal ==
  ASSUME NEW hist \in History, NEW m \in Nat \ {0}, NEW time \in 0..MaxTime,
         NEW cells \in [Bucket -> Nat], Tracks(cells, time \div m, hist, m)
  PROVE  SumFunctionOnSet(hist, {t \in 0..time : t >= time - (Buckets - 1) * m}) <= CellsSum(cells)
<1> USE BucketsAssumption
<1> DEFINE b == time \div m
           Span == {t \in 0..time : t >= time - (Buckets - 1) * m}
           S == {t \in 0..MaxTime : b - t \div m \in Bucket}
           g == [t \in S |-> b - t \div m]
<1>1. b \in Nat /\ time \in Nat /\ MaxTime \in Nat /\ time <= MaxTime
  BY WalletAssumption, Quotient
<1>2. Span \subseteq S
  <2> SUFFICES ASSUME NEW t \in Span PROVE t \in S
    OBVIOUS
  <2>1. t \in 0..MaxTime /\ t \in Nat /\ t <= time /\ t >= time - (Buckets - 1) * m
    BY <1>1
  <2> QED
    BY <1>1, <2>1, SpanInBuckets
<1>3. IsFiniteSet(S) /\ IsFiniteSet(Bucket) /\ g \in [S -> Bucket]
  <2>1. IsFiniteSet(Bucket)
    BY FS_Interval DEF Bucket
  <2>2. IsFiniteSet(S)
    BY TimesFinite, FS_Subset
  <2>3. g \in [S -> Bucket]
    OBVIOUS
  <2> QED
    BY <2>1, <2>2, <2>3
<1>4. \A x \in S : hist[x] \in Nat
  BY DEF History
<1>5. ASSUME NEW i \in Bucket PROVE cells[i] = SumFunctionOnSet(hist, {t \in S : g[t] = i})
  <2> DEFINE T == {t \in S : g[t] = i}
             U == InBucket(m, b - i)
  <2>1. T = U
    <3>1. ASSUME NEW t \in 0..MaxTime PROVE t \in T <=> t \in U
      <4>1. t \div m \in Nat /\ i \in Nat
        BY <1>1, Quotient DEF Bucket
      <4>2. t \div m = b - i <=> b - t \div m = i
        BY <1>1, <4>1
      <4>3. t \in U <=> t \div m = b - i
        BY DEF InBucket
      <4>4. t \in T <=> b - t \div m = i
        OBVIOUS
      <4> QED
        BY <4>2, <4>3, <4>4
    <3>2. T \subseteq 0..MaxTime /\ U \subseteq 0..MaxTime
      BY DEF InBucket
    <3> HIDE DEF T, U
    <3> QED
      BY <3>1, <3>2
  <2>2. cells[i] = SumFunctionOnSet(hist, U)
    BY DEF Tracks
  <2> HIDE DEF T, U
  <2>3. cells[i] = SumFunctionOnSet(hist, T)
    BY <2>1, <2>2
  <2> QED
    BY <2>3 DEF T
<1> HIDE DEF S, g, Span, b
<1>6. SumFunctionOnSet(cells, Bucket) = SumFunctionOnSet(hist, S)
  <2>1. \A x \in S : hist[x] \in Int
    BY <1>4
  <2> QED
    BY <1>3, <1>5, <2>1, SumGroups
<1>7. SumFunctionOnSet(hist, Span) <= SumFunctionOnSet(hist, S)
  BY <1>2, <1>3, <1>4, SumOfPart
<1> QED
  BY <1>6, <1>7 DEF Span, CellsSum

-----------------------------------------------------------------------------
(* Velocity records                                                         *)

\* The times VelocityHeld and RateHeld look back to from a time.
Span(m, time) == {t \in 0..time : t >= time - (Buckets - 1) * m}

\* What a velocity record knows of the history under its limit.
VelocityKnown(stored, hist, m, time) ==
  /\ stored = Unset => \A t \in 0..MaxTime : hist[t] = 0
  /\ stored # Unset =>
       stored.bucket <= time \div m /\ Tracks(stored.spent, stored.bucket, hist, m)

\* The later history, with n more at the time.
Adds(later, hist, time, n) ==
  /\ later \in History
  /\ \A t \in 0..MaxTime : later[t] = IF t = time THEN hist[t] + n ELSE hist[t]

\* The sum of charged cells.
LEMMA ChargedCells ==
  ASSUME NEW cells \in [Bucket -> Nat], NEW n \in Nat, NEW more,
         more = [cells EXCEPT ![0] = @ + n]
  PROVE  /\ more \in [Bucket -> Nat]
         /\ \A i \in Bucket : more[i] = IF i = 0 THEN cells[i] + n ELSE cells[i]
         /\ CellsSum(more) = CellsSum(cells) + n /\ CellsSum(cells) \in Nat
<1>1. 0 \in Bucket /\ IsFiniteSet(Bucket)
  BY BucketsAssumption, FS_Interval DEF Bucket
<1>2. /\ more \in [Bucket -> Nat]
      /\ \A i \in Bucket : more[i] = IF i = 0 THEN cells[i] + n ELSE cells[i]
  BY <1>1
<1>3. PICK g : g = more
  OBVIOUS
<1>4. /\ g \in [Bucket -> Nat]
      /\ \A i \in Bucket : g[i] = IF i = 0 THEN cells[i] + n ELSE cells[i]
  BY <1>2, <1>3
<1>5. \A i \in Bucket : cells[i] \in Int /\ g[i] \in Int
  BY <1>4
<1>6. \A i \in Bucket \ {0} : g[i] = cells[i]
  BY <1>4
<1>7. SumFunctionOnSet(g, Bucket) = SumFunctionOnSet(cells, Bucket) + g[0] - cells[0]
  <2>1. AgreeBut(cells, g, Bucket, 0)
    BY <1>1, <1>5, <1>6 DEF AgreeBut
  <2> QED
    BY <1>1, <2>1, SumAgreeing
<1>8. SumFunctionOnSet(cells, Bucket) \in Nat
  BY <1>1, SumNat
<1>9. g[0] = cells[0] + n /\ cells[0] \in Nat
  BY <1>1, <1>4
<1>10. SumFunctionOnSet(g, Bucket) = SumFunctionOnSet(cells, Bucket) + n
  BY <1>7, <1>8, <1>9
<1> QED
  BY <1>2, <1>3, <1>8, <1>10 DEF CellsSum

\* Charged cells track the later history, and bound what the span carries.
LEMMA ChargedTracks ==
  ASSUME NEW m \in Nat \ {0}, NEW time \in 0..MaxTime, NEW n \in Nat, NEW hist \in History,
         NEW cells \in [Bucket -> Nat], Tracks(cells, time \div m, hist, m),
         NEW later, Adds(later, hist, time, n),
         NEW more, more = [cells EXCEPT ![0] = @ + n]
  PROVE  /\ more \in [Bucket -> Nat] /\ Tracks(more, time \div m, later, m)
         /\ SumFunctionOnSet(later, Span(m, time)) \in Int /\ CellsSum(cells) + n \in Nat
         /\ SumFunctionOnSet(later, Span(m, time)) <= CellsSum(cells) + n
<1>1. /\ more \in [Bucket -> Nat]
      /\ \A i \in Bucket : more[i] = IF i = 0 THEN cells[i] + n ELSE cells[i]
      /\ CellsSum(more) = CellsSum(cells) + n /\ CellsSum(cells) \in Nat
  BY ChargedCells
<1>2. PICK g : g = more
  OBVIOUS
<1>3. /\ g \in [Bucket -> Nat]
      /\ \A i \in Bucket : g[i] = IF i = 0 THEN cells[i] + n ELSE cells[i]
  BY <1>1, <1>2
<1>4. later \in History /\ \A t \in 0..MaxTime : later[t] = IF t = time THEN hist[t] + n ELSE hist[t]
  BY DEF Adds
<1>5. Tracks(g, time \div m, later, m)
  BY <1>3, <1>4, TracksCharged
<1>6. SumFunctionOnSet(later, Span(m, time)) <= CellsSum(g)
  BY <1>3, <1>4, <1>5, TracksTotal DEF Span
<1>7. SumFunctionOnSet(later, Span(m, time)) \in Int
  <2>1. IsFiniteSet(Span(m, time)) /\ \A t \in Span(m, time) : later[t] \in Int
    <3>1. Span(m, time) \subseteq 0..MaxTime
      BY WalletAssumption DEF Span
    <3>2. \A t \in 0..MaxTime : later[t] \in Int
      BY <1>4 DEF History
    <3> QED
      BY <3>1, <3>2, TimesFinite, FS_Subset
  <2> QED
    BY <2>1, SumInt
<1> QED
  BY <1>1, <1>2, <1>5, <1>6, <1>7

\* The bucket the code works in is that of the clock.
LEMMA CurrentBucketIsNow ==
  ASSUME NEW stored, NEW seconds \in Nat, ValidWindow(seconds), NEW time \in 0..MaxTime,
         stored # Unset => stored.bucket \in Nat /\ stored.bucket <= time \div BucketSeconds(seconds)
  PROVE  CurrentBucket(stored, seconds, time) = time \div BucketSeconds(seconds)
<1>1. time \in Nat /\ BucketSeconds(seconds) \in Nat \ {0}
  BY WalletAssumption, BucketOfValidWindow
<1>2. time \div BucketSeconds(seconds) \in Nat
  BY <1>1, Quotient
<1> QED
  BY <1>2 DEF CurrentBucket

\* Rolled to the time, a velocity record still tells the history.
LEMMA RolledVelocity ==
  ASSUME NEW limit \in VelocityLimit, ValidWindow(limit.window_seconds),
         NEW stored \in VelocityUsage \cup {Unset}, NEW hist \in History, NEW time \in 0..MaxTime,
         NEW m, m = BucketSeconds(limit.window_seconds), VelocityKnown(stored, hist, m, time)
  PROVE  \E b, cells :
           /\ RolledVelocityUsage(stored, limit, time) = [bucket |-> b, spent |-> cells]
           /\ b \in Nat /\ b = time \div m
           /\ cells \in [Bucket -> Nat] /\ Tracks(cells, b, hist, m)
<1>1. limit.window_seconds \in Nat
  BY DEF VelocityLimit
<1>2. m \in Nat \ {0} /\ time \in Nat
  BY <1>1, WalletAssumption, BucketOfValidWindow
<1>3. PICK b : b = time \div m
  OBVIOUS
<1>4. b \in Nat
  BY <1>2, <1>3, Quotient
<1>5. stored # Unset => /\ stored.bucket \in Nat /\ stored.spent \in [Bucket -> Nat]
                        /\ stored.bucket <= b /\ Tracks(stored.spent, stored.bucket, hist, m)
  BY <1>3 DEF VelocityKnown, VelocityUsage
<1>6. CurrentBucket(stored, limit.window_seconds, time) = b
  BY <1>1, <1>3, <1>5, CurrentBucketIsNow
<1>7. CASE stored = Unset
  <2>1. RolledVelocityUsage(stored, limit, time) = [bucket |-> b, spent |-> Idle]
    BY <1>6, <1>7 DEF RolledVelocityUsage
  <2>2. Idle \in [Bucket -> Nat] /\ Tracks(Idle, b, hist, m)
    BY <1>4, <1>7, TracksIdle DEF VelocityKnown, Idle
  <2> QED
    BY <1>3, <1>4, <2>1, <2>2
<1>8. CASE stored # Unset
  <2>1. PICK cells : cells = Aged(stored.spent, b - stored.bucket)
    OBVIOUS
  <2>2. RolledVelocityUsage(stored, limit, time) = [bucket |-> b, spent |-> cells]
    BY <1>6, <1>8, <2>1 DEF RolledVelocityUsage
  <2>3. b - stored.bucket \in Nat
    BY <1>4, <1>5, <1>8
  <2>4. cells \in [Bucket -> Nat]
    BY <1>5, <1>8, <2>1, <2>3, AgedTyped
  <2>5. Tracks(cells, b, hist, m)
    BY <1>2, <1>4, <1>5, <1>8, <2>1, TracksAged
  <2> QED
    BY <1>3, <1>4, <2>2, <2>4, <2>5
<1> QED
  BY <1>7, <1>8

\* A charge within the limit is known afterwards, and leaves the span within it.
LEMMA ChargedVelocityKnown ==
  ASSUME NEW limit \in VelocityLimit, ValidWindow(limit.window_seconds),
         NEW stored \in VelocityUsage \cup {Unset}, NEW hist \in History, NEW time \in 0..MaxTime,
         NEW m, m = BucketSeconds(limit.window_seconds), VelocityKnown(stored, hist, m, time),
         NEW n \in Nat, NEW later, Adds(later, hist, time, n),
         WithinVelocity(limit, RolledVelocityUsage(stored, limit, time), n),
         NEW u, u = ChargedVelocity(RolledVelocityUsage(stored, limit, time), n)
  PROVE  /\ u \in VelocityUsage /\ VelocityKnown(u, later, m, time)
         /\ SumFunctionOnSet(later, Span(m, time)) <= limit.max_amount
<1>1. m \in Nat \ {0} /\ limit.max_amount \in Nat
  BY BucketOfValidWindow DEF VelocityLimit
<1>2. PICK b, cells :
        /\ RolledVelocityUsage(stored, limit, time) = [bucket |-> b, spent |-> cells]
        /\ b \in Nat /\ b = time \div m
        /\ cells \in [Bucket -> Nat] /\ Tracks(cells, b, hist, m)
  BY RolledVelocity
<1>3. PICK more : more = [cells EXCEPT ![0] = @ + n]
  OBVIOUS
<1>4. u = [bucket |-> b, spent |-> more]
  BY <1>2, <1>3 DEF ChargedVelocity
<1>5. /\ more \in [Bucket -> Nat] /\ Tracks(more, b, later, m)
      /\ SumFunctionOnSet(later, Span(m, time)) \in Int /\ CellsSum(cells) + n \in Nat
      /\ SumFunctionOnSet(later, Span(m, time)) <= CellsSum(cells) + n
  BY <1>1, <1>2, <1>3, ChargedTracks, ZenonT(60)
<1>6. u \in VelocityUsage
  BY <1>2, <1>4, <1>5 DEF VelocityUsage
<1>7. VelocityKnown(u, later, m, time)
  <2>1. u.bucket = b /\ u.spent = more /\ u # Unset
    BY <1>4, <1>6, UnsetIsNoRecord
  <2> QED
    BY <1>2, <1>5, <2>1 DEF VelocityKnown
<1>8. CellsSum(cells) + n <= limit.max_amount
  BY <1>2 DEF WithinVelocity, VelocityTotal
<1> QED
  BY <1>1, <1>5, <1>6, <1>7, <1>8

-----------------------------------------------------------------------------
(* Rate records                                                             *)

Issue == [volume: Nat, count: Nat, taken: Nat]
Issues == [0..MaxTime -> Issue]

\* What a rate record knows of the history under its limit.
RateKnown(stored, hist, m, time) ==
  /\ stored = Unset => \A t \in 0..MaxTime : hist[t].volume = 0 /\ hist[t].count = 0
  /\ stored # Unset =>
       /\ stored.bucket <= time \div m
       /\ Tracks(stored.volume, stored.bucket, Volume(hist), m)
       /\ Tracks(stored.count, stored.bucket, Count(hist), m)

\* The volumes, the counts and the tokens of a history of issues.
LEMMA IssuesTyped ==
  ASSUME NEW hist \in Issues
  PROVE  /\ Volume(hist) \in History /\ Count(hist) \in History /\ Tokens(hist) \in History
         /\ \A t \in 0..MaxTime : Volume(hist)[t] = hist[t].volume /\ Count(hist)[t] = hist[t].count
  BY DEF Issues, Issue, Volume, Count, Tokens, History

\* A rate record rolled to the time.
RateRolled(r, hist, m, time) ==
  \E b, vols, counts :
    /\ r = [bucket |-> b, volume |-> vols, count |-> counts]
    /\ b \in Nat /\ b = time \div m
    /\ vols \in [Bucket -> Nat] /\ Tracks(vols, b, Volume(hist), m)
    /\ counts \in [Bucket -> Nat] /\ Tracks(counts, b, Count(hist), m)

\* Rolled to the time, a rate record still tells the history.
LEMMA RolledRate ==
  ASSUME NEW terms \in RateLimitConfig, ValidWindow(terms.window_seconds),
         NEW stored \in RateUsage \cup {Unset}, NEW hist \in Issues, NEW time \in 0..MaxTime,
         NEW m, m = BucketSeconds(terms.window_seconds), RateKnown(stored, hist, m, time)
  PROVE  RateRolled(RolledRateUsage(stored, terms, time), hist, m, time)
<1>1. terms.window_seconds \in Nat
  BY DEF RateLimitConfig
<1>2. m \in Nat \ {0} /\ time \in Nat
  BY <1>1, WalletAssumption, BucketOfValidWindow
<1>3. PICK b : b = time \div m
  OBVIOUS
<1>4. b \in Nat
  BY <1>2, <1>3, Quotient
<1>5. stored # Unset => /\ stored.bucket \in Nat /\ stored.bucket <= b
                        /\ stored.volume \in [Bucket -> Nat] /\ stored.count \in [Bucket -> Nat]
                        /\ Tracks(stored.volume, stored.bucket, Volume(hist), m)
                        /\ Tracks(stored.count, stored.bucket, Count(hist), m)
  BY <1>3 DEF RateKnown, RateUsage
<1>6. CurrentBucket(stored, terms.window_seconds, time) = b
  BY <1>1, <1>3, <1>5, CurrentBucketIsNow
<1>7. PICK vh, ch : vh = Volume(hist) /\ ch = Count(hist)
  OBVIOUS
<1>8. /\ vh \in History /\ ch \in History
      /\ \A t \in 0..MaxTime : vh[t] = hist[t].volume /\ ch[t] = hist[t].count
  BY <1>7, IssuesTyped
<1>9. CASE stored = Unset
  <2>1. RolledRateUsage(stored, terms, time) = [bucket |-> b, volume |-> Idle, count |-> Idle]
    BY <1>6, <1>9 DEF RolledRateUsage
  <2>2. \A t \in 0..MaxTime : vh[t] = 0 /\ ch[t] = 0
    BY <1>8, <1>9 DEF RateKnown
  <2>3. Idle \in [Bucket -> Nat] /\ Tracks(Idle, b, vh, m) /\ Tracks(Idle, b, ch, m)
    BY <1>4, <1>8, <2>2, TracksIdle DEF Idle
  <2> QED
    BY <1>3, <1>4, <1>7, <2>1, <2>3 DEF RateRolled
<1>10. CASE stored # Unset
  <2>1. PICK vols, counts : /\ vols = Aged(stored.volume, b - stored.bucket)
                            /\ counts = Aged(stored.count, b - stored.bucket)
    OBVIOUS
  <2>2. RolledRateUsage(stored, terms, time) = [bucket |-> b, volume |-> vols, count |-> counts]
    BY <1>6, <1>10, <2>1 DEF RolledRateUsage
  <2>3. b - stored.bucket \in Nat
    BY <1>4, <1>5, <1>10
  <2>4. vols \in [Bucket -> Nat] /\ counts \in [Bucket -> Nat]
    BY <1>5, <1>10, <2>1, <2>3, AgedTyped
  <2>5. Tracks(vols, b, vh, m)
    BY <1>2, <1>4, <1>5, <1>7, <1>8, <1>10, <2>1, TracksAged
  <2>6. Tracks(counts, b, ch, m)
    BY <1>2, <1>4, <1>5, <1>7, <1>8, <1>10, <2>1, TracksAged
  <2> QED
    BY <1>3, <1>4, <1>7, <2>2, <2>4, <2>5, <2>6 DEF RateRolled
<1> QED
  BY <1>9, <1>10

\* A charge within the caps is known afterwards, and leaves the span within them.
LEMMA ChargedRateKnown ==
  ASSUME NEW terms \in RateLimitConfig, ValidWindow(terms.window_seconds),
         NEW stored \in RateUsage \cup {Unset}, NEW hist \in Issues, NEW time \in 0..MaxTime,
         NEW m, m = BucketSeconds(terms.window_seconds), RateKnown(stored, hist, m, time),
         NEW amount \in Nat, NEW n \in Nat, NEW later \in Issues,
         Adds(Volume(later), Volume(hist), time, amount), Adds(Count(later), Count(hist), time, n),
         WithinRate(terms, RolledRateUsage(stored, terms, time), amount, n),
         NEW u, u = ChargedRate(RolledRateUsage(stored, terms, time), amount, n)
  PROVE  /\ u \in RateUsage /\ RateKnown(u, later, m, time)
         /\ \/ terms.max_volume = 0
            \/ SumFunctionOnSet(Volume(later), Span(m, time)) <= terms.max_volume
         /\ \/ terms.max_count = 0
            \/ SumFunctionOnSet(Count(later), Span(m, time)) <= terms.max_count
<1>1. m \in Nat \ {0} /\ terms.max_volume \in Nat /\ terms.max_count \in Nat
  BY BucketOfValidWindow DEF RateLimitConfig
<1>2. PICK b, vols, counts :
        /\ RolledRateUsage(stored, terms, time) = [bucket |-> b, volume |-> vols, count |-> counts]
        /\ b \in Nat /\ b = time \div m
        /\ vols \in [Bucket -> Nat] /\ Tracks(vols, b, Volume(hist), m)
        /\ counts \in [Bucket -> Nat] /\ Tracks(counts, b, Count(hist), m)
  <2>1. RateRolled(RolledRateUsage(stored, terms, time), hist, m, time)
    BY RolledRate
  <2> QED
    BY <2>1 DEF RateRolled
<1>3. PICK vmore, cmore : vmore = [vols EXCEPT ![0] = @ + amount] /\ cmore = [counts EXCEPT ![0] = @ + n]
  OBVIOUS
<1>4. u = [bucket |-> b, volume |-> vmore, count |-> cmore]
  BY <1>2, <1>3 DEF ChargedRate
<1>5. Volume(hist) \in History /\ Count(hist) \in History
  BY IssuesTyped
<1>6. /\ vmore \in [Bucket -> Nat] /\ Tracks(vmore, b, Volume(later), m)
      /\ SumFunctionOnSet(Volume(later), Span(m, time)) \in Int /\ CellsSum(vols) + amount \in Nat
      /\ SumFunctionOnSet(Volume(later), Span(m, time)) <= CellsSum(vols) + amount
  BY <1>1, <1>2, <1>3, <1>5, ChargedTracks, ZenonT(60)
<1>7. /\ cmore \in [Bucket -> Nat] /\ Tracks(cmore, b, Count(later), m)
      /\ SumFunctionOnSet(Count(later), Span(m, time)) \in Int /\ CellsSum(counts) + n \in Nat
      /\ SumFunctionOnSet(Count(later), Span(m, time)) <= CellsSum(counts) + n
  BY <1>1, <1>2, <1>3, <1>5, ChargedTracks, ZenonT(60)
<1>8. u \in RateUsage
  BY <1>2, <1>4, <1>6, <1>7 DEF RateUsage
<1>9. RateKnown(u, later, m, time)
  <2>1. u.bucket = b /\ u.volume = vmore /\ u.count = cmore /\ u # Unset
    BY <1>4, <1>8, UnsetIsNoRecord
  <2> QED
    BY <1>2, <1>6, <1>7, <2>1 DEF RateKnown
<1>10. /\ terms.max_count = 0 \/ CellsSum(counts) + n <= terms.max_count
       /\ terms.max_volume = 0 \/ CellsSum(vols) + amount <= terms.max_volume
  BY <1>2 DEF WithinRate
<1> QED
  BY <1>1, <1>6, <1>7, <1>8, <1>9, <1>10

-----------------------------------------------------------------------------
(* The inductive invariant                                                  *)

ControlOK ==
  /\ now \in 0..MaxTime
  /\ config \in Config \cup {Unset}
  /\ assetId \subseteq Asset
  /\ bypass \subseteq WalletId
  /\ moves \in 0..MaxMoves /\ settings \in 0..MaxSettings

\* There is no wallet before the contract is initialized.
AccessOK ==
  /\ wallet \in Seq(WalletData) /\ Len(wallet) <= MaxWallets
  /\ role \in [WalletId -> [Addr -> Role \cup {Unset}]]
  /\ Len(wallet) # 0 => config \in Config

\* A velocity limit, its usage record and its history: no window is 0, usage is
\* not kept without a limit, and the record knows the history.
VelocityEntry(limit, stored, hist, time) ==
  /\ limit # Unset => ValidWindow(limit.window_seconds)
  /\ limit = Unset => stored = Unset
  /\ VelocityKnown(stored, hist, BucketSeconds(limit.window_seconds), time)

VelocityOK ==
  /\ velocity \in [WalletId -> [Asset -> VelocityLimit \cup {Unset}]]
  /\ spent \in [WalletId -> [Asset -> VelocityUsage \cup {Unset}]]
  /\ authorized \in [WalletId -> [Asset -> History]]
  /\ taken \in [WalletId -> [Asset -> History]]
  /\ \A w \in WalletId, a \in Asset :
       VelocityEntry(velocity[w][a], spent[w][a], authorized[w][a], now)

\* The same of a rate limit.
RateEntry(terms, stored, hist, time) ==
  /\ terms # Unset => ValidWindow(terms.window_seconds)
  /\ terms = Unset => stored = Unset
  /\ RateKnown(stored, hist, BucketSeconds(terms.window_seconds), time)

RateOK ==
  /\ rate \in [WalletId -> RateLimitConfig \cup {Unset}]
  /\ used \in [WalletId -> RateUsage \cup {Unset}]
  /\ issued \in [WalletId -> Issues]
  /\ \A w \in WalletId : RateEntry(rate[w], used[w], issued[w], now)

FundsOK ==
  /\ balance \in [WalletId -> [Asset -> Nat]]
  /\ drift \in [WalletId -> [Asset -> Nat]]
  /\ custody \in [Asset -> Nat]
  /\ consumed \in [Envelope -> Nat]

Inv == ControlOK /\ AccessOK /\ VelocityOK /\ RateOK /\ FundsOK /\ BooksExplainCustody

\* The invariant includes the types.
LEMMA InvTyped == Inv => TypeOK
<1> SUFFICES ASSUME Inv PROVE TypeOK
  OBVIOUS
<1>1. \A w \in WalletId : rate[w] # Unset => ValidWindow(rate[w].window_seconds)
  BY DEF Inv, RateOK, RateEntry
<1>2. /\ velocity \in [WalletId -> [Asset -> VelocityLimit \cup {Unset}]]
      /\ spent \in [WalletId -> [Asset -> VelocityUsage \cup {Unset}]]
      /\ authorized \in [WalletId -> [Asset -> [0..MaxTime -> Nat]]]
      /\ taken \in [WalletId -> [Asset -> [0..MaxTime -> Nat]]]
  BY DEF Inv, VelocityOK, History
<1>3. /\ rate \in [WalletId -> RateLimitConfig \cup {Unset}]
      /\ used \in [WalletId -> RateUsage \cup {Unset}]
      /\ issued \in [WalletId -> [0..MaxTime -> [volume: Nat, count: Nat, taken: Nat]]]
  BY DEF Inv, RateOK, Issues, Issue
<1> QED
  BY <1>1, <1>2, <1>3 DEF Inv, ControlOK, AccessOK, FundsOK, TypeOK

\* Every wallet has an id and a record.
LEMMA WalletIds ==
  ASSUME AccessOK, NEW w \in DOMAIN wallet
  PROVE  w \in WalletId /\ wallet[w] \in WalletData /\ config \in Config
<1>1. DOMAIN wallet = 1..Len(wallet) /\ Len(wallet) \in Nat
  BY DEF AccessOK
<1>2. w \in 1..Len(wallet) /\ Len(wallet) # 0
  BY <1>1
<1> QED
  BY <1>1, <1>2, WalletAssumption DEF AccessOK, WalletId

\* What a write to one entry of a table of tables leaves.
LEMMA TableWrite ==
  ASSUME NEW A, NEW B, NEW C, NEW f \in [A -> [B -> C]], NEW a \in A, NEW b \in B, NEW c \in C,
         NEW g, g = [f EXCEPT ![a][b] = c]
  PROVE  /\ g \in [A -> [B -> C]]
         /\ \A x \in A, y \in B : g[x][y] = IF x = a /\ y = b THEN c ELSE f[x][y]
  OBVIOUS

-----------------------------------------------------------------------------
(* Control and access                                                       *)

\* An administrative call moves no money and touches no wallet.
LEMMA AdminFrame ==
  ASSUME NEW caller \in Addr, Admin(caller)
  PROVE  Administered /\ Initialized /\ UNCHANGED <<now, access, limits, funds>>
  BY DEF Admin, SetGuardian, EmergencyPause, EmergencyUnpause, SetPolicy, ClearPolicy,
         SetBudget, SetRegistry, SetOrg, SetDefaultBudgetId, ClearDefaultBudgetId,
         SetPolicyBypass, SetAssetBudgetId, ClearAssetBudgetId, Configure,
         RequireAdmin, RequireGuardianOrAdmin

\* Managing a wallet moves no money and leaves the wiring alone.
LEMMA ManageFrame ==
  ASSUME NEW caller \in Addr, NEW w, Manage(caller, w)
  PROVE  Administered /\ UNCHANGED <<now, wiring, funds>>
  BY DEF Manage, Freeze, Unfreeze, Pause, Unpause, Archive, GoesTo, GrantRole, RevokeRole,
         SetVelocityLimit, ClearVelocityLimit, SetRateLimit, ClearRateLimit

\* Moving money leaves wiring, access and limits alone.
LEMMA MoveFrame ==
  ASSUME NEW w, Move(w)
  PROVE  Moved /\ UNCHANGED <<now, wiring, access, velocity, rate, settings>>
  BY ZenonT(60)
     DEF Move, Deposit, Transfer, Withdraw, Spend, BatchExecuteValidated, limits

\* The configuration stays well formed.
LEMMA ConfigStep ==
  ASSUME ControlOK, NEW caller \in Addr, Admin(caller)
  PROVE  config' \in Config /\ assetId' \subseteq Asset /\ bypass' \subseteq WalletId
<1>1. config \in Config
  BY AdminFrame DEF Initialized, ControlOK
<1>2. assetId \subseteq Asset /\ bypass \subseteq WalletId
  BY DEF ControlOK
<1>3. ASSUME NEW c \in Config, Configure(c) PROVE config' \in Config /\ assetId' = assetId /\ bypass' = bypass
  BY <1>3 DEF Configure
<1>4. ASSUME NEW a \in Addr, SetGuardian(caller, a)
      PROVE  config' \in Config /\ assetId' = assetId /\ bypass' = bypass
  <2>1. [config EXCEPT !.guardian = a] \in Config
    BY <1>1 DEF Config
  <2> QED
    BY <1>3, <1>4, <2>1 DEF SetGuardian
<1>5. \A flag \in BOOLEAN :
        /\ [config EXCEPT !.paused = flag] \in Config
        /\ [config EXCEPT !.policy = flag] \in Config
        /\ [config EXCEPT !.budget = flag] \in Config
        /\ [config EXCEPT !.registry = flag] \in Config
        /\ [config EXCEPT !.org = flag] \in Config
        /\ [config EXCEPT !.default_id = flag] \in Config
  BY <1>1 DEF Config
<1>6. TRUE \in BOOLEAN /\ FALSE \in BOOLEAN
  OBVIOUS
<1>7. ASSUME \/ EmergencyPause(caller) \/ EmergencyUnpause(caller)
             \/ SetPolicy(caller) \/ ClearPolicy(caller) \/ SetBudget(caller)
             \/ SetRegistry(caller) \/ SetOrg(caller)
             \/ SetDefaultBudgetId(caller) \/ ClearDefaultBudgetId(caller)
      PROVE  config' \in Config /\ assetId' = assetId /\ bypass' = bypass
  BY <1>3, <1>5, <1>6, <1>7
     DEF EmergencyPause, EmergencyUnpause, SetPolicy, ClearPolicy, SetBudget, SetRegistry,
         SetOrg, SetDefaultBudgetId, ClearDefaultBudgetId
<1>8. ASSUME NEW w \in WalletId, NEW excused \in BOOLEAN, SetPolicyBypass(caller, w, excused)
      PROVE  config' = config /\ assetId' = assetId /\ bypass' \subseteq WalletId
  BY <1>2, <1>8 DEF SetPolicyBypass
<1>9. ASSUME NEW a \in Asset, SetAssetBudgetId(caller, a) \/ ClearAssetBudgetId(caller, a)
      PROVE  config' = config /\ assetId' \subseteq Asset /\ bypass' = bypass
  BY <1>2, <1>9 DEF SetAssetBudgetId, ClearAssetBudgetId
<1> QED
  BY <1>1, <1>2, <1>4, <1>7, <1>8, <1>9 DEF Admin

\* Clock, configuration and counters stay well formed.
LEMMA ControlStep ==
  ASSUME ControlOK, [Next]_vars
  PROVE  ControlOK'
<1> USE WalletAssumption
<1>1. CASE UNCHANGED vars
  BY <1>1 DEF vars, wiring, funds, ControlOK
<1>2. CASE Tick
  BY <1>2 DEF Tick, wiring, funds, ControlOK
<1>3. ASSUME NEW a \in Addr, Initialize(a) PROVE ControlOK'
  <2>1. config' \in Config
    BY <1>3 DEF Initialize, Config
  <2> QED
    BY <1>3, <2>1 DEF Initialize, funds, ControlOK
<1>4. ASSUME NEW a \in Addr, CreateWallet(a) PROVE ControlOK'
  BY <1>4 DEF CreateWallet, Administered, MayAdminister, wiring, funds, ControlOK
<1>5. ASSUME NEW caller \in Addr, Admin(caller) PROVE ControlOK'
  <2>1. config' \in Config /\ assetId' \subseteq Asset /\ bypass' \subseteq WalletId
    BY <1>5, ConfigStep
  <2>2. Administered /\ now' = now /\ moves' = moves
    BY <1>5, AdminFrame DEF funds
  <2> QED
    BY <2>1, <2>2 DEF Administered, MayAdminister, ControlOK
<1>6. ASSUME NEW caller \in Addr, NEW w, Manage(caller, w) PROVE ControlOK'
  BY <1>6, ManageFrame DEF Administered, MayAdminister, wiring, funds, ControlOK
<1>7. ASSUME NEW w, Move(w) PROVE ControlOK'
  BY <1>7, MoveFrame DEF Moved, MayMove, wiring, ControlOK
<1> QED
  BY <1>1, <1>2, <1>3, <1>4, <1>5, <1>6, <1>7 DEF Next

\* Wallets and roles stay well formed.
LEMMA AccessStep ==
  ASSUME ControlOK, AccessOK, [Next]_vars
  PROVE  AccessOK'
<1> USE WalletAssumption
<1>1. ASSUME UNCHANGED access, config \in Config => config' \in Config PROVE AccessOK'
  BY <1>1 DEF access, AccessOK
<1>2. CASE UNCHANGED vars
  BY <1>1, <1>2 DEF vars, wiring
<1>3. CASE Tick
  BY <1>1, <1>3 DEF Tick, wiring
<1>4. ASSUME NEW a \in Addr, Initialize(a) PROVE AccessOK'
  <2>1. config' \in Config
    BY <1>4 DEF Initialize, Config
  <2> QED
    BY <1>1, <1>4, <2>1 DEF Initialize
<1>5. ASSUME NEW a \in Addr, CreateWallet(a) PROVE AccessOK'
  <2>1. [owner |-> a, state |-> "Active"] \in WalletData
    BY DEF WalletData, ResourceState
  <2>2. wallet' \in Seq(WalletData) /\ Len(wallet') = Len(wallet) + 1 /\ Len(wallet) \in Nat
    BY <1>5, <2>1 DEF CreateWallet, AccessOK
  <2>3. config' \in Config /\ role' = role /\ Len(wallet) < MaxWallets
    BY <1>5, UnsetIsNoRecord DEF CreateWallet, Initialized, ControlOK, wiring
  <2> QED
    BY <2>2, <2>3 DEF AccessOK
<1>6. ASSUME NEW caller \in Addr, Admin(caller) PROVE AccessOK'
  BY <1>1, <1>6, AdminFrame, ConfigStep
<1>7. ASSUME NEW caller \in Addr, NEW w \in DOMAIN wallet, Manage(caller, w) PROVE AccessOK'
  <2>1. config' = config /\ w \in WalletId /\ wallet[w] \in WalletData
    BY <1>7, ManageFrame, WalletIds DEF wiring
  <2>2. ASSUME NEW st \in ResourceState, GoesTo(w, st) PROVE AccessOK'
    <3>1. [wallet[w] EXCEPT !.state = st] \in WalletData
      BY <2>1 DEF WalletData
    <3>2. wallet' = [wallet EXCEPT ![w] = [wallet[w] EXCEPT !.state = st]] /\ role' = role
      BY <2>2 DEF GoesTo
    <3>3. wallet' \in Seq(WalletData) /\ Len(wallet') = Len(wallet)
      BY <3>1, <3>2 DEF AccessOK
    <3> QED
      BY <2>1, <3>2, <3>3 DEF AccessOK
  <2>3. CASE Freeze(caller, w) \/ Unfreeze(caller, w) \/ Pause(caller, w) \/ Unpause(caller, w)
             \/ Archive(caller, w)
    BY <2>2, <2>3 DEF Freeze, Unfreeze, Pause, Unpause, Archive, ResourceState
  <2>4. ASSUME NEW a \in Addr, NEW r \in Role \cup {Unset}, wallet' = wallet,
               role' = [role EXCEPT ![w][a] = r]
        PROVE  AccessOK'
    BY <2>1, <2>4 DEF AccessOK
  <2>5. ASSUME NEW a \in Addr, NEW r \in Role, GrantRole(caller, w, a, r) PROVE AccessOK'
    BY <2>4, <2>5 DEF GrantRole
  <2>6. ASSUME NEW a \in Addr, RevokeRole(caller, w, a) PROVE AccessOK'
    BY <2>4, <2>6 DEF RevokeRole
  <2>7. ASSUME UNCHANGED access PROVE AccessOK'
    BY <1>1, <2>1, <2>7
  <2>8. CASE \/ \E a \in Asset, terms \in VelocityTerms : SetVelocityLimit(caller, w, a, terms)
             \/ \E a \in Asset : ClearVelocityLimit(caller, w, a)
             \/ \E terms \in RateTerms : SetRateLimit(caller, w, terms)
             \/ ClearRateLimit(caller, w)
    BY <2>7, <2>8 DEF SetVelocityLimit, ClearVelocityLimit, SetRateLimit, ClearRateLimit
  <2> QED
    BY <1>7, <2>3, <2>5, <2>6, <2>8 DEF Manage
<1>8. ASSUME NEW w, Move(w) PROVE AccessOK'
  BY <1>1, <1>8, MoveFrame DEF wiring
<1> QED
  BY <1>2, <1>3, <1>4, <1>5, <1>6, <1>7, <1>8 DEF Next

-----------------------------------------------------------------------------
(* What a spend or a batch charges                                          *)

\* A number of each of finitely many assets.
Quantities(amounts) ==
  /\ DOMAIN amounts \subseteq Asset /\ IsFiniteSet(DOMAIN amounts)
  /\ \A a \in DOMAIN amounts : amounts[a] \in Nat

\* Transfers, withdrawals and batches charge the windows of a wallet with what
\* they declare of each asset and a number of transactions, and take tokens.
Charges(w, charge, tokens, n) ==
  /\ Quantities(charge) /\ Quantities(tokens)
  /\ n \in Nat
  /\ EnforceVelocity(w, charge)
  /\ EnforceRateLimit(w, SumFunctionOnSet(charge, DOMAIN charge), n)
  /\ Observed(w, charge, tokens, n)
  /\ UNCHANGED <<now, velocity, rate>>

\* A transfer or withdrawal is charged to the windows once.
LEMMA SpendCharges ==
  ASSUME NEW w, NEW a \in Asset, NEW to, NEW amount \in Nat, NEW gates,
         Spend(w, a, to, amount, gates)
  PROVE  \E charge, tokens, n : Charges(w, charge, tokens, n)
<1>1. PICK charge : charge = [x \in {a} |-> amount]
  OBVIOUS
<1>2. DOMAIN charge = {a} /\ charge[a] = amount /\ IsFiniteSet({a})
  BY <1>1, FS_Singleton
<1>3. SumFunctionOnSet(charge, DOMAIN charge) = amount
  <2>1. SumFunctionOnSet(charge, {a}) = charge[a]
    BY <1>2, SumOne
  <2> QED
    BY <1>2, <2>1
<1>4. Quantities(charge)
  BY <1>2 DEF Quantities
<1>5. Observed(w, charge, charge, 1) /\ EnforceVelocity(w, charge) /\ EnforceRateLimit(w, amount, 1)
  BY <1>1 DEF Spend
<1>6. Charges(w, charge, charge, 1)
  BY <1>3, <1>4, <1>5 DEF Spend, Charges
<1> QED
  BY <1>6

\* The actions of a batch name finitely many assets and take of finitely many,
\* and what it declares of each adds up to its total.
LEMMA BatchTotals ==
  ASSUME NEW actions \in Seq(BatchAction)
  PROVE  /\ DOMAIN Declared(actions) = Assets(actions)
         /\ Quantities(Declared(actions)) /\ Quantities(Taken(actions))
         /\ SumFunctionOnSet(Declared(actions), Assets(actions)) = TotalAmount(actions)
         /\ \A a \in Asset : Takes(actions, a) \in Nat
         /\ \A id : Draws(actions, id) \in Nat
<1> DEFINE S == DOMAIN actions
           K == Assets(actions)
           g == [i \in S |-> actions[i].asset]
           T == {actions[i].token : i \in S}
           c == [i \in S |-> actions[i].token]
<1>1. IsFiniteSet(S) /\ \A i \in S : actions[i] \in BatchAction
  <2>1. S = 1..Len(actions) /\ Len(actions) \in Nat
    OBVIOUS
  <2> QED
    BY <2>1, FS_Interval
<1>2. \A i \in S : /\ actions[i].asset \in Asset /\ actions[i].amount \in Nat
                   /\ actions[i].token \in Asset /\ actions[i].paid \in Nat
  BY <1>1 DEF BatchAction
<1>3. \A i \in S : AmountOf(actions)[i] \in Nat /\ PaidBy(actions)[i] \in Nat
  BY <1>2 DEF AmountOf, PaidBy
<1>4. ASSUME NEW R \in SUBSET S
      PROVE  SumFunctionOnSet(AmountOf(actions), R) \in Nat /\ SumFunctionOnSet(PaidBy(actions), R) \in Nat
  <2>1. IsFiniteSet(R)
    BY <1>1, FS_Subset
  <2> QED
    BY <1>3, <2>1, SumNat
<1>5. g \in [S -> K] /\ K \subseteq Asset
  BY <1>2 DEF Assets
<1>6. IsFiniteSet(K)
  <2>1. g \in Surjection(S, K)
    BY <1>5 DEF Surjection, Assets
  <2> QED
    BY <1>1, <2>1, FS_Surjection
<1>7. T \subseteq Asset /\ IsFiniteSet(T)
  <2>1. c \in Surjection(S, T)
    BY DEF Surjection
  <2>2. T \subseteq Asset
    BY <1>2
  <2> HIDE DEF c, T, S
  <2> QED
    BY <1>1, <2>1, <2>2, FS_Surjection
<1>8. \A a \in K : Declared(actions)[a] =
                    SumFunctionOnSet(AmountOf(actions), {i \in S : actions[i].asset = a})
  BY DEF Declared
<1>9. ASSUME NEW k \in K PROVE Declared(actions)[k] = SumFunctionOnSet(AmountOf(actions), {x \in S : g[x] = k})
  <2>1. {x \in S : g[x] = k} = {i \in S : actions[i].asset = k}
    OBVIOUS
  <2> HIDE DEF g
  <2> QED
    BY <1>8, <2>1
<1>10. SumFunctionOnSet(Declared(actions), K) = SumFunctionOnSet(AmountOf(actions), S)
  <2>1. \A x \in S : AmountOf(actions)[x] \in Int
    BY <1>3
  <2> HIDE DEF g, K, S
  <2> QED
    BY <1>1, <1>5, <1>6, <1>9, <2>1, SumGroups
<1>11. \A a \in Asset : Takes(actions, a) \in Nat
  BY <1>4 DEF Takes
<1>12. \A id : Draws(actions, id) \in Nat
  BY <1>4 DEF Draws
<1>13. \A a \in K : Declared(actions)[a] \in Nat
  BY <1>4, <1>8
<1>14. DOMAIN Declared(actions) = K
  BY DEF Declared
<1>15. Quantities(Declared(actions))
  BY <1>5, <1>6, <1>13, <1>14 DEF Quantities
<1>16. Quantities(Taken(actions))
  <2>1. DOMAIN Taken(actions) = T /\ \A a \in T : Taken(actions)[a] = Takes(actions, a)
    BY DEF Taken
  <2> HIDE DEF T
  <2> QED
    BY <1>7, <1>11, <2>1 DEF Quantities
<1> QED
  BY <1>10, <1>11, <1>12, <1>14, <1>15, <1>16 DEF TotalAmount

\* A batch is charged to the windows with what it declares.
LEMMA BatchCharges ==
  ASSUME NEW caller, NEW w, NEW actions \in Seq(BatchAction), NEW gates,
         BatchExecuteValidated(caller, w, actions, gates)
  PROVE  Charges(w, Declared(actions), Taken(actions), Len(actions))
<1>1. /\ Quantities(Declared(actions)) /\ Quantities(Taken(actions))
      /\ SumFunctionOnSet(Declared(actions), DOMAIN Declared(actions)) = TotalAmount(actions)
  BY BatchTotals
<1>2. Len(actions) \in Nat
  OBVIOUS
<1> QED
  BY <1>1, <1>2 DEF BatchExecuteValidated, Charges

\* The calls that write the limits, their usage or the histories under them.
LEMMA LimitWrites ==
  ASSUME ControlOK, AccessOK, [Next]_vars
  PROVE  \/ UNCHANGED limits /\ now' \in 0..MaxTime /\ now <= now'
         \/ \E caller \in Addr, w \in WalletId, a \in Asset :
              \/ \E terms \in VelocityTerms : SetVelocityLimit(caller, w, a, terms)
              \/ ClearVelocityLimit(caller, w, a)
         \/ \E caller \in Addr, w \in WalletId :
              \/ \E terms \in RateTerms : SetRateLimit(caller, w, terms)
              \/ ClearRateLimit(caller, w)
         \/ \E w \in WalletId : \E charge, tokens, n : Charges(w, charge, tokens, n)
<1> USE WalletAssumption
<1> DEFINE Keeps == UNCHANGED limits /\ now' \in 0..MaxTime /\ now <= now'
<1>0. now \in 0..MaxTime /\ now \in Nat
  BY DEF ControlOK
<1>1. ASSUME UNCHANGED <<limits, now>> PROVE Keeps
  BY <1>0, <1>1
<1>2. ASSUME UNCHANGED vars PROVE Keeps
  BY <1>1, <1>2 DEF vars
<1>3. ASSUME Tick PROVE Keeps
  BY <1>0, <1>3 DEF Tick
<1>4. ASSUME NEW a \in Addr, Initialize(a) \/ CreateWallet(a) PROVE Keeps
  BY <1>1, <1>4 DEF Initialize, CreateWallet
<1>5. ASSUME NEW caller \in Addr, Admin(caller) PROVE Keeps
  BY <1>1, <1>5, AdminFrame
<1>6. ASSUME NEW caller \in Addr, NEW w \in DOMAIN wallet, Manage(caller, w)
      PROVE  \/ Keeps
             \/ \E a \in Asset :
                  \/ \E terms \in VelocityTerms : SetVelocityLimit(caller, w, a, terms)
                  \/ ClearVelocityLimit(caller, w, a)
             \/ \E terms \in RateTerms : SetRateLimit(caller, w, terms)
             \/ ClearRateLimit(caller, w)
  <2>1. CASE \/ Freeze(caller, w) \/ Unfreeze(caller, w) \/ Pause(caller, w) \/ Unpause(caller, w)
             \/ Archive(caller, w) \/ \E a \in Addr, r \in Role : GrantRole(caller, w, a, r)
             \/ \E a \in Addr : RevokeRole(caller, w, a)
    <3>1. UNCHANGED <<limits, now>>
      BY <2>1 DEF Freeze, Unfreeze, Pause, Unpause, Archive, GoesTo, GrantRole, RevokeRole
    <3> QED
      BY <1>1, <3>1
  <2> QED
    BY <1>6, <2>1 DEF Manage
<1>7. ASSUME NEW w \in DOMAIN wallet, Move(w) PROVE Keeps \/ \E charge, tokens, n : Charges(w, charge, tokens, n)
  <2>1. ASSUME NEW a \in Asset, NEW d \in Deposits, Deposit(w, a, d.amount, d.fee) PROVE Keeps
    BY <1>1, <2>1 DEF Deposit
  <2>2. ASSUME NEW caller \in Addr, NEW to, NEW a \in Asset, NEW n \in Amounts, NEW gates,
               Transfer(caller, w, to, a, n, gates) \/ Withdraw(caller, w, a, n, gates)
        PROVE  \E charge, tokens, k : Charges(w, charge, tokens, k)
    <3>1. n \in Nat
      OBVIOUS
    <3>2. Spend(w, a, to, n, gates) \/ Spend(w, a, wallet[w].owner, n, gates)
      BY <2>2 DEF Transfer, Withdraw
    <3> QED
      BY <3>1, <3>2, SpendCharges
  <2>3. ASSUME NEW caller \in Addr, NEW b \in Batches, NEW gates,
               BatchExecuteValidated(caller, w, b, gates)
        PROVE  \E charge, tokens, k : Charges(w, charge, tokens, k)
    BY <2>3, BatchCharges
  <2> QED
    BY <1>7, <2>1, <2>2, <2>3 DEF Move
<1>8. \A w \in DOMAIN wallet : w \in WalletId
  BY WalletIds
<1> DEFINE Velocities == \E caller \in Addr, w \in WalletId, a \in Asset :
                          \/ \E terms \in VelocityTerms : SetVelocityLimit(caller, w, a, terms)
                          \/ ClearVelocityLimit(caller, w, a)
           Rates == \E caller \in Addr, w \in WalletId :
                      \/ \E terms \in RateTerms : SetRateLimit(caller, w, terms)
                      \/ ClearRateLimit(caller, w)
           Charging == \E w \in WalletId : \E charge, tokens, n : Charges(w, charge, tokens, n)
<1>9. ASSUME NEW caller \in Addr, NEW w \in DOMAIN wallet, Manage(caller, w)
      PROVE  Keeps \/ Velocities \/ Rates
  <2>1. w \in WalletId
    BY <1>8
  <2> HIDE DEF Keeps
  <2> QED
    BY <1>6, <1>9, <2>1
<1>10. ASSUME NEW w \in DOMAIN wallet, Move(w) PROVE Keeps \/ Charging
  <2> HIDE DEF Keeps
  <2> QED
    BY <1>7, <1>8, <1>10
<1>11. Keeps \/ Velocities \/ Rates \/ Charging
  <2> HIDE DEF Keeps, Velocities, Rates, Charging
  <2> QED
    BY <1>2, <1>3, <1>4, <1>5, <1>9, <1>10 DEF Next
<1> QED
  BY <1>11

-----------------------------------------------------------------------------
(* The velocity windows                                                     *)

\* A velocity record stays right while time passes.
LEMMA VelocityEntryLater ==
  ASSUME NEW limit \in VelocityLimit \cup {Unset}, NEW stored \in VelocityUsage \cup {Unset},
         NEW hist \in History, NEW t \in 0..MaxTime, NEW u \in 0..MaxTime, t <= u,
         VelocityEntry(limit, stored, hist, t)
  PROVE  VelocityEntry(limit, stored, hist, u)
<1>1. CASE stored = Unset
  BY <1>1 DEF VelocityEntry, VelocityKnown
<1>2. CASE stored # Unset
  <2>1. limit \in VelocityLimit /\ ValidWindow(limit.window_seconds)
    BY <1>2 DEF VelocityEntry
  <2>2. PICK m : m = BucketSeconds(limit.window_seconds)
    OBVIOUS
  <2>3. m \in Nat \ {0} /\ t \in Nat /\ u \in Nat
    BY <2>1, <2>2, BucketOfValidWindow, WalletAssumption DEF VelocityLimit
  <2>4. t \div m <= u \div m /\ t \div m \in Nat /\ u \div m \in Nat
    BY <2>3, QuotientMonotonic, Quotient
  <2>5. stored.bucket \in Nat /\ stored.bucket <= t \div m
    BY <1>2, <2>2 DEF VelocityEntry, VelocityKnown, VelocityUsage
  <2>6. stored.bucket <= u \div m
    BY <2>4, <2>5
  <2> QED
    BY <1>2, <2>2, <2>6 DEF VelocityEntry, VelocityKnown
<1> QED
  BY <1>1, <1>2

\* Changing the limit of an asset: the usage and its history stay together.
LEMMA VelocityWrite ==
  ASSUME VelocityOK, now' = now, NEW w \in WalletId, NEW a \in Asset,
         NEW l \in VelocityLimit \cup {Unset}, NEW u \in VelocityUsage \cup {Unset},
         NEW h \in History, VelocityEntry(l, u, h, now),
         velocity' = [velocity EXCEPT ![w][a] = l],
         spent' = [spent EXCEPT ![w][a] = u], authorized' = [authorized EXCEPT ![w][a] = h],
         taken' \in [WalletId -> [Asset -> History]]
  PROVE  VelocityOK'
<1>1. /\ velocity' \in [WalletId -> [Asset -> VelocityLimit \cup {Unset}]]
      /\ \A v \in WalletId, b \in Asset :
           velocity'[v][b] = IF v = w /\ b = a THEN l ELSE velocity[v][b]
  BY TableWrite DEF VelocityOK
<1>2. /\ spent' \in [WalletId -> [Asset -> VelocityUsage \cup {Unset}]]
      /\ \A v \in WalletId, b \in Asset :
           spent'[v][b] = IF v = w /\ b = a THEN u ELSE spent[v][b]
  BY TableWrite DEF VelocityOK
<1>3. /\ authorized' \in [WalletId -> [Asset -> History]]
      /\ \A v \in WalletId, b \in Asset :
           authorized'[v][b] = IF v = w /\ b = a THEN h ELSE authorized[v][b]
  BY TableWrite DEF VelocityOK
<1>4. ASSUME NEW v \in WalletId, NEW b \in Asset
      PROVE  VelocityEntry(velocity'[v][b], spent'[v][b], authorized'[v][b], now')
  <2>1. CASE v = w /\ b = a
    <3>1. velocity'[v][b] = l /\ spent'[v][b] = u /\ authorized'[v][b] = h
      BY <1>1, <1>2, <1>3, <2>1
    <3> QED
      BY <3>1
  <2>2. CASE ~ (v = w /\ b = a)
    <3>1. /\ velocity'[v][b] = velocity[v][b] /\ spent'[v][b] = spent[v][b]
          /\ authorized'[v][b] = authorized[v][b]
      BY <1>1, <1>2, <1>3, <2>2
    <3>2. VelocityEntry(velocity[v][b], spent[v][b], authorized[v][b], now)
      BY DEF VelocityOK
    <3> QED
      BY <3>1, <3>2
  <2> QED
    BY <2>1, <2>2
<1> QED
  BY <1>1, <1>2, <1>3, <1>4 DEF VelocityOK

\* The history in which nothing passed and nothing left.
LEMMA NeverTyped == Never \in History /\ \A t \in 0..MaxTime : Never[t] = 0
  BY DEF Never, History

\* Setting a velocity limit keeps its record right, also when it keeps the
\* usage.
LEMMA SetVelocityStep ==
  ASSUME VelocityOK, NEW caller, NEW w \in WalletId, NEW a \in Asset,
         NEW terms \in VelocityTerms, SetVelocityLimit(caller, w, a, terms)
  PROVE  VelocityOK'
<1> USE WalletAssumption
<1>1. PICK u, h : /\ u = IF KeepsWindow(velocity[w][a], terms) THEN spent[w][a] ELSE Unset
                  /\ h = IF KeepsWindow(velocity[w][a], terms) THEN authorized[w][a] ELSE Never
  OBVIOUS
<1>2. /\ velocity' = [velocity EXCEPT ![w][a] = terms]
      /\ spent' = [spent EXCEPT ![w][a] = u] /\ authorized' = [authorized EXCEPT ![w][a] = h]
      /\ now' = now
  BY <1>1 DEF SetVelocityLimit
<1>3. terms \in VelocityLimit /\ terms # Unset /\ ValidWindow(terms.window_seconds)
  BY UnsetIsNoRecord DEF SetVelocityLimit
<1>4. u \in VelocityUsage \cup {Unset} /\ h \in History
  BY <1>1, NeverTyped DEF VelocityOK
<1>5. taken' \in [WalletId -> [Asset -> History]]
  <2>1. PICK k : /\ k = IF KeepsWindow(velocity[w][a], terms) THEN taken[w][a] ELSE Never
                 /\ taken' = [taken EXCEPT ![w][a] = k]
    BY DEF SetVelocityLimit
  <2>2. taken \in [WalletId -> [Asset -> History]] /\ k \in History
    BY <2>1, NeverTyped DEF VelocityOK
  <2> QED
    BY <2>1, <2>2, TableWrite
<1>6. VelocityEntry(terms, u, h, now)
  <2>1. CASE KeepsWindow(velocity[w][a], terms)
    <3>1. u = spent[w][a] /\ h = authorized[w][a] /\ velocity[w][a].window_seconds = terms.window_seconds
      BY <1>1, <2>1 DEF KeepsWindow
    <3>2. VelocityEntry(velocity[w][a], spent[w][a], authorized[w][a], now)
      BY DEF VelocityOK
    <3> QED
      BY <1>3, <3>1, <3>2 DEF VelocityEntry
  <2>2. CASE ~ KeepsWindow(velocity[w][a], terms)
    BY <1>1, <1>3, <2>2, NeverTyped DEF VelocityEntry, VelocityKnown
  <2> QED
    BY <2>1, <2>2
<1> QED
  BY <1>2, <1>3, <1>4, <1>6, <1>5, VelocityWrite

\* Clearing a velocity limit keeps its record right.
LEMMA ClearVelocityStep ==
  ASSUME VelocityOK, NEW caller, NEW w \in WalletId, NEW a \in Asset,
         ClearVelocityLimit(caller, w, a)
  PROVE  VelocityOK'
<1>1. /\ velocity' = [velocity EXCEPT ![w][a] = Unset]
      /\ spent' = [spent EXCEPT ![w][a] = Unset] /\ authorized' = [authorized EXCEPT ![w][a] = Never]
      /\ now' = now
  BY DEF ClearVelocityLimit
<1>2. VelocityEntry(Unset, Unset, Never, now)
  BY NeverTyped DEF VelocityEntry, VelocityKnown
<1>3. Unset \in VelocityLimit \cup {Unset} /\ Unset \in VelocityUsage \cup {Unset}
  OBVIOUS
<1>4. taken' \in [WalletId -> [Asset -> History]]
  <2>1. taken \in [WalletId -> [Asset -> History]] /\ taken' = [taken EXCEPT ![w][a] = Never]
    BY DEF VelocityOK, ClearVelocityLimit
  <2> QED
    BY <2>1, NeverTyped, TableWrite
<1> QED
  BY <1>1, <1>2, <1>3, <1>4, NeverTyped, VelocityWrite

\* A history stays one when amounts are noted in it.
LEMMA NotedTyped ==
  ASSUME NEW history \in [WalletId -> [Asset -> History]], NEW w \in WalletId, NEW amounts,
         Quantities(amounts), now \in 0..MaxTime
  PROVE  Noted(history, w, amounts) \in [WalletId -> [Asset -> History]]
<1>1. PICK row : row = [a \in Asset |-> IF a \in DOMAIN amounts /\ velocity[w][a] # Unset
                                        THEN [history[w][a] EXCEPT ![now] = @ + amounts[a]]
                                        ELSE history[w][a]]
  OBVIOUS
<1>2. ASSUME NEW a \in Asset PROVE row[a] \in History
  <2>1. PICK past : past = history[w][a] /\ past \in History
    OBVIOUS
  <2>2. CASE a \in DOMAIN amounts /\ velocity[w][a] # Unset
    <3>1. past[now] + amounts[a] \in Nat
      <4>1. past[now] \in Nat
        BY <2>1 DEF History
      <4>2. amounts[a] \in Nat
        BY <2>2 DEF Quantities
      <4> QED
        BY <4>1, <4>2
    <3>2. row[a] = [past EXCEPT ![now] = past[now] + amounts[a]]
      BY <1>1, <2>1, <2>2
    <3> QED
      BY <2>1, <3>1, <3>2 DEF History
  <2>3. CASE ~ (a \in DOMAIN amounts /\ velocity[w][a] # Unset)
    BY <1>1, <2>1, <2>3
  <2> QED
    BY <2>2, <2>3
<1>3. row \in [Asset -> History]
  BY <1>1, <1>2
<1>4. Noted(history, w, amounts) = [history EXCEPT ![w] = row]
  BY <1>1 DEF Noted
<1> QED
  BY <1>3, <1>4

\* A bound on what was declared in a span bounds the tokens where they are no
\* more than that.
LEMMA DeclaredBounds ==
  ASSUME NEW declared \in History, NEW tokens \in History, NEW max \in Nat,
         NEW m \in Nat, NEW time \in 0..MaxTime,
         SumFunctionOnSet(declared, Span(m, time)) <= max
  PROVE  Bounded(declared, tokens, Span(m, time), max)
<1>1. PICK span : span = Span(m, time)
  OBVIOUS
<1>2. span \subseteq 0..MaxTime /\ IsFiniteSet(span)
  <2>1. span \subseteq 0..MaxTime
    BY <1>1, WalletAssumption DEF Span
  <2> QED
    BY <2>1, TimesFinite, FS_Subset
<1>3. \A t \in span : declared[t] \in Nat /\ tokens[t] \in Nat
  BY <1>2 DEF History
<1>4. SumFunctionOnSet(declared, span) \in Nat /\ SumFunctionOnSet(tokens, span) \in Nat
  BY <1>2, <1>3, SumNat
<1>5. ASSUME \A t \in span : tokens[t] <= declared[t] PROVE SumFunctionOnSet(tokens, span) <= max
  <2>1. SumFunctionOnSet(tokens, span) <= SumFunctionOnSet(declared, span)
    <3>1. \A t \in span : tokens[t] \in Int /\ declared[t] \in Int /\ tokens[t] <= declared[t]
      BY <1>3, <1>5
    <3> QED
      BY <1>2, <3>1, SumMonotonic, Zenon
  <2> QED
    BY <1>1, <1>4, <2>1
<1> QED
  BY <1>1, <1>5 DEF Bounded

\* A spend or a batch charges the velocity windows it meets within their limits.
LEMMA ChargesVelocity ==
  ASSUME VelocityOK, ControlOK, NEW w \in WalletId, NEW charge, NEW tokens, NEW n,
         Charges(w, charge, tokens, n)
  PROVE  VelocityOK' /\ VelocityHeld
<1> DEFINE Limited(a) == a \in DOMAIN charge /\ velocity[w][a] # Unset
           Rolled(a) == RolledVelocityUsage(spent[w][a], velocity[w][a], now)
<1>1. PICK row : row = [a \in Asset |-> IF Limited(a) THEN ChargedVelocity(Rolled(a), charge[a])
                                                      ELSE spent[w][a]]
  OBVIOUS
<1>2. PICK past : past = [a \in Asset |-> IF Limited(a)
                                         THEN [authorized[w][a] EXCEPT ![now] = @ + charge[a]]
                                         ELSE authorized[w][a]]
  OBVIOUS
<1>3. /\ velocity \in [WalletId -> [Asset -> VelocityLimit \cup {Unset}]]
      /\ spent \in [WalletId -> [Asset -> VelocityUsage \cup {Unset}]]
      /\ authorized \in [WalletId -> [Asset -> History]]
      /\ now \in 0..MaxTime
      /\ \A v \in WalletId, a \in Asset :
           VelocityEntry(velocity[v][a], spent[v][a], authorized[v][a], now)
  BY DEF VelocityOK, ControlOK
<1>4. spent' = [spent EXCEPT ![w] = row] /\ authorized' = [authorized EXCEPT ![w] = past]
  <2>1. spent' = [spent EXCEPT ![w] = row]
    BY <1>1, <1>3 DEF Charges, EnforceVelocity
  <2>2. authorized' = [authorized EXCEPT ![w] = past]
    <3>1. authorized' = [authorized EXCEPT ![w] =
                     [a \in Asset |-> IF Limited(a) THEN [authorized[w][a] EXCEPT ![now] = @ + charge[a]]
                                                    ELSE authorized[w][a]]]
      BY <1>3, Zenon DEF Charges, Observed, Noted
    <3> QED
      BY <1>2, <3>1
  <2> QED
    BY <2>1, <2>2
<1>5. /\ \A a \in Asset : Limited(a) => /\ WithinVelocity(velocity[w][a], Rolled(a), charge[a])
                                        /\ charge[a] \in Nat
      /\ velocity' = velocity /\ now' = now
  BY DEF Charges, EnforceVelocity, Quantities
<1>6. taken' \in [WalletId -> [Asset -> History]]
  <2>1. taken' = Noted(taken, w, tokens) /\ Quantities(tokens)
    BY DEF Charges, Observed
  <2>2. taken \in [WalletId -> [Asset -> History]]
    BY DEF VelocityOK
  <2> QED
    BY <1>3, <2>1, <2>2, NotedTyped
<1>7. ASSUME NEW a \in Asset, Limited(a)
      PROVE  /\ row[a] \in VelocityUsage /\ past[a] \in History
             /\ VelocityEntry(velocity[w][a], row[a], past[a], now)
             /\ SumFunctionOnSet(past[a], Span(BucketSeconds(velocity[w][a].window_seconds), now))
                  <= velocity[w][a].max_amount
  <2>1. PICK limit, stored, hist, amount, time :
          /\ limit = velocity[w][a] /\ stored = spent[w][a] /\ hist = authorized[w][a]
          /\ amount = charge[a] /\ time = now
    OBVIOUS
  <2>2. /\ limit \in VelocityLimit /\ limit # Unset /\ stored \in VelocityUsage \cup {Unset}
        /\ hist \in History /\ amount \in Nat /\ time \in 0..MaxTime
    BY <1>3, <1>5, <1>7, <2>1
  <2>3. VelocityEntry(limit, stored, hist, time)
    BY <1>3, <2>1
  <2>4. PICK u, later, m :
          /\ u = ChargedVelocity(RolledVelocityUsage(stored, limit, time), amount)
          /\ later = [hist EXCEPT ![time] = @ + amount]
          /\ m = BucketSeconds(limit.window_seconds)
    OBVIOUS
  <2>5. ValidWindow(limit.window_seconds) /\ VelocityKnown(stored, hist, m, time)
    BY <2>2, <2>3, <2>4 DEF VelocityEntry
  <2>6. Adds(later, hist, time, amount)
    BY <2>2, <2>4 DEF Adds, History
  <2>7. WithinVelocity(limit, RolledVelocityUsage(stored, limit, time), amount)
    BY <1>5, <1>7, <2>1
  <2>8. /\ u \in VelocityUsage /\ VelocityKnown(u, later, m, time)
        /\ SumFunctionOnSet(later, Span(m, time)) <= limit.max_amount
    BY <2>2, <2>4, <2>5, <2>6, <2>7, ChargedVelocityKnown
  <2>9. u = row[a] /\ later = past[a]
    BY <1>1, <1>2, <1>7, <2>1, <2>4
  <2>10. VelocityEntry(limit, u, later, time)
    BY <2>2, <2>4, <2>5, <2>8 DEF VelocityEntry
  <2>11. later \in History
    BY <2>6 DEF Adds
  <2> QED
    BY <2>1, <2>4, <2>8, <2>9, <2>10, <2>11
<1>8. ASSUME NEW a \in Asset, ~ Limited(a) PROVE row[a] = spent[w][a] /\ past[a] = authorized[w][a]
  BY <1>1, <1>2, <1>8
<1>9. row \in [Asset -> VelocityUsage \cup {Unset}] /\ past \in [Asset -> History]
  <2>1. \A a \in Asset : row[a] \in VelocityUsage \cup {Unset} /\ past[a] \in History
    <3> SUFFICES ASSUME NEW a \in Asset
                 PROVE  row[a] \in VelocityUsage \cup {Unset} /\ past[a] \in History
      OBVIOUS
    <3>1. CASE Limited(a)
      BY <1>7, <3>1
    <3>2. CASE ~ Limited(a)
      BY <1>3, <1>8, <3>2
    <3> QED
      BY <3>1, <3>2
  <2>2. /\ DOMAIN row = Asset /\ row = [a \in DOMAIN row |-> row[a]]
        /\ DOMAIN past = Asset /\ past = [a \in DOMAIN past |-> past[a]]
    BY <1>1, <1>2
  <2> QED
    BY <2>1, <2>2
<1>10. /\ spent' \in [WalletId -> [Asset -> VelocityUsage \cup {Unset}]]
      /\ authorized' \in [WalletId -> [Asset -> History]]
      /\ spent'[w] = row /\ authorized'[w] = past
      /\ \A v \in WalletId : v # w => spent'[v] = spent[v] /\ authorized'[v] = authorized[v]
  BY <1>3, <1>4, <1>9
<1>11. VelocityOK'
  <2>1. ASSUME NEW v \in WalletId, NEW a \in Asset
        PROVE  VelocityEntry(velocity'[v][a], spent'[v][a], authorized'[v][a], now')
    <3>1. CASE v = w /\ Limited(a)
      BY <1>5, <1>7, <1>10, <3>1
    <3>2. CASE v = w /\ ~ Limited(a)
      <4>1. spent'[v][a] = spent[v][a] /\ authorized'[v][a] = authorized[v][a]
        BY <1>8, <1>10, <3>2
      <4> QED
        BY <1>3, <1>5, <4>1
    <3>3. CASE v # w
      BY <1>3, <1>5, <1>10, <3>3
    <3> QED
      BY <3>1, <3>2, <3>3
  <2> QED
    BY <1>3, <1>5, <1>10, <1>6, <2>1 DEF VelocityOK
<1>12. ASSUME NEW v \in WalletId, NEW a \in Asset, authorized'[v][a][now] > authorized[v][a][now]
       PROVE  Bounded(authorized'[v][a], taken'[v][a],
                      TrailingSpan(velocity[v][a].window_seconds), velocity[v][a].max_amount)
  <2>1. authorized[v][a][now] \in Nat
    <3>1. authorized[v][a] \in History
      BY <1>3
    <3> QED
      BY <1>3, <3>1 DEF History
  <2>2. authorized'[v][a] # authorized[v][a]
    BY <1>12, <2>1
  <2>3. v = w /\ Limited(a)
    BY <1>8, <1>10, <2>2
  <2>4. TrailingSpan(velocity[v][a].window_seconds) =
          Span(BucketSeconds(velocity[v][a].window_seconds), now)
    BY DEF TrailingSpan, Span
  <2>5. authorized'[v][a] = past[a]
    BY <1>10, <2>3
  <2>6. PICK limit, m : limit = velocity[v][a] /\ m = BucketSeconds(limit.window_seconds)
    OBVIOUS
  <2>7. limit \in VelocityLimit /\ ValidWindow(limit.window_seconds)
    <3>1. limit \in VelocityLimit /\ VelocityEntry(limit, spent[v][a], authorized[v][a], now)
      BY <1>3, <2>3, <2>6
    <3> QED
      BY <2>3, <2>6, <3>1 DEF VelocityEntry
  <2>8. m \in Nat /\ limit.max_amount \in Nat
    BY <2>6, <2>7, BucketOfValidWindow DEF VelocityLimit
  <2>9. past[a] \in History /\ SumFunctionOnSet(past[a], Span(m, now)) <= limit.max_amount
    BY <1>7, <2>3, <2>6
  <2>10. taken'[v][a] \in History
    BY <1>6
  <2>11. Bounded(past[a], taken'[v][a], Span(m, now), limit.max_amount)
    BY <1>3, <2>8, <2>9, <2>10, DeclaredBounds
  <2> QED
    BY <2>4, <2>5, <2>6, <2>11
<1> QED
  BY <1>11, <1>12 DEF VelocityHeld

\* Every step keeps the velocity records right and no span beyond its limit.
LEMMA VelocityStep ==
  ASSUME ControlOK, AccessOK, VelocityOK, [Next]_vars
  PROVE  VelocityOK' /\ VelocityHeld
<1> USE WalletAssumption
<1>0. /\ velocity \in [WalletId -> [Asset -> VelocityLimit \cup {Unset}]]
      /\ spent \in [WalletId -> [Asset -> VelocityUsage \cup {Unset}]]
      /\ authorized \in [WalletId -> [Asset -> History]]
      /\ now \in 0..MaxTime
      /\ \A v \in WalletId, a \in Asset :
           VelocityEntry(velocity[v][a], spent[v][a], authorized[v][a], now)
  BY DEF VelocityOK, ControlOK
<1>1. ASSUME \A w \in WalletId, a \in Asset : authorized'[w][a] \in {authorized[w][a], Never} PROVE VelocityHeld
  <2>1. ASSUME NEW w \in WalletId, NEW a \in Asset PROVE ~ (authorized'[w][a][now] > authorized[w][a][now])
    <3>1. authorized[w][a][now] \in Nat
      BY <1>0 DEF History
    <3>2. Never[now] = 0
      BY <1>0, NeverTyped
    <3>3. CASE authorized'[w][a] = authorized[w][a]
      BY <3>1, <3>3
    <3>4. CASE authorized'[w][a] = Never
      BY <3>1, <3>2, <3>4
    <3> QED
      BY <1>1, <3>3, <3>4
  <2> QED
    BY <2>1 DEF VelocityHeld
<1>2. ASSUME UNCHANGED <<velocity, spent, authorized, taken>>, now' \in 0..MaxTime, now <= now'
      PROVE  VelocityOK' /\ VelocityHeld
  <2>1. ASSUME NEW w \in WalletId, NEW a \in Asset
        PROVE  VelocityEntry(velocity[w][a], spent[w][a], authorized[w][a], now')
    <3>1. /\ velocity[w][a] \in VelocityLimit \cup {Unset} /\ spent[w][a] \in VelocityUsage \cup {Unset}
          /\ authorized[w][a] \in History /\ VelocityEntry(velocity[w][a], spent[w][a], authorized[w][a], now)
      BY <1>0
    <3> QED
      BY <1>0, <1>2, <3>1, VelocityEntryLater
  <2>2. VelocityOK'
    <3>1. taken \in [WalletId -> [Asset -> History]]
      BY DEF VelocityOK
    <3> QED
      BY <1>0, <1>2, <2>1, <3>1 DEF VelocityOK
  <2> QED
    BY <1>1, <1>2, <2>2
<1>3. ASSUME NEW caller \in Addr, NEW w \in WalletId, NEW a \in Asset,
             \/ \E terms \in VelocityTerms : SetVelocityLimit(caller, w, a, terms)
             \/ ClearVelocityLimit(caller, w, a)
      PROVE  VelocityOK' /\ VelocityHeld
  <2>1. PICK h : authorized' = [authorized EXCEPT ![w][a] = h] /\ h \in {authorized[w][a], Never}
    BY <1>3 DEF SetVelocityLimit, ClearVelocityLimit
  <2>2. \A v \in WalletId, b \in Asset : authorized'[v][b] \in {authorized[v][b], Never}
    BY <1>0, <2>1
  <2> QED
    BY <1>1, <1>3, <2>2, SetVelocityStep, ClearVelocityStep
<1>4. ASSUME NEW caller \in Addr, NEW w \in WalletId,
             \/ \E terms \in RateTerms : SetRateLimit(caller, w, terms)
             \/ ClearRateLimit(caller, w)
      PROVE  VelocityOK' /\ VelocityHeld
  <2>1. UNCHANGED <<velocity, spent, authorized, taken>> /\ now' = now
    BY <1>4 DEF SetRateLimit, ClearRateLimit
  <2>2. now' \in 0..MaxTime /\ now <= now'
    BY <1>0, <2>1
  <2> QED
    BY <1>2, <2>1, <2>2
<1>5. ASSUME NEW w \in WalletId, \E charge, tokens, n : Charges(w, charge, tokens, n) PROVE VelocityOK' /\ VelocityHeld
  BY <1>5, ChargesVelocity
<1>6. ASSUME UNCHANGED limits, now' \in 0..MaxTime, now <= now' PROVE VelocityOK' /\ VelocityHeld
  BY <1>2, <1>6 DEF limits
<1> QED
  BY <1>3, <1>4, <1>5, <1>6, LimitWrites

-----------------------------------------------------------------------------
(* The rate windows                                                         *)

\* A rate record stays right while time passes.
LEMMA RateEntryLater ==
  ASSUME NEW terms \in RateLimitConfig \cup {Unset}, NEW stored \in RateUsage \cup {Unset},
         NEW hist \in Issues, NEW t \in 0..MaxTime, NEW u \in 0..MaxTime, t <= u,
         RateEntry(terms, stored, hist, t)
  PROVE  RateEntry(terms, stored, hist, u)
<1>1. CASE stored = Unset
  BY <1>1 DEF RateEntry, RateKnown
<1>2. CASE stored # Unset
  <2>1. terms \in RateLimitConfig /\ ValidWindow(terms.window_seconds)
    BY <1>2 DEF RateEntry
  <2>2. PICK m : m = BucketSeconds(terms.window_seconds)
    OBVIOUS
  <2>3. m \in Nat \ {0} /\ t \in Nat /\ u \in Nat
    BY <2>1, <2>2, BucketOfValidWindow, WalletAssumption DEF RateLimitConfig
  <2>4. t \div m <= u \div m /\ t \div m \in Nat /\ u \div m \in Nat
    BY <2>3, QuotientMonotonic, Quotient
  <2>5. stored.bucket \in Nat /\ stored.bucket <= t \div m
    BY <1>2, <2>2 DEF RateEntry, RateKnown, RateUsage
  <2>6. stored.bucket <= u \div m
    BY <2>4, <2>5
  <2> QED
    BY <1>2, <2>2, <2>6 DEF RateEntry, RateKnown
<1> QED
  BY <1>1, <1>2

\* Writing one right rate record keeps all of them right.
LEMMA RateWrite ==
  ASSUME RateOK, now' = now, NEW w \in WalletId,
         NEW r \in RateLimitConfig \cup {Unset}, NEW u \in RateUsage \cup {Unset},
         NEW h \in Issues, RateEntry(r, u, h, now),
         rate' = [rate EXCEPT ![w] = r], used' = [used EXCEPT ![w] = u],
         issued' = [issued EXCEPT ![w] = h]
  PROVE  RateOK'
<1>1. /\ rate' \in [WalletId -> RateLimitConfig \cup {Unset}]
      /\ used' \in [WalletId -> RateUsage \cup {Unset}]
      /\ issued' \in [WalletId -> Issues]
      /\ \A v \in WalletId : /\ rate'[v] = IF v = w THEN r ELSE rate[v]
                             /\ used'[v] = IF v = w THEN u ELSE used[v]
                             /\ issued'[v] = IF v = w THEN h ELSE issued[v]
  BY DEF RateOK
<1>2. ASSUME NEW v \in WalletId PROVE RateEntry(rate'[v], used'[v], issued'[v], now')
  <2>1. CASE v = w
    <3>1. rate'[v] = r /\ used'[v] = u /\ issued'[v] = h
      BY <1>1, <2>1
    <3> QED
      BY <3>1
  <2>2. CASE v # w
    <3>1. rate'[v] = rate[v] /\ used'[v] = used[v] /\ issued'[v] = issued[v]
      BY <1>1, <2>2
    <3>2. RateEntry(rate[v], used[v], issued[v], now)
      BY DEF RateOK
    <3> QED
      BY <3>1, <3>2
  <2> QED
    BY <2>1, <2>2
<1> QED
  BY <1>1, <1>2 DEF RateOK

\* The history in which nothing was issued.
LEMMA NeverIssuedTyped ==
  /\ NeverIssued \in Issues
  /\ \A t \in 0..MaxTime : NeverIssued[t].volume = 0 /\ NeverIssued[t].count = 0
  BY DEF NeverIssued, Issues, Issue

\* A stored window is never 0, so a window of 0 keeps no usage.
LEMMA SetRateStep ==
  ASSUME RateOK, NEW caller, NEW w \in WalletId, NEW terms \in RateTerms,
         SetRateLimit(caller, w, terms)
  PROVE  RateOK'
<1> USE WalletAssumption
<1>1. PICK r, u, h : /\ r = IF terms.window_seconds = 0 THEN Unset ELSE terms
                     /\ u = IF KeepsWindow(rate[w], terms) THEN used[w] ELSE Unset
                     /\ h = IF KeepsWindow(rate[w], terms) THEN issued[w] ELSE NeverIssued
  OBVIOUS
<1>2. /\ rate' = [rate EXCEPT ![w] = r] /\ used' = [used EXCEPT ![w] = u]
      /\ issued' = [issued EXCEPT ![w] = h] /\ now' = now
  BY <1>1 DEF SetRateLimit
<1>3. /\ terms \in RateLimitConfig /\ terms # Unset
      /\ terms.window_seconds = 0 \/ ValidWindow(terms.window_seconds)
  BY UnsetIsNoRecord DEF SetRateLimit
<1>4. /\ r \in RateLimitConfig \cup {Unset} /\ u \in RateUsage \cup {Unset} /\ h \in Issues
      /\ RateEntry(rate[w], used[w], issued[w], now)
  BY <1>1, <1>3, NeverIssuedTyped DEF RateOK
<1>5. RateEntry(r, u, h, now)
  <2>1. CASE KeepsWindow(rate[w], terms)
    <3>1. /\ u = used[w] /\ h = issued[w] /\ rate[w] # Unset
          /\ rate[w].window_seconds = terms.window_seconds
      BY <1>1, <2>1 DEF KeepsWindow
    <3>2. ValidWindow(rate[w].window_seconds)
      BY <1>4, <3>1 DEF RateEntry
    <3>3. r = terms
      BY <1>1, <3>1, <3>2, BucketsAssumption DEF ValidWindow
    <3> QED
      BY <1>3, <1>4, <3>1, <3>2, <3>3 DEF RateEntry
  <2>2. CASE ~ KeepsWindow(rate[w], terms)
    <3>1. u = Unset /\ h = NeverIssued
      BY <1>1, <2>2
    <3>2. r # Unset => ValidWindow(r.window_seconds)
      BY <1>1, <1>3
    <3> QED
      BY <3>1, <3>2, NeverIssuedTyped DEF RateEntry, RateKnown
  <2> QED
    BY <2>1, <2>2
<1> QED
  BY <1>2, <1>4, <1>5, RateWrite

\* Clearing a rate limit keeps its record right.
LEMMA ClearRateStep ==
  ASSUME RateOK, NEW caller, NEW w \in WalletId, ClearRateLimit(caller, w)
  PROVE  RateOK'
<1>1. /\ rate' = [rate EXCEPT ![w] = Unset] /\ used' = [used EXCEPT ![w] = Unset]
      /\ issued' = [issued EXCEPT ![w] = NeverIssued] /\ now' = now
  BY DEF ClearRateLimit
<1>2. RateEntry(Unset, Unset, NeverIssued, now)
  BY NeverIssuedTyped DEF RateEntry, RateKnown
<1>3. Unset \in RateLimitConfig \cup {Unset} /\ Unset \in RateUsage \cup {Unset}
  OBVIOUS
<1> QED
  BY <1>1, <1>2, <1>3, NeverIssuedTyped, RateWrite

\* A spend or a batch charges the rate window within its caps.
LEMMA ChargesRate ==
  ASSUME RateOK, ControlOK, NEW w \in WalletId, NEW charge, NEW tokens, NEW n,
         Charges(w, charge, tokens, n)
  PROVE  RateOK' /\ RateHeld
<1>1. /\ rate \in [WalletId -> RateLimitConfig \cup {Unset}]
      /\ used \in [WalletId -> RateUsage \cup {Unset}]
      /\ issued \in [WalletId -> Issues]
      /\ now \in 0..MaxTime
      /\ \A v \in WalletId : RateEntry(rate[v], used[v], issued[v], now)
  BY DEF RateOK, ControlOK
<1>2. rate' = rate /\ now' = now
  BY DEF Charges
<1>3. CASE rate[w] = Unset
  <2>1. used' = used /\ issued' = issued
    BY <1>3 DEF Charges, EnforceRateLimit, Observed
  <2>2. RateOK'
    BY <1>2, <2>1 DEF RateOK
  <2>3. \A v \in WalletId : issued[v][now].count \in Nat
    <3> SUFFICES ASSUME NEW v \in WalletId PROVE issued[v][now].count \in Nat
      OBVIOUS
    <3>1. issued[v] \in Issues
      BY <1>1
    <3>2. issued[v][now] \in Issue
      BY <1>1, <3>1 DEF Issues
    <3> QED
      BY <3>2 DEF Issue
  <2>4. \A v \in WalletId : ~ (issued'[v][now].count > issued[v][now].count)
    BY <2>1, <2>3
  <2> QED
    BY <2>2, <2>4 DEF RateHeld
<1>4. CASE rate[w] # Unset
  <2>1. PICK terms, stored, hist, time :
          terms = rate[w] /\ stored = used[w] /\ hist = issued[w] /\ time = now
    OBVIOUS
  <2>2. /\ terms \in RateLimitConfig /\ terms # Unset /\ stored \in RateUsage \cup {Unset}
        /\ hist \in Issues /\ time \in 0..MaxTime
    BY <1>1, <1>4, <2>1
  <2>3. PICK amount : amount = SumFunctionOnSet(charge, DOMAIN charge)
    OBVIOUS
  <2>4. amount \in Nat /\ n \in Nat
    BY <2>3, SumNat DEF Charges, Quantities
  <2>5. PICK out : out = SumFunctionOnSet(tokens, DOMAIN tokens)
    OBVIOUS
  <2>6. out \in Nat
    BY <2>5, SumNat DEF Charges, Quantities
  <2>7. PICK u, later, m :
          /\ u = ChargedRate(RolledRateUsage(stored, terms, time), amount, n)
          /\ later = [hist EXCEPT ![time] = [volume |-> hist[time].volume + amount,
                                             count |-> hist[time].count + n,
                                             taken |-> hist[time].taken + out]]
          /\ m = BucketSeconds(terms.window_seconds)
    OBVIOUS
  <2>8. RateEntry(terms, stored, hist, time)
    BY <1>1, <2>1
  <2>9. ValidWindow(terms.window_seconds) /\ RateKnown(stored, hist, m, time)
    BY <2>2, <2>7, <2>8 DEF RateEntry
  <2>10. rate[w].window_seconds # 0
    BY <2>1, <2>9, WalletAssumption, BucketsAssumption DEF ValidWindow
  <2>11. used' = [used EXCEPT ![w] = u]
    BY <1>4, <2>1, <2>3, <2>7, <2>10 DEF Charges, EnforceRateLimit
  <2>12. issued' = [issued EXCEPT ![w] = later]
    BY <1>1, <1>4, <2>1, <2>3, <2>7, <2>5 DEF Charges, Observed
  <2>13. WithinRate(terms, RolledRateUsage(stored, terms, time), amount, n)
    BY <1>4, <2>1, <2>3, <2>10 DEF Charges, EnforceRateLimit
  <2>14. hist[time] \in Issue
    BY <2>2 DEF Issues
  <2>15. [volume |-> hist[time].volume + amount, count |-> hist[time].count + n,
          taken |-> hist[time].taken + out] \in Issue
    BY <2>4, <2>14, <2>6 DEF Issue
  <2>16. later \in Issues
    BY <2>2, <2>7, <2>15 DEF Issues
  <2>17. \A t \in 0..MaxTime :
           /\ later[t].volume = IF t = time THEN hist[t].volume + amount ELSE hist[t].volume
           /\ later[t].count = IF t = time THEN hist[t].count + n ELSE hist[t].count
    BY <2>2, <2>7 DEF Issues
  <2>18. /\ Adds(Volume(later), Volume(hist), time, amount)
         /\ Adds(Count(later), Count(hist), time, n)
    BY <2>2, <2>16, <2>17, IssuesTyped DEF Adds
  <2>19. /\ u \in RateUsage /\ RateKnown(u, later, m, time)
         /\ \/ terms.max_volume = 0
            \/ SumFunctionOnSet(Volume(later), Span(m, time)) <= terms.max_volume
         /\ \/ terms.max_count = 0
            \/ SumFunctionOnSet(Count(later), Span(m, time)) <= terms.max_count
    BY <2>2, <2>4, <2>7, <2>9, <2>13, <2>16, <2>18, ChargedRateKnown
  <2>20. RateEntry(terms, u, later, time)
    BY <2>2, <2>7, <2>9, <2>19 DEF RateEntry
  <2>21. RateOK'
    <3>1. rate' = [rate EXCEPT ![w] = terms]
      BY <1>1, <1>2, <2>1
    <3> QED
      BY <1>2, <2>1, <2>2, <2>11, <2>12, <2>16, <2>19, <2>20, <3>1, RateWrite
  <2>22. ASSUME NEW v \in WalletId, issued'[v][now].count > issued[v][now].count PROVE v = w
    <3>1. CASE v # w
      <4>1. issued'[v] = issued[v]
        BY <1>1, <2>12, <3>1
      <4>2. issued[v] \in Issues
        BY <1>1
      <4>3. issued[v][now] \in Issue
        BY <1>1, <4>2 DEF Issues
      <4>4. issued[v][now].count \in Nat
        BY <4>3 DEF Issue
      <4> QED
        BY <2>22, <4>1, <4>4
    <3> QED
      BY <3>1
  <2>23. issued'[w] = later
    BY <1>1, <2>12
  <2>24. /\ Volume(issued[w])' = Volume(later) /\ Count(issued[w])' = Count(later)
         /\ Tokens(issued[w])' = Tokens(later)
    BY <2>23 DEF Volume, Count, Tokens
  <2>25. TrailingSpan(rate[w].window_seconds) = Span(m, time)
    BY <2>1, <2>7 DEF TrailingSpan, Span
  <2>26. \/ terms.max_volume = 0
         \/ Bounded(Volume(later), Tokens(later), Span(m, time), terms.max_volume)
    <3>1. m \in Nat /\ terms.max_volume \in Nat
      BY <2>2, <2>7, <2>9, BucketOfValidWindow DEF RateLimitConfig
    <3>2. Volume(later) \in History /\ Tokens(later) \in History
      BY <2>16, IssuesTyped
    <3> QED
      BY <2>2, <2>19, <3>1, <3>2, DeclaredBounds
  <2>27. RateHeld
    BY <2>1, <2>19, <2>22, <2>24, <2>25, <2>26 DEF RateHeld
  <2> QED
    BY <2>21, <2>27
<1> QED
  BY <1>3, <1>4

\* Every step keeps the rate records right and no span beyond its limits.
LEMMA RateStep ==
  ASSUME ControlOK, AccessOK, RateOK, [Next]_vars
  PROVE  RateOK' /\ RateHeld
<1> USE WalletAssumption
<1>0. /\ rate \in [WalletId -> RateLimitConfig \cup {Unset}]
      /\ used \in [WalletId -> RateUsage \cup {Unset}]
      /\ issued \in [WalletId -> Issues]
      /\ now \in 0..MaxTime
      /\ \A v \in WalletId : RateEntry(rate[v], used[v], issued[v], now)
  BY DEF RateOK, ControlOK
<1>1. ASSUME \A w \in WalletId : issued'[w] \in {issued[w], NeverIssued} PROVE RateHeld
  <2>1. ASSUME NEW w \in WalletId PROVE ~ (issued'[w][now].count > issued[w][now].count)
    <3>1. issued[w] \in Issues
      BY <1>0
    <3>2. issued[w][now] \in Issue
      BY <1>0, <3>1 DEF Issues
    <3>3. issued[w][now].count \in Nat
      BY <3>2 DEF Issue
    <3>4. NeverIssued[now].count = 0
      BY <1>0, NeverIssuedTyped
    <3>5. CASE issued'[w] = issued[w]
      BY <3>3, <3>5
    <3>6. CASE issued'[w] = NeverIssued
      BY <3>3, <3>4, <3>6
    <3> QED
      BY <1>1, <3>5, <3>6
  <2> QED
    BY <2>1 DEF RateHeld
<1>2. ASSUME UNCHANGED <<rate, used, issued>>, now' \in 0..MaxTime, now <= now'
      PROVE  RateOK' /\ RateHeld
  <2>1. ASSUME NEW w \in WalletId PROVE RateEntry(rate[w], used[w], issued[w], now')
    <3>1. /\ rate[w] \in RateLimitConfig \cup {Unset} /\ used[w] \in RateUsage \cup {Unset}
          /\ issued[w] \in Issues /\ RateEntry(rate[w], used[w], issued[w], now)
      BY <1>0
    <3> QED
      BY <1>0, <1>2, <3>1, RateEntryLater
  <2>2. RateOK'
    BY <1>0, <1>2, <2>1 DEF RateOK
  <2> QED
    BY <1>1, <1>2, <2>2
<1>3. ASSUME NEW caller \in Addr, NEW w \in WalletId,
             \/ \E terms \in RateTerms : SetRateLimit(caller, w, terms)
             \/ ClearRateLimit(caller, w)
      PROVE  RateOK' /\ RateHeld
  <2>1. PICK h : issued' = [issued EXCEPT ![w] = h] /\ h \in {issued[w], NeverIssued}
    BY <1>3 DEF SetRateLimit, ClearRateLimit
  <2>2. \A v \in WalletId : issued'[v] \in {issued[v], NeverIssued}
    BY <1>0, <2>1
  <2> QED
    BY <1>1, <1>3, <2>2, SetRateStep, ClearRateStep
<1>4. ASSUME NEW caller \in Addr, NEW w \in WalletId, NEW a \in Asset,
             \/ \E terms \in VelocityTerms : SetVelocityLimit(caller, w, a, terms)
             \/ ClearVelocityLimit(caller, w, a)
      PROVE  RateOK' /\ RateHeld
  <2>1. UNCHANGED <<rate, used, issued>> /\ now' = now
    BY <1>4 DEF SetVelocityLimit, ClearVelocityLimit
  <2>2. now' \in 0..MaxTime /\ now <= now'
    BY <1>0, <2>1
  <2> QED
    BY <1>2, <2>1, <2>2
<1>5. ASSUME NEW w \in WalletId, \E charge, tokens, n : Charges(w, charge, tokens, n) PROVE RateOK' /\ RateHeld
  BY <1>5, ChargesRate
<1>6. ASSUME UNCHANGED limits, now' \in 0..MaxTime, now <= now' PROVE RateOK' /\ RateHeld
  BY <1>2, <1>6 DEF limits
<1> QED
  BY <1>3, <1>4, <1>5, <1>6, LimitWrites

-----------------------------------------------------------------------------
(* Value                                                                    *)

\* The calls that move value, and what each has passed.
LEMMA ValueWrites ==
  ASSUME AccessOK, [Next]_vars
  PROVE  \/ UNCHANGED <<balance, drift, custody, consumed>>
         \/ \E w \in DOMAIN wallet : \E a \in Asset, d \in Deposits : Deposit(w, a, d.amount, d.fee)
         \/ \E w \in DOMAIN wallet : \E a \in Asset, n \in Amounts : \E to : \E gates \in ResolveGates :
              WhenNotPaused /\ RequireActive(w) /\ Spend(w, a, to, n, gates)
         \/ \E w \in DOMAIN wallet : \E caller \in Addr, b \in Batches : \E gates \in ResolveGates :
              BatchExecuteValidated(caller, w, b, gates)
<1> DEFINE Keeps == UNCHANGED <<balance, drift, custody, consumed>>
           Deposited(w) == \E a \in Asset, d \in Deposits : Deposit(w, a, d.amount, d.fee)
           Spends(w) == \E a \in Asset, n \in Amounts : \E to : \E gates \in ResolveGates :
                          WhenNotPaused /\ RequireActive(w) /\ Spend(w, a, to, n, gates)
           Batched(w) == \E caller \in Addr, b \in Batches : \E gates \in ResolveGates :
                           BatchExecuteValidated(caller, w, b, gates)
<1>1. ASSUME UNCHANGED vars \/ Tick PROVE Keeps
  BY <1>1 DEF vars, Tick, funds
<1>2. ASSUME NEW a \in Addr, Initialize(a) \/ CreateWallet(a) PROVE Keeps
  BY <1>2 DEF Initialize, CreateWallet, funds
<1>3. ASSUME NEW caller \in Addr, Admin(caller) PROVE Keeps
  BY <1>3, AdminFrame DEF funds
<1>4. ASSUME NEW caller \in Addr, NEW w, Manage(caller, w) PROVE Keeps
  BY <1>4, ManageFrame DEF funds
<1>5. ASSUME NEW w \in DOMAIN wallet, Move(w) PROVE Deposited(w) \/ Spends(w) \/ Batched(w)
  <2>1. ASSUME NEW caller \in Addr, NEW to \in Recipient, NEW a \in Asset, NEW n \in Amounts,
               NEW gates \in ResolveGates, Transfer(caller, w, to, a, n, gates)
        PROVE  Spends(w)
    BY <2>1 DEF Transfer
  <2>2. ASSUME NEW caller \in Addr, NEW a \in Asset, NEW n \in Amounts,
               NEW gates \in ResolveGates, Withdraw(caller, w, a, n, gates)
        PROVE  Spends(w)
    BY <2>2 DEF Withdraw
  <2> HIDE DEF Spends
  <2> QED
    BY <1>5, <2>1, <2>2 DEF Move
<1>6. Keeps \/ \E w \in DOMAIN wallet : Deposited(w) \/ Spends(w) \/ Batched(w)
  <2> HIDE DEF Keeps, Deposited, Spends, Batched
  <2> QED
    BY <1>1, <1>2, <1>3, <1>4, <1>5 DEF Next
<1> QED
  BY <1>6

\* The tables of what wallets hold, before and after.
LEMMA DepositEffect ==
  ASSUME FundsOK, NEW w \in WalletId, NEW a \in Asset, NEW amount \in Nat, NEW fee \in Nat,
         fee <= amount, Deposit(w, a, amount, fee)
  PROVE  /\ FundsOK' /\ consumed' = consumed
         /\ \A b \in Asset : custody'[b] = IF b = a THEN custody[b] + amount - fee ELSE custody[b]
         /\ \A v \in WalletId, b \in Asset :
              /\ balance'[v][b] = IF v = w /\ b = a THEN balance[v][b] + amount ELSE balance[v][b]
              /\ drift'[v][b] = IF v = w /\ b = a THEN drift[v][b] + fee ELSE drift[v][b]
<1>1. /\ balance' = [balance EXCEPT ![w][a] = balance[w][a] + amount]
      /\ drift' = [drift EXCEPT ![w][a] = drift[w][a] + fee]
      /\ custody' = [custody EXCEPT ![a] = custody[a] + amount - fee]
      /\ consumed' = consumed
  BY DEF Deposit
<1>2. /\ balance \in [WalletId -> [Asset -> Nat]] /\ drift \in [WalletId -> [Asset -> Nat]]
      /\ custody \in [Asset -> Nat] /\ consumed \in [Envelope -> Nat]
  BY DEF FundsOK
<1>3. /\ balance[w][a] + amount \in Nat /\ drift[w][a] + fee \in Nat
      /\ custody[a] + amount - fee \in Nat
  BY <1>2
<1>4. /\ balance' \in [WalletId -> [Asset -> Nat]]
      /\ \A v \in WalletId, b \in Asset :
           balance'[v][b] = IF v = w /\ b = a THEN balance[w][a] + amount ELSE balance[v][b]
  BY <1>1, <1>2, <1>3, TableWrite
<1>5. /\ drift' \in [WalletId -> [Asset -> Nat]]
      /\ \A v \in WalletId, b \in Asset :
           drift'[v][b] = IF v = w /\ b = a THEN drift[w][a] + fee ELSE drift[v][b]
  BY <1>1, <1>2, <1>3, TableWrite
<1>6. /\ custody' \in [Asset -> Nat]
      /\ \A b \in Asset : custody'[b] = IF b = a THEN custody[a] + amount - fee ELSE custody[b]
  BY <1>1, <1>2, <1>3
<1> QED
  BY <1>1, <1>2, <1>4, <1>5, <1>6 DEF FundsOK

\* What a spend does to the books, and to the envelope it falls under.
Debits(w, a, amount) ==
  /\ drift' = drift /\ custody[a] >= amount /\ balance[w][a] >= amount
  /\ \A b \in Asset : custody'[b] = IF b = a THEN custody[b] - amount ELSE custody[b]
  /\ \A v \in WalletId, b \in Asset :
       balance'[v][b] = IF v = w /\ b = a THEN balance[v][b] - amount ELSE balance[v][b]

Budgets(a, amount, gates) ==
  gates.budget /\ BudgetIdFor(a) # Unset =>
    consumed'[BudgetIdFor(a)] = consumed[BudgetIdFor(a)] + amount

\* A transfer or withdrawal debits its wallet, custody and its budget alike.
LEMMA SpendEffect ==
  ASSUME FundsOK, NEW w \in WalletId, NEW a \in Asset, NEW to, NEW amount \in Nat, NEW gates,
         Spend(w, a, to, amount, gates)
  PROVE  FundsOK' /\ Debits(w, a, amount) /\ Budgets(a, amount, gates)
<1> USE WalletAssumption
<1>1. /\ balance' = [balance EXCEPT ![w][a] = balance[w][a] - amount] /\ drift' = drift
      /\ custody' = [custody EXCEPT ![a] = custody[a] - amount]
      /\ balance[w][a] >= amount /\ custody[a] >= amount
  BY DEF Spend
<1>2. /\ balance \in [WalletId -> [Asset -> Nat]] /\ drift \in [WalletId -> [Asset -> Nat]]
      /\ custody \in [Asset -> Nat] /\ consumed \in [Envelope -> Nat]
  BY DEF FundsOK
<1>3. balance[w][a] - amount \in Nat /\ custody[a] - amount \in Nat
  BY <1>1, <1>2
<1>4. /\ balance' \in [WalletId -> [Asset -> Nat]]
      /\ \A v \in WalletId, b \in Asset :
           balance'[v][b] = IF v = w /\ b = a THEN balance[w][a] - amount ELSE balance[v][b]
  BY <1>1, <1>2, <1>3, TableWrite
<1>5. /\ custody' \in [Asset -> Nat]
      /\ \A b \in Asset : custody'[b] = IF b = a THEN custody[a] - amount ELSE custody[b]
  BY <1>1, <1>2, <1>3
<1>6. PICK id : id = BudgetIdFor(a)
  OBVIOUS
<1>7. id # Unset => id \in Envelope
  BY <1>6 DEF BudgetIdFor, Envelope
<1>8. consumed' = IF gates.budget /\ id # Unset THEN [consumed EXCEPT ![id] = consumed[id] + amount]
                                                ELSE consumed
  BY <1>6 DEF Spend, PreExecuteChecks
<1>9. /\ consumed' \in [Envelope -> Nat]
      /\ gates.budget /\ id # Unset => consumed'[id] = consumed[id] + amount
  <2>1. CASE gates.budget /\ id # Unset
    <3>1. consumed[id] + amount \in Nat /\ id \in Envelope
      BY <1>2, <1>7, <2>1
    <3> QED
      BY <1>2, <1>8, <2>1, <3>1
  <2>2. CASE ~ (gates.budget /\ id # Unset)
    BY <1>2, <1>8, <2>2
  <2> QED
    BY <2>1, <2>2
<1> QED
  BY <1>1, <1>2, <1>4, <1>5, <1>6, <1>9 DEF FundsOK, Debits, Budgets

\* The calls of a batch take from custody what is recorded as drift.
LEMMA BatchEffect ==
  ASSUME FundsOK, NEW w \in WalletId, NEW caller, NEW b \in Batches, NEW gates,
         BatchExecuteValidated(caller, w, b, gates)
  PROVE  /\ FundsOK' /\ balance' = balance
         /\ \A a \in Asset : /\ Takes(b, a) \in Nat
                             /\ custody'[a] = custody[a] - Takes(b, a)
                             /\ drift'[w][a] = drift[w][a] + Takes(b, a)
         /\ \A v \in WalletId : v # w => drift'[v] = drift[v]
<1> USE WalletAssumption
<1>1. /\ \A a \in Asset : Takes(b, a) \in Nat
      /\ \A id : Draws(b, id) \in Nat
  BY BatchTotals
<1>2. /\ balance \in [WalletId -> [Asset -> Nat]] /\ drift \in [WalletId -> [Asset -> Nat]]
      /\ custody \in [Asset -> Nat] /\ consumed \in [Envelope -> Nat]
  BY DEF FundsOK
<1>3. /\ \A a \in Asset : Takes(b, a) <= custody[a]
      /\ custody' = [a \in Asset |-> custody[a] - Takes(b, a)]
      /\ drift' = [drift EXCEPT ![w] = [a \in Asset |-> drift[w][a] + Takes(b, a)]]
      /\ balance' = balance
      /\ consumed' = [id \in Envelope |-> consumed[id] + Draws(b, id)]
  BY DEF BatchExecuteValidated, ExecuteCalls, BatchGates
<1>4. custody' \in [Asset -> Nat] /\ \A a \in Asset : custody'[a] = custody[a] - Takes(b, a)
  BY <1>1, <1>2, <1>3
<1>5. consumed' \in [Envelope -> Nat]
  BY <1>1, <1>2, <1>3
<1>6. PICK row : row = [a \in Asset |-> drift[w][a] + Takes(b, a)]
  OBVIOUS
<1>7. row \in [Asset -> Nat] /\ \A a \in Asset : row[a] = drift[w][a] + Takes(b, a)
  BY <1>1, <1>2, <1>6
<1>8. drift' = [drift EXCEPT ![w] = row]
  BY <1>3, <1>6
<1>9. /\ drift' \in [WalletId -> [Asset -> Nat]] /\ drift'[w] = row
      /\ \A v \in WalletId : v # w => drift'[v] = drift[v]
  BY <1>2, <1>7, <1>8
<1> QED
  BY <1>1, <1>2, <1>3, <1>4, <1>5, <1>7, <1>9 DEF FundsOK

\* Books and custody move together when one wallet's backing moves by what
\* custody does.
LEMMA BooksMove ==
  ASSUME FundsOK, FundsOK', BooksExplainCustody, NEW w \in WalletId,
         \A v \in WalletId, a \in Asset : v # w => Backing(v, a)' = Backing(v, a),
         \A a \in Asset : custody'[a] - custody[a] = Backing(w, a)' - Backing(w, a)
  PROVE  BooksExplainCustody'
<1>1. ASSUME NEW a \in Asset
      PROVE  custody'[a] = SumFunctionOnSet([v \in WalletId |-> Backing(v, a)'], WalletId)
  <2>1. PICK f, g : /\ f = [v \in WalletId |-> Backing(v, a)]
                    /\ g = [v \in WalletId |-> Backing(v, a)']
    OBVIOUS
  <2>2. \A v \in WalletId : f[v] = Backing(v, a) /\ g[v] = Backing(v, a)'
    BY <2>1
  <2>3. \A v \in WalletId : Backing(v, a) \in Int /\ Backing(v, a)' \in Int
    BY DEF FundsOK, Backing
  <2>4. \A v \in WalletId : f[v] \in Int /\ g[v] \in Int
    BY <2>2, <2>3
  <2>5. \A v \in WalletId \ {w} : g[v] = f[v]
    BY <2>2
  <2>6. IsFiniteSet(WalletId)
    BY WalletAssumption, FS_Interval DEF WalletId
  <2>7. SumFunctionOnSet(g, WalletId) = SumFunctionOnSet(f, WalletId) + g[w] - f[w]
    BY <2>4, <2>5, <2>6, SumChanged
  <2>8. custody[a] = SumFunctionOnSet(f, WalletId)
    BY <2>1 DEF BooksExplainCustody
  <2>9. custody[a] \in Int /\ custody'[a] \in Int /\ custody'[a] - custody[a] = g[w] - f[w]
    BY <2>2 DEF FundsOK
  <2>10. custody'[a] = SumFunctionOnSet(g, WalletId)
    BY <2>4, <2>7, <2>8, <2>9
  <2> QED
    BY <2>1, <2>10
<1> QED
  BY <1>1 DEF BooksExplainCustody

\* A deposit delivers at most what was asked.
LEMMA DepositArguments ==
  ASSUME NEW d \in Deposits
  PROVE  d.amount \in Nat /\ d.fee \in Nat /\ d.fee <= d.amount
  BY WalletAssumption

\* A deposit adds to the backing of its wallet, a spend and a batch take from
\* it, and nothing else moves value.
LEMMA ValueStep ==
  ASSUME AccessOK, FundsOK, BooksExplainCustody, [Next]_vars
  PROVE  FundsOK' /\ BooksExplainCustody'
<1> USE WalletAssumption
<1>0. /\ balance \in [WalletId -> [Asset -> Nat]] /\ drift \in [WalletId -> [Asset -> Nat]]
      /\ custody \in [Asset -> Nat]
  BY DEF FundsOK
<1>1. ASSUME UNCHANGED <<balance, drift, custody, consumed>> PROVE FundsOK' /\ BooksExplainCustody'
  BY <1>1 DEF FundsOK, BooksExplainCustody, Backing
<1>2. ASSUME NEW w \in DOMAIN wallet, NEW a \in Asset, NEW d \in Deposits,
             Deposit(w, a, d.amount, d.fee)
      PROVE  FundsOK' /\ BooksExplainCustody'
  <2>1. PICK amount, fee : amount = d.amount /\ fee = d.fee
    OBVIOUS
  <2>2. w \in WalletId /\ amount \in Nat /\ fee \in Nat /\ fee <= amount
    BY <2>1, DepositArguments, WalletIds
  <2>3. /\ FundsOK'
        /\ \A b \in Asset : custody'[b] = IF b = a THEN custody[b] + amount - fee ELSE custody[b]
        /\ \A v \in WalletId, b \in Asset :
             /\ balance'[v][b] = IF v = w /\ b = a THEN balance[v][b] + amount ELSE balance[v][b]
             /\ drift'[v][b] = IF v = w /\ b = a THEN drift[v][b] + fee ELSE drift[v][b]
    BY <1>2, <2>1, <2>2, DepositEffect
  <2>4. \A v \in WalletId, b \in Asset : v # w => Backing(v, b)' = Backing(v, b)
    BY <2>3 DEF Backing
  <2>5. ASSUME NEW b \in Asset PROVE custody'[b] - custody[b] = Backing(w, b)' - Backing(w, b)
    <3>1. balance[w][b] \in Nat /\ drift[w][b] \in Nat /\ custody[b] \in Nat
      BY <1>0, <2>2
    <3>2. CASE b = a
      <4>1. /\ custody'[b] = custody[b] + amount - fee /\ balance'[w][b] = balance[w][b] + amount
            /\ drift'[w][b] = drift[w][b] + fee
        BY <2>2, <2>3, <3>2
      <4>2. PICK c, x, y, c1, x1, y1 :
              /\ c = custody[b] /\ x = balance[w][b] /\ y = drift[w][b]
              /\ c1 = custody'[b] /\ x1 = balance'[w][b] /\ y1 = drift'[w][b]
        OBVIOUS
      <4>3. c \in Nat /\ x \in Nat /\ y \in Nat /\ c1 = c + amount - fee /\ x1 = x + amount /\ y1 = y + fee
        BY <3>1, <4>1, <4>2
      <4>4. c1 - c = (x1 - y1) - (x - y)
        BY <2>2, <4>3
      <4> QED
        BY <4>2, <4>4 DEF Backing
    <3>3. CASE b # a
      BY <2>2, <2>3, <3>1, <3>3 DEF Backing
    <3> QED
      BY <3>2, <3>3
  <2> QED
    BY <2>2, <2>3, <2>4, <2>5, BooksMove
<1>3. ASSUME NEW w \in DOMAIN wallet, NEW a \in Asset, NEW n \in Amounts, NEW to, NEW gates,
             Spend(w, a, to, n, gates)
      PROVE  FundsOK' /\ BooksExplainCustody'
  <2>1. w \in WalletId /\ n \in Nat
    BY WalletIds
  <2>0. FundsOK' /\ Debits(w, a, n)
    BY <1>3, <2>1, SpendEffect
  <2>2. /\ FundsOK' /\ drift' = drift
        /\ \A b \in Asset : custody'[b] = IF b = a THEN custody[b] - n ELSE custody[b]
        /\ \A v \in WalletId, b \in Asset :
             balance'[v][b] = IF v = w /\ b = a THEN balance[v][b] - n ELSE balance[v][b]
    BY <2>0 DEF Debits
  <2>3. \A v \in WalletId, b \in Asset : v # w => Backing(v, b)' = Backing(v, b)
    BY <2>2 DEF Backing
  <2>4. ASSUME NEW b \in Asset PROVE custody'[b] - custody[b] = Backing(w, b)' - Backing(w, b)
    <3>1. balance[w][b] \in Nat /\ drift[w][b] \in Nat /\ custody[b] \in Nat
      BY <1>0, <2>1
    <3>2. CASE b = a
      <4>1. custody'[b] = custody[b] - n /\ balance'[w][b] = balance[w][b] - n /\ drift'[w][b] = drift[w][b]
        BY <2>1, <2>2, <3>2
      <4>2. \A c \in Nat, x \in Nat, y \in Nat : (c - n) - c = ((x - n) - y) - (x - y)
        BY <2>1
      <4> QED
        BY <3>1, <4>1, <4>2 DEF Backing
    <3>3. CASE b # a
      BY <2>1, <2>2, <3>1, <3>3 DEF Backing
    <3> QED
      BY <3>2, <3>3
  <2> QED
    BY <2>1, <2>2, <2>3, <2>4, BooksMove
<1>4. ASSUME NEW w \in DOMAIN wallet, NEW caller \in Addr, NEW b \in Batches, NEW gates,
             BatchExecuteValidated(caller, w, b, gates)
      PROVE  FundsOK' /\ BooksExplainCustody'
  <2>1. w \in WalletId
    BY WalletIds
  <2>2. /\ FundsOK' /\ balance' = balance
        /\ \A a \in Asset : /\ Takes(b, a) \in Nat
                            /\ custody'[a] = custody[a] - Takes(b, a)
                            /\ drift'[w][a] = drift[w][a] + Takes(b, a)
        /\ \A v \in WalletId : v # w => drift'[v] = drift[v]
    BY <1>4, <2>1, BatchEffect
  <2>3. \A v \in WalletId, a \in Asset : v # w => Backing(v, a)' = Backing(v, a)
    BY <2>2 DEF Backing
  <2>4. ASSUME NEW a \in Asset PROVE custody'[a] - custody[a] = Backing(w, a)' - Backing(w, a)
    <3>1. balance[w][a] \in Nat /\ drift[w][a] \in Nat /\ custody[a] \in Nat
      BY <1>0, <2>1
    <3>2. PICK k \in Nat : custody'[a] = custody[a] - k /\ drift'[w][a] = drift[w][a] + k
      BY <2>2
    <3>3. \A c \in Nat, x \in Nat, y \in Nat : (c - k) - c = (x - (y + k)) - (x - y)
      OBVIOUS
    <3>4. balance'[w][a] = balance[w][a]
      BY <2>2
    <3> QED
      BY <3>1, <3>2, <3>3, <3>4 DEF Backing
  <2> QED
    BY <2>1, <2>2, <2>3, <2>4, BooksMove
<1> QED
  BY <1>1, <1>2, <1>3, <1>4, ValueWrites

-----------------------------------------------------------------------------
(* The gates                                                                *)

\* While stopped, frozen or paused nothing leaves.
LEMMA StoppedStep ==
  ASSUME AccessOK, FundsOK, [Next]_vars
  PROVE  StoppedMovesNothing
<1> USE WalletAssumption
<1> SUFFICES ASSUME NEW v \in DOMAIN wallet, config.paused \/ wallet[v].state # "Active",
                    NEW b \in Asset
             PROVE  Backing(v, b)' >= Backing(v, b)
  BY DEF StoppedMovesNothing
<1>0. v \in WalletId /\ config \in Config
  BY WalletIds
<1>1. balance[v][b] \in Nat /\ drift[v][b] \in Nat
  BY <1>0 DEF FundsOK
<1>2. config # Unset
  BY <1>0, UnsetIsNoRecord
<1>3. ASSUME balance'[v][b] = balance[v][b], drift'[v][b] = drift[v][b]
      PROVE  Backing(v, b)' >= Backing(v, b)
  BY <1>1, <1>3 DEF Backing
<1>4. ASSUME UNCHANGED <<balance, drift, custody, consumed>> PROVE Backing(v, b)' >= Backing(v, b)
  BY <1>3, <1>4
<1>5. ASSUME NEW w \in DOMAIN wallet, NEW a \in Asset, NEW d \in Deposits,
             Deposit(w, a, d.amount, d.fee)
      PROVE  Backing(v, b)' >= Backing(v, b)
  <2>1. PICK amount, fee : amount = d.amount /\ fee = d.fee
    OBVIOUS
  <2>2. w \in WalletId /\ amount \in Nat /\ fee \in Nat /\ fee <= amount
    BY <2>1, DepositArguments, WalletIds
  <2>3. /\ balance'[v][b] = IF v = w /\ b = a THEN balance[v][b] + amount ELSE balance[v][b]
        /\ drift'[v][b] = IF v = w /\ b = a THEN drift[v][b] + fee ELSE drift[v][b]
    BY <1>0, <1>5, <2>1, <2>2, DepositEffect
  <2>4. CASE v = w /\ b = a
    <3>1. balance'[v][b] = balance[v][b] + amount /\ drift'[v][b] = drift[v][b] + fee
      BY <2>3, <2>4
    <3>2. \A x \in Nat, y \in Nat : (x + amount) - (y + fee) >= x - y
      BY <2>2
    <3> QED
      BY <1>1, <3>1, <3>2 DEF Backing
  <2>5. CASE ~(v = w /\ b = a)
    BY <1>3, <2>3, <2>5
  <2> QED
    BY <2>4, <2>5
<1>6. ASSUME NEW w \in DOMAIN wallet, NEW a \in Asset, NEW n \in Amounts, NEW to, NEW gates,
             WhenNotPaused, RequireActive(w), Spend(w, a, to, n, gates)
      PROVE  Backing(v, b)' >= Backing(v, b)
  <2>1. w # v
    BY <1>2, <1>6 DEF WhenNotPaused, Initialized, RequireActive
  <2>2. w \in WalletId /\ n \in Nat
    BY WalletIds
  <2>3. Debits(w, a, n)
    BY <1>6, <2>2, SpendEffect
  <2>4. balance'[v][b] = balance[v][b] /\ drift' = drift
    BY <1>0, <2>1, <2>3 DEF Debits
  <2> QED
    BY <1>3, <2>4
<1>7. ASSUME NEW w \in DOMAIN wallet, NEW caller \in Addr, NEW batch \in Batches, NEW gates,
             BatchExecuteValidated(caller, w, batch, gates)
      PROVE  Backing(v, b)' >= Backing(v, b)
  <2>1. w # v
    BY <1>2, <1>7 DEF BatchExecuteValidated, WhenNotPaused, Initialized, RequireActive
  <2>2. w \in WalletId
    BY WalletIds
  <2>3. balance' = balance /\ drift'[v] = drift[v]
    BY <1>0, <1>7, <2>1, <2>2, BatchEffect
  <2> QED
    BY <1>3, <2>3
<1> QED
  BY <1>4, <1>5, <1>6, <1>7, ValueWrites

\* What a wallet spends is charged to the budget the gates name.
LEMMA BudgetedStep ==
  ASSUME AccessOK, FundsOK, [Next]_vars
  PROVE  SpendsAreBudgeted
<1> USE WalletAssumption
<1> SUFFICES ASSUME NEW v \in DOMAIN wallet, NEW b \in Asset, balance'[v][b] < balance[v][b],
                    config.budget, ~ (config.registry /\ config.org), BudgetIdFor(b) # Unset
             PROVE  consumed'[BudgetIdFor(b)] - consumed[BudgetIdFor(b)]
                      = balance[v][b] - balance'[v][b]
  BY DEF SpendsAreBudgeted
<1>0. v \in WalletId
  BY WalletIds
<1>1. balance[v][b] \in Nat
  BY <1>0 DEF FundsOK
<1>2. balance'[v][b] # balance[v][b]
  BY <1>1
<1>3. ASSUME NEW w \in DOMAIN wallet, NEW a \in Asset, NEW d \in Deposits,
             Deposit(w, a, d.amount, d.fee)
      PROVE  FALSE
  <2>1. PICK amount, fee : amount = d.amount /\ fee = d.fee
    OBVIOUS
  <2>2. w \in WalletId /\ amount \in Nat /\ fee \in Nat /\ fee <= amount
    BY <2>1, DepositArguments, WalletIds
  <2>3. balance'[v][b] = IF v = w /\ b = a THEN balance[v][b] + amount ELSE balance[v][b]
    BY <1>0, <1>3, <2>1, <2>2, DepositEffect
  <2> QED
    BY <1>1, <2>2, <2>3
<1>4. ASSUME NEW w \in DOMAIN wallet, NEW a \in Asset, NEW n \in Amounts, NEW to,
             NEW gates \in ResolveGates, Spend(w, a, to, n, gates)
      PROVE  consumed'[BudgetIdFor(b)] - consumed[BudgetIdFor(b)] = balance[v][b] - balance'[v][b]
  <2>1. w \in WalletId /\ n \in Nat
    BY WalletIds
  <2>0. Debits(w, a, n) /\ Budgets(a, n, gates)
    BY <1>4, <2>1, SpendEffect
  <2>2. balance'[v][b] = IF v = w /\ b = a THEN balance[v][b] - n ELSE balance[v][b]
    BY <1>0, <2>0 DEF Debits
  <2>3. v = w /\ b = a
    BY <1>2, <2>2
  <2>4. gates.budget
    BY DEF ResolveGates
  <2>5. PICK id : id = BudgetIdFor(b)
    OBVIOUS
  <2>6. consumed'[id] = consumed[id] + n
    BY <2>0, <2>3, <2>4, <2>5 DEF Budgets
  <2>7. id \in Envelope
    BY <2>5 DEF BudgetIdFor, Envelope
  <2>8. consumed[id] \in Nat
    BY <2>7 DEF FundsOK
  <2>9. consumed'[id] - consumed[id] = balance[v][b] - balance'[v][b]
    BY <1>1, <2>1, <2>2, <2>3, <2>6, <2>8
  <2> QED
    BY <2>5, <2>9
<1>5. ASSUME NEW w \in DOMAIN wallet, NEW caller \in Addr, NEW batch \in Batches, NEW gates,
             BatchExecuteValidated(caller, w, batch, gates)
      PROVE  FALSE
  BY <1>2, <1>5 DEF BatchExecuteValidated
<1> QED
  BY <1>2, <1>3, <1>4, <1>5, ValueWrites

\* What the calls on an archived wallet may still write.
CleanedUp(v) ==
  /\ \A a \in Addr : role'[v][a] \in {role[v][a], Unset}
  /\ \A a \in Asset : velocity'[v][a] \in {velocity[v][a], Unset}
  /\ rate'[v] \in {rate[v], Unset}

\* Managing calls leave an archived wallet alone, but for cleaning up.
LEMMA ArchivedManaged ==
  ASSUME AccessOK, VelocityOK, RateOK, NEW v \in DOMAIN wallet, wallet[v].state = "Archived",
         NEW caller \in Addr, NEW w \in DOMAIN wallet, Manage(caller, w)
  PROVE  wallet'[v] = wallet[v] /\ CleanedUp(v)
<1>0. /\ v \in WalletId /\ w \in WalletId
      /\ role \in [WalletId -> [Addr -> Role \cup {Unset}]]
      /\ velocity \in [WalletId -> [Asset -> VelocityLimit \cup {Unset}]]
      /\ rate \in [WalletId -> RateLimitConfig \cup {Unset}]
  BY WalletIds DEF AccessOK, VelocityOK, RateOK
<1>1. ASSUME NEW st, w # v, GoesTo(w, st) PROVE wallet'[v] = wallet[v] /\ CleanedUp(v)
  <2>1. wallet' = [wallet EXCEPT ![w].state = st] /\ role' = role /\ velocity' = velocity /\ rate' = rate
    BY <1>1 DEF GoesTo, limits
  <2>2. wallet'[v] = wallet[v]
    BY <1>1, <2>1 DEF AccessOK
  <2> QED
    BY <2>1, <2>2 DEF CleanedUp
<1>2. CASE \/ Freeze(caller, w) \/ Unfreeze(caller, w) \/ Pause(caller, w) \/ Unpause(caller, w)
           \/ Archive(caller, w)
  <2>1. w # v
    BY <1>2 DEF Freeze, Unfreeze, Pause, Unpause, Archive, NotArchived
  <2>2. \E st : GoesTo(w, st)
    BY <1>2 DEF Freeze, Unfreeze, Pause, Unpause, Archive
  <2> QED
    BY <1>1, <2>1, <2>2
<1>3. ASSUME NEW a \in Addr, NEW r \in Role, GrantRole(caller, w, a, r)
      PROVE  wallet'[v] = wallet[v] /\ CleanedUp(v)
  <2>1. /\ w # v /\ role' = [role EXCEPT ![w][a] = r]
        /\ wallet' = wallet /\ velocity' = velocity /\ rate' = rate
    BY <1>3 DEF GrantRole, NotArchived, limits
  <2>2. role'[v] = role[v]
    BY <1>0, <2>1
  <2> QED
    BY <2>1, <2>2 DEF CleanedUp
<1>4. ASSUME NEW a \in Addr, RevokeRole(caller, w, a) PROVE wallet'[v] = wallet[v] /\ CleanedUp(v)
  <2>1. /\ role' = [role EXCEPT ![w][a] = Unset]
        /\ wallet' = wallet /\ velocity' = velocity /\ rate' = rate
    BY <1>4 DEF RevokeRole, limits
  <2>2. \A b \in Addr : role'[v][b] \in {role[v][b], Unset}
    BY <1>0, <2>1
  <2> QED
    BY <2>1, <2>2 DEF CleanedUp
<1>5. ASSUME NEW a \in Asset, NEW terms, SetVelocityLimit(caller, w, a, terms)
      PROVE  wallet'[v] = wallet[v] /\ CleanedUp(v)
  <2>1. /\ w # v /\ velocity' = [velocity EXCEPT ![w][a] = terms]
        /\ wallet' = wallet /\ role' = role /\ rate' = rate
    BY <1>5 DEF SetVelocityLimit, NotArchived, access
  <2>2. velocity'[v] = velocity[v]
    BY <1>0, <2>1
  <2> QED
    BY <2>1, <2>2 DEF CleanedUp
<1>6. ASSUME NEW a \in Asset, ClearVelocityLimit(caller, w, a) PROVE wallet'[v] = wallet[v] /\ CleanedUp(v)
  <2>1. /\ velocity' = [velocity EXCEPT ![w][a] = Unset]
        /\ wallet' = wallet /\ role' = role /\ rate' = rate
    BY <1>6 DEF ClearVelocityLimit, access
  <2>2. \A b \in Asset : velocity'[v][b] \in {velocity[v][b], Unset}
    BY <1>0, <2>1
  <2> QED
    BY <2>1, <2>2 DEF CleanedUp
<1>7. ASSUME NEW terms, SetRateLimit(caller, w, terms) PROVE wallet'[v] = wallet[v] /\ CleanedUp(v)
  <2>1. PICK r : rate' = [rate EXCEPT ![w] = r]
    BY <1>7 DEF SetRateLimit
  <2>2. w # v /\ wallet' = wallet /\ role' = role /\ velocity' = velocity
    BY <1>7 DEF SetRateLimit, NotArchived, access
  <2>3. rate'[v] = rate[v]
    BY <1>0, <2>1, <2>2
  <2> QED
    BY <2>2, <2>3 DEF CleanedUp
<1>8. ASSUME ClearRateLimit(caller, w) PROVE wallet'[v] = wallet[v] /\ CleanedUp(v)
  <2>1. /\ rate' = [rate EXCEPT ![w] = Unset]
        /\ wallet' = wallet /\ role' = role /\ velocity' = velocity
    BY <1>8 DEF ClearRateLimit, access
  <2>2. rate'[v] \in {rate[v], Unset}
    BY <1>0, <2>1
  <2> QED
    BY <2>1, <2>2 DEF CleanedUp
<1> QED
  BY <1>2, <1>3, <1>4, <1>5, <1>6, <1>7, <1>8 DEF Manage

\* An archived wallet stays archived and keeps its money.
LEMMA ArchivedStep ==
  ASSUME AccessOK, VelocityOK, RateOK, FundsOK, [Next]_vars
  PROVE  ArchivedIsFinal
<1> USE WalletAssumption
<1> SUFFICES ASSUME NEW v \in DOMAIN wallet, wallet[v].state = "Archived"
             PROVE  /\ wallet'[v] = wallet[v] /\ CleanedUp(v)
                    /\ balance'[v] = balance[v] /\ drift'[v] = drift[v]
  BY DEF ArchivedIsFinal, CleanedUp
<1>0. /\ v \in WalletId
      /\ balance \in [WalletId -> [Asset -> Nat]] /\ drift \in [WalletId -> [Asset -> Nat]]
  BY WalletIds DEF FundsOK
<1>1. wallet'[v] = wallet[v] /\ CleanedUp(v)
  <2>1. ASSUME UNCHANGED <<wallet, role, velocity, rate>> PROVE wallet'[v] = wallet[v] /\ CleanedUp(v)
    BY <2>1 DEF CleanedUp
  <2>2. CASE UNCHANGED vars \/ Tick
    BY <2>1, <2>2 DEF vars, Tick, access, limits
  <2>3. ASSUME NEW a \in Addr, Initialize(a) PROVE wallet'[v] = wallet[v] /\ CleanedUp(v)
    BY <2>1, <2>3 DEF Initialize, access, limits
  <2>4. ASSUME NEW a \in Addr, CreateWallet(a) PROVE wallet'[v] = wallet[v] /\ CleanedUp(v)
    <3>1. /\ wallet' = Append(wallet, [owner |-> a, state |-> "Active"])
          /\ UNCHANGED <<role, velocity, rate>>
      BY <2>4 DEF CreateWallet, limits
    <3>2. wallet'[v] = wallet[v]
      BY <3>1 DEF AccessOK
    <3> QED
      BY <3>1, <3>2 DEF CleanedUp
  <2>5. ASSUME NEW caller \in Addr, Admin(caller) PROVE wallet'[v] = wallet[v] /\ CleanedUp(v)
    BY <2>1, <2>5, AdminFrame DEF access, limits
  <2>6. ASSUME NEW caller \in Addr, NEW w \in DOMAIN wallet, Manage(caller, w)
        PROVE  wallet'[v] = wallet[v] /\ CleanedUp(v)
    BY <2>6, ArchivedManaged
  <2>7. ASSUME NEW w, Move(w) PROVE wallet'[v] = wallet[v] /\ CleanedUp(v)
    BY <2>1, <2>7, MoveFrame DEF access
  <2> QED
    BY <2>2, <2>3, <2>4, <2>5, <2>6, <2>7 DEF Next
<1>2. balance'[v] = balance[v] /\ drift'[v] = drift[v]
  <2>1. ASSUME UNCHANGED <<balance, drift, custody, consumed>>
        PROVE  balance'[v] = balance[v] /\ drift'[v] = drift[v]
    BY <2>1
  <2>2. ASSUME NEW w \in DOMAIN wallet, NEW a \in Asset, NEW d \in Deposits,
               Deposit(w, a, d.amount, d.fee)
        PROVE  balance'[v] = balance[v] /\ drift'[v] = drift[v]
    <3>1. w \in WalletId /\ w # v
      BY <2>2, WalletIds DEF Deposit, NotArchived
    <3> QED
      BY <1>0, <2>2, <3>1 DEF Deposit
  <2>3. ASSUME NEW w \in DOMAIN wallet, NEW a \in Asset, NEW n \in Amounts, NEW to, NEW gates,
               RequireActive(w), Spend(w, a, to, n, gates)
        PROVE  balance'[v] = balance[v] /\ drift'[v] = drift[v]
    <3>1. w \in WalletId /\ w # v
      BY <2>3, WalletIds DEF RequireActive
    <3> QED
      BY <1>0, <2>3, <3>1 DEF Spend
  <2>4. ASSUME NEW w \in DOMAIN wallet, NEW caller \in Addr, NEW batch \in Batches, NEW gates,
               BatchExecuteValidated(caller, w, batch, gates)
        PROVE  balance'[v] = balance[v] /\ drift'[v] = drift[v]
    <3>1. w \in WalletId /\ w # v
      BY <2>4, WalletIds DEF BatchExecuteValidated, RequireActive
    <3> QED
      BY <1>0, <2>4, <3>1, BatchEffect
  <2> QED
    BY <2>1, <2>2, <2>3, <2>4, ValueWrites
<1> QED
  BY <1>1, <1>2

-----------------------------------------------------------------------------
(* The theorems                                                             *)

\* The contract starts empty.
LEMMA InitInv == Init => Inv
<1> SUFFICES ASSUME Init PROVE Inv
  OBVIOUS
<1> USE WalletAssumption DEF Init
<1>1. ControlOK
  BY DEF ControlOK
<1>2. AccessOK
  BY DEF AccessOK
<1>3. VelocityOK
  <2>1. /\ velocity \in [WalletId -> [Asset -> VelocityLimit \cup {Unset}]]
        /\ spent \in [WalletId -> [Asset -> VelocityUsage \cup {Unset}]]
        /\ authorized \in [WalletId -> [Asset -> History]]
        /\ taken \in [WalletId -> [Asset -> History]]
    BY NeverTyped
  <2>2. VelocityEntry(Unset, Unset, Never, now)
    BY NeverTyped DEF VelocityEntry, VelocityKnown
  <2>3. \A w \in WalletId, a \in Asset :
          velocity[w][a] = Unset /\ spent[w][a] = Unset /\ authorized[w][a] = Never
    OBVIOUS
  <2> QED
    BY <2>1, <2>2, <2>3 DEF VelocityOK
<1>4. RateOK
  <2>1. /\ rate \in [WalletId -> RateLimitConfig \cup {Unset}]
        /\ used \in [WalletId -> RateUsage \cup {Unset}]
        /\ issued \in [WalletId -> Issues]
    BY NeverIssuedTyped
  <2>2. RateEntry(Unset, Unset, NeverIssued, now)
    BY NeverIssuedTyped DEF RateEntry, RateKnown
  <2>3. \A w \in WalletId : rate[w] = Unset /\ used[w] = Unset /\ issued[w] = NeverIssued
    OBVIOUS
  <2> QED
    BY <2>1, <2>2, <2>3 DEF RateOK
<1>5. FundsOK
  BY DEF FundsOK
<1>6. BooksExplainCustody
  <2>1. ASSUME NEW a \in Asset
        PROVE  custody[a] = SumFunctionOnSet([w \in WalletId |-> Backing(w, a)], WalletId)
    <3>1. PICK f : f = [w \in WalletId |-> Backing(w, a)]
      OBVIOUS
    <3>2. \A w \in WalletId : f[w] = 0
      BY <3>1 DEF Backing
    <3>3. IsFiniteSet(WalletId)
      BY FS_Interval DEF WalletId
    <3>4. SumFunctionOnSet(f, WalletId) = 0
      BY <3>2, <3>3, SumZero
    <3>5. custody[a] = 0
      OBVIOUS
    <3> QED
      BY <3>1, <3>4, <3>5
  <2> QED
    BY <2>1 DEF BooksExplainCustody
<1> QED
  BY <1>1, <1>2, <1>3, <1>4, <1>5, <1>6 DEF Inv

\* Every step preserves the invariant.
LEMMA InvStep == Inv /\ [Next]_vars => Inv'
<1> SUFFICES ASSUME Inv, [Next]_vars PROVE Inv'
  OBVIOUS
<1> USE DEF Inv
<1>1. ControlOK' /\ AccessOK'
  BY ControlStep, AccessStep
<1>2. VelocityOK' /\ RateOK'
  BY VelocityStep, RateStep
<1>3. FundsOK' /\ BooksExplainCustody'
  BY ValueStep
<1> QED
  BY <1>1, <1>2, <1>3

\* The invariant holds in every state the wallet contract reaches.
THEOREM Invariant == Spec => []Inv
  BY InitInv, InvStep, PTL DEF Spec

\* Every storage entry of the wallet contract keeps its type, and no stored
\* window is 0, whatever the administrators and the callers do.
THEOREM WalletTypeCorrect == Spec => []TypeOK
<1>1. Inv => TypeOK
  BY InvTyped
<1> QED
  BY <1>1, Invariant, PTL

\* Custody holds what the balances of all wallets say, less what deposits fell
\* short of and what the calls of batches took: transfer, withdraw and deposit
\* move the books and the tokens together.
THEOREM BooksAreExplained == Spec => []BooksExplainCustody
<1>1. Inv => BooksExplainCustody
  BY DEF Inv
<1> QED
  BY <1>1, Invariant, PTL

\* What passes enforce_velocity and enforce_rate_limit in a span of all buckets
\* but one is within the limits, by every path out; and so are the tokens that
\* leave, as far as the calls of batches take no more than was declared of them.
THEOREM LimitsAreHeld == Spec => LimitsHeld
<1>1. Inv /\ [Next]_vars => VelocityHeld /\ RateHeld
  BY VelocityStep, RateStep DEF Inv
<1> QED
  BY <1>1, Invariant, PTL DEF Spec, LimitsHeld

\* Every path out obeys the breaker and the wallet's state, nothing happens to
\* an archived wallet but cleaning up, and a transfer or withdrawal draws on
\* the budget that is wired directly.
THEOREM StopsAndBudgetAreObeyed == Spec => StopsAndBudgetObeyed
<1>1. Inv /\ [Next]_vars => StoppedMovesNothing /\ ArchivedIsFinal /\ SpendsAreBudgeted
  BY StoppedStep, ArchivedStep, BudgetedStep DEF Inv
<1> QED
  BY <1>1, Invariant, PTL DEF Spec, StopsAndBudgetObeyed
=============================================================================
