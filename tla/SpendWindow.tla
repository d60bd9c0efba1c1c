---------------------------- MODULE SpendWindow ----------------------------
(***************************************************************************)
(* The rolling windows of the wallet contract.  A window is split into     *)
(* Buckets buckets aligned to the epoch; cell i of a usage record holds    *)
(* what was recorded in the bucket i before the record's own.              *)
(***************************************************************************)
EXTENDS Integers, Functions

CONSTANTS
  Buckets,   \* VELOCITY_BUCKETS and RATE_LIMIT_BUCKETS
  Unset      \* an absent storage entry

ASSUME BucketsAssumption == Buckets \in Nat \ {0}

Bucket == 0..(Buckets - 1)

VelocityLimit == [max_amount: Nat \ {0}, window_seconds: Nat \ {0}]
VelocityUsage == [bucket: Nat, spent: [Bucket -> Nat]]
RateLimitConfig == [max_volume: Nat, max_count: Nat, window_seconds: Nat]
RateUsage == [bucket: Nat, volume: [Bucket -> Nat], count: [Bucket -> Nat]]

ValidWindow(seconds) == seconds >= Buckets /\ seconds % Buckets = 0
BucketSeconds(seconds) == seconds \div Buckets

Idle == [i \in Bucket |-> 0]
CellsSum(cells) == SumFunctionOnSet(cells, Bucket)

\* Mutation of Aged: a bucket too many slides out.
AgedTooFar(cells, shift) ==
  [i \in Bucket |-> IF shift = 0 THEN cells[i] ELSE IF i > shift THEN cells[i - shift - 1] ELSE 0]

\* The cells shift buckets later.
Aged(cells, shift) == [i \in Bucket |-> IF i >= shift THEN cells[i - shift] ELSE 0]

\* A clock that reads earlier than the record ages nothing.
CurrentBucket(stored, seconds, time) ==
  LET nowBucket == time \div BucketSeconds(seconds)
  IN  IF stored # Unset /\ stored.bucket > nowBucket THEN stored.bucket ELSE nowBucket

RolledVelocityUsage(stored, limit, time) ==
  LET bucket == CurrentBucket(stored, limit.window_seconds, time)
  IN  [bucket |-> bucket,
       spent |-> IF stored = Unset THEN Idle ELSE Aged(stored.spent, bucket - stored.bucket)]

VelocityTotal(usage) == CellsSum(usage.spent)
WithinVelocity(limit, usage, amount) == VelocityTotal(usage) + amount <= limit.max_amount
ChargedVelocity(usage, amount) == [usage EXCEPT !.spent[0] = @ + amount]

RolledRateUsage(stored, config, time) ==
  LET bucket == CurrentBucket(stored, config.window_seconds, time)
      Cells(cells) == Aged(cells, bucket - stored.bucket)
  IN  [bucket |-> bucket,
       volume |-> IF stored = Unset THEN Idle ELSE Cells(stored.volume),
       count |-> IF stored = Unset THEN Idle ELSE Cells(stored.count)]

\* A cap of 0 does not bind.
WithinRate(config, usage, amount, n) ==
  /\ config.max_count = 0 \/ CellsSum(usage.count) + n <= config.max_count
  /\ config.max_volume = 0 \/ CellsSum(usage.volume) + amount <= config.max_volume

ChargedRate(usage, amount, n) ==
  [bucket |-> usage.bucket,
   volume |-> [usage.volume EXCEPT ![0] = @ + amount],
   count |-> [usage.count EXCEPT ![0] = @ + n]]
=============================================================================
