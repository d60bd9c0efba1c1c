----------------------------- MODULE EscrowMath -----------------------------
(***************************************************************************)
(* The arithmetic of the escrow contract: vesting, the pro-rata split of a *)
(* payout over the listed assets, milestone shares, and the two clocks     *)
(* (the end of the grace period, the close of the refund window).          *)
(* Timestamps are u64: U64 is the modulus 2^64 of that width.  Amounts are *)
(* i128 and go through the checked helpers, which refuse the call on       *)
(* overflow; amounts are therefore plain integers here.                    *)
(***************************************************************************)
EXTENDS Integers, FiniteSets, Functions, Sequences

CONSTANT U64          \* 2^64; small in the runs that reach the edge

\* Deposits are functions from tokens to amounts; 0 means "not listed".
Listed(assets) == {t \in DOMAIN assets : assets[t] > 0}

TotalAmount(assets) == SumFunction(assets)

NoSchedule == [release_type |-> "None", start_time |-> 0,
               cliff_time |-> 0, end_time |-> 0]

BulletAt(start, unlock) == [release_type |-> "Cliff", start_time |-> start,
                            cliff_time |-> unlock, end_time |-> unlock]

\* What create_scheduled demands of a schedule.  Every stored schedule meets
\* it, or is NoSchedule or a bullet, so the InvalidInput branches of
\* calculate_vested_amount are unreachable.
ValidSchedule(s) == /\ s.start_time <= s.cliff_time
                    /\ s.cliff_time <= s.end_time
                    /\ s.start_time < s.end_time

Scheduled(s) == s.release_type \in {"Cliff", "Linear"}

VestedAmount(amount, s, time) ==
  IF ~Scheduled(s) \/ time < s.cliff_time \/ time < s.start_time
    THEN 0
  ELSE IF time >= s.end_time
    THEN amount
  ELSE IF s.release_type = "Cliff"
    THEN 0
  ELSE (amount * (time - s.start_time)) \div (s.end_time - s.start_time)

\* Mutation of ClaimableAmount: earlier payouts are not subtracted.
ClaimableTwice(e, time) == VestedAmount(e.funded_amount, e.schedule, time)

ClaimableAmount(e, time) ==
  LET open == VestedAmount(e.funded_amount, e.schedule, time) - e.released_amount
  IN  IF Scheduled(e.schedule) /\ open > 0 THEN open ELSE 0

\* Mutation of Remaining: partial payouts are ignored.
WholeDeposit(e) == e.funded_amount

Remaining(e) == e.funded_amount - e.released_amount

\* Split `amount` of the escrow over its assets, rounding every leg down.
\* Nothing is divided (or sent) when the amount is 0: an escrow that was
\* never funded has funded_amount = 0.
ProRata(e, amount) ==
  [t \in DOMAIN e.assets |->
     IF amount = 0 THEN 0 ELSE (e.assets[t] * amount) \div e.funded_amount]

BPS == 10000

MilestoneShare(total, bps) == (total * bps) \div BPS

\* deadline + grace_period, added as i128 and then cut back to u64 by a cast.
GraceEnd(e) == (e.deadline + e.grace_period) % U64

SaturatingAdd(a, b) == IF a + b < U64 THEN a + b ELSE U64 - 1

ClosesAt(e) ==
  IF e.refund_window = 0 THEN 0
  ELSE SaturatingAdd(SaturatingAdd(e.deadline, e.grace_period), e.refund_window)
=============================================================================
