---------------------------- MODULE BudgetWindow ----------------------------
(***************************************************************************)
(* The pure half of the budget contract: the length of a period, the       *)
(* rollover ceiling, and the transition that settles every lapsed period   *)
(* of an envelope or of a per-asset allowance in one step.                 *)
(*                                                                         *)
(* A transition is evaluated lazily, on the next call that touches the     *)
(* record, so `t` may lie many periods past `window_start`.  Amounts are   *)
(* i128 and every sum goes through a checked helper that fails the call:   *)
(* Fits is what such a helper tests, CanSettle the conjunction of them.    *)
(***************************************************************************)
EXTENDS Integers

CONSTANTS
  BPS,          \* BPS_DENOMINATOR: 100% in basis points
  MaxI128,      \* i128::MAX
  Cadence       \* SECONDS_PER_DAY, _WEEK and _MONTH by period

ASSUME BudgetMathAssumption ==
  /\ BPS \in Nat \ {0}
  /\ MaxI128 \in Nat
  /\ Cadence \in [{"Daily", "Weekly", "Monthly"} -> Nat \ {0}]

Period == {"None", "Daily", "Weekly", "Monthly", "Custom"}

Fits(x) == x <= MaxI128

Larger(x, y) == IF x >= y THEN x ELSE y
Smaller(x, y) == IF x <= y THEN x ELSE y

-----------------------------------------------------------------------------
(* Periods and ceilings                                                     *)

\* The window length of a cadence; 0 when it does not recur (no period, or a
\* custom one whose interval is still to be configured).
WindowOf(period, period_seconds) ==
  CASE period = "None"   -> 0
    [] period = "Custom" -> period_seconds
    [] OTHER             -> Cadence[period]

WindowLength(b) == WindowOf(b.period, b.period_seconds)

ApplyCap(credit, cap) == IF cap # 0 /\ credit > cap THEN cap ELSE credit

\* A share of bps basis points, rounded down.  The code splits the amount into
\* quotient and remainder so that no product overflows; the value is the same.
ShareOf(amount, bps) == (amount * bps) \div BPS

PercentageOfLimit(limit, bps) == ShareOf(limit, bps)

\* The smaller of the owner's absolute cap and the percentage ceiling; in
\* either, 0 stands for "no ceiling" - also a percentage that rounds down to 0.
EffectiveRolloverCap(b) ==
  LET pct == PercentageOfLimit(b.limit, b.rollover_max_bps)
  IN  IF b.rollover_cap = 0 THEN pct
      ELSE IF pct = 0 THEN b.rollover_cap
      ELSE Smaller(b.rollover_cap, pct)

CalculateBudgetRollover(unspent, bps, cap) == ApplyCap(ShareOf(unspent, bps), cap)

-----------------------------------------------------------------------------
(* The envelope's transition                                                *)

BudgetExpired(b, t) == b.expires_at # 0 /\ t >= b.expires_at

\* A window is half open: its last second is window_start + length - 1.
IsWindowExpired(b, t) ==
  WindowLength(b) # 0 /\ t >= b.window_start + WindowLength(b)

Capacity(b) == b.limit + b.rollover_credit

WentIntoDeficit(b) == b.allow_deficit /\ b.spent > Capacity(b)

PeriodsElapsed(b, t) == (t - b.window_start) \div WindowLength(b)

\* A full base limit for every further period that went by untouched.
IdleAllowance(b, t) == b.limit * (PeriodsElapsed(b, t) - 1)

Unspent(b) == Larger(Capacity(b) - b.spent, 0)

\* Mutation of CarryOver: every elapsed period is counted as idle, the one
\* just closed included.
CarryOverTwice(b, t) ==
  IF ~b.rollover_enabled THEN 0
  ELSE ApplyCap(CalculateBudgetRollover(Unspent(b), b.rollover_bps, EffectiveRolloverCap(b))
                  + b.limit * PeriodsElapsed(b, t),
                EffectiveRolloverCap(b))

\* Only the period just closed contributes its remainder.
CarryOver(b, t) ==
  IF ~b.rollover_enabled THEN 0
  ELSE ApplyCap(CalculateBudgetRollover(Unspent(b), b.rollover_bps, EffectiveRolloverCap(b))
                  + IdleAllowance(b, t),
                EffectiveRolloverCap(b))

\* An absolute cap makes the accrual of idle periods saturate; without one it
\* is checked, and a long sleep fails every call that has to settle.
CanSettle(b, t) ==
  /\ ~BudgetExpired(b, t)
  /\ IsWindowExpired(b, t) =>
       /\ Fits(Capacity(b))
       /\ WentIntoDeficit(b) => Fits(b.deficit_amount + b.spent - Capacity(b))
       /\ (b.rollover_enabled /\ ~WentIntoDeficit(b) /\ b.rollover_cap = 0) =>
            Fits(IdleAllowance(b, t)
                   + CalculateBudgetRollover(Unspent(b), b.rollover_bps, EffectiveRolloverCap(b)))

\* Mutation of WindowTransition: the new window starts now, not on the period
\* boundary.
DriftingTransition(b, t) ==
  IF ~IsWindowExpired(b, t) THEN b
  ELSE [b EXCEPT
         !.rollover_credit = IF WentIntoDeficit(b) THEN 0 ELSE CarryOver(b, t),
         !.deficit_amount = IF WentIntoDeficit(b) THEN @ + b.spent - Capacity(b) ELSE @,
         !.spent = 0,
         !.window_start = t]

WindowTransition(b, t) ==
  IF ~IsWindowExpired(b, t) THEN b
  ELSE [b EXCEPT
         !.rollover_credit = IF WentIntoDeficit(b) THEN 0 ELSE CarryOver(b, t),
         !.deficit_amount = IF WentIntoDeficit(b) THEN @ + b.spent - Capacity(b) ELSE @,
         !.spent = 0,
         !.window_start = @ + PeriodsElapsed(b, t) * WindowLength(b)]

-----------------------------------------------------------------------------
(* The per-asset transition                                                 *)

\* The saturating subtraction makes a window that opens later run from 0.
AssetElapsed(a, t) == Larger(t - a.window_start, 0)

AssetCapacity(a) == IF a.rollover_enabled THEN a.limit + a.rollover_credit ELSE a.limit

\* A sum that does not fit falls back to the bare limit instead of failing.
AssetClosing(a) ==
  LET full == a.limit + a.rollover_credit
  IN  Larger((IF Fits(full) THEN full ELSE a.limit) - a.spent, 0)

\* Idle windows add nothing here: only the window last used leaves a credit.
AssetTransition(a, t) ==
  IF a.window_seconds = 0 \/ AssetElapsed(a, t) < a.window_seconds THEN a
  ELSE [a EXCEPT
         !.rollover_credit =
            IF a.rollover_enabled
              THEN CalculateBudgetRollover(AssetClosing(a), a.rollover_bps, a.max_rollover_cap)
              ELSE 0,
         !.spent = 0,
         !.window_start =
            @ + (AssetElapsed(a, t) \div a.window_seconds) * a.window_seconds]
=============================================================================
