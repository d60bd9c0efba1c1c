------------------------------ MODULE MCBudget ------------------------------
(* Small instances of Budget for TLC. *)
EXTENDS Budget, TLC

CONSTANTS t1, t2

Seconds == [p \in {"Daily", "Weekly", "Monthly"} |->
              CASE p = "Daily" -> 1 [] p = "Weekly" -> 2 [] OTHER -> 3]

Grant(limit, period, enabled, bps, cap, deficit, expires) ==
  [limit |-> limit, period |-> period, rollover_enabled |-> enabled,
   rollover_bps |-> bps, rollover_cap |-> cap, allow_deficit |-> deficit,
   expires_at |-> expires]

\* An envelope that rolls over, in full or by halves up to a cap, and
\* expires; one that may overdraw.
SomeGrants ==
  {Grant(2, "Daily", TRUE, 1, 3, FALSE, 3), Grant(1, "Weekly", FALSE, 0, 0, TRUE, 0)}

Recurrence(period, secs, enabled, cap, max_bps) ==
  [period |-> period, period_seconds |-> secs, rollover_enabled |-> enabled,
   rollover_cap |-> cap, rollover_max_bps |-> max_bps]

SomeRecurrences ==
  {Recurrence("Custom", 2, TRUE, 0, 1), Recurrence("None", 0, FALSE, 0, 0)}

RolloverTerm(enabled, bps, cap) ==
  [rollover_enabled |-> enabled, rollover_bps |-> bps, rollover_cap |-> cap]

SomeRollovers == {RolloverTerm(TRUE, 2, 1)}

AssetTerm(limit, secs, enabled, bps, cap) ==
  [limit |-> limit, window_seconds |-> secs, rollover_enabled |-> enabled,
   rollover_bps |-> bps, rollover_cap |-> cap]

\* An envelope that starts and ends within the clock, and one that is open.
PlainGrants == {Grant(0, "None", FALSE, 0, 0, FALSE, 3), Grant(0, "None", FALSE, 0, 0, FALSE, 0)}

SomeAssetTerms == {AssetTerm(2, 1, TRUE, 2, 0), AssetTerm(1, 2, FALSE, 0, 0)}

Leg(t, n) == [token |-> t, amount |-> n]

\* Two tokens, two legs of one token, and the empty batch that is refused.
SomeBatches == {<<Leg(t1, 1), Leg(t2, 1)>>, <<Leg(t1, 1), Leg(t1, 1)>>, <<>>}

Interchangeable == Permutations(BudgetId)
=============================================================================
