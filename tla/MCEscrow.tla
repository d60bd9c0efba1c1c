------------------------------ MODULE MCEscrow ------------------------------
(* Small instances of Escrow for TLC.  Each .cfg picks its input sets here. *)
EXTENDS EscrowVault

CONSTANTS a1, a2, a3, t1, t2, k1, k2

\* The arbiter is a third party, or the recipient, or the sender itself; the
\* last triple is refused (recipient = sender).
Deal(s, r, a) == [sender |-> s, recipient |-> r, arbiter |-> a]
AllDeals == {Deal(a1, a2, a3), Deal(a1, a2, a2), Deal(a1, a2, a1), Deal(a1, a1, a3)}
OneDeal == {Deal(a1, a2, a3)}

\* Deposits: one asset, two assets with amounts that do not divide evenly.
OneAsset == {[t \in Token |-> IF t = t1 THEN 3 ELSE 0]}
TwoAssets == {[t \in Token |-> IF t = t1 THEN 3 ELSE 2]}
OneAndTwoAssets == OneAsset \cup TwoAssets

AnyOverride == {NoOverride, [signers |-> {k1, k2}, threshold |-> 2]}
WithoutOverride == {NoOverride}

\* The last two are refused by validate_release_condition.
AnyCondition == {[participants |-> {a1, a2}, threshold |-> 2],
                 [participants |-> {a3}, threshold |-> 1],
                 [participants |-> {a1}, threshold |-> 2],
                 [participants |-> {}, threshold |-> 1]}

Schedule(type, start, cliff, end) ==
  [release_type |-> type, start_time |-> start, cliff_time |-> cliff, end_time |-> end]

\* Linear with and without a cliff, a bullet, an ordinary escrow asked for as
\* a schedule, and two malformed ones.
SomeSchedules == {Schedule("Linear", 0, 0, 2), Schedule("Linear", 1, 2, 4),
                  Schedule("Cliff", 0, 3, 3), Schedule("None", 0, 1, 3),
                  Schedule("Linear", 2, 1, 3), Schedule("Cliff", 2, 2, 2)}
ShortLinear == {Schedule("Linear", 0, 0, 2)}

\* Weights that leave dust, an even split, a weight of 0, and a list that
\* does not add up to 100%.
SomeMilestones == {<<3333, 3333, 3334>>, <<5000, 5000>>, <<10000, 0>>, <<5000, 4999>>}
TwoMilestones == {<<3333, 6667>>}
=============================================================================
