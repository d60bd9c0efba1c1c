----------------------------- MODULE MCTreasury -----------------------------
(* Small instances of Treasury for TLC. *)
EXTENDS Treasury, TLC

CONSTANTS a1, m1, r1, r2

\* The registry records the multisig and no wallet.
SomeModules == [kind \in {"Wallet", "Multisig"} |-> IF kind = "Multisig" THEN m1 ELSE Unset]

Pay(r, n) == [recipient |-> r, amount |-> n]

\* A batch whose legs are below a threshold their sum reaches.
SomeBatches == {<<Pay(r1, 1), Pay(r2, 1)>>}

SomeLocks == {[delay |-> 1, threshold |-> 2], [delay |-> 0, threshold |-> 0]}
SomeTerms == {[limit |-> 2, expires_at |-> 2]}
SomeSchedules == {[total |-> 3, milestones |-> 2]}
=============================================================================
