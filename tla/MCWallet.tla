------------------------------ MODULE MCWallet ------------------------------
(* A small instance of Wallet for TLC. *)
EXTENDS Wallet, TLC

CONSTANTS r1, t1, t2

Velocity(max, seconds) == [max_amount |-> max, window_seconds |-> seconds]
Rate(volume, count, seconds) ==
  [max_volume |-> volume, max_count |-> count, window_seconds |-> seconds]
Act(a, n, policy, id, token, paid) ==
  [asset |-> a, recipient |-> r1, amount |-> n, policy |-> policy, budget |-> id,
   token |-> token, paid |-> paid]

\* A window of one and of two seconds a bucket.
SomeVelocities == {Velocity(2, 2), Velocity(1, 2), Velocity(2, 4)}
SomeRates == {Rate(2, 0, 2), Rate(0, 2, 4), Rate(0, 0, 0)}

\* One asset twice, of which one call takes what it declares and the other
\* nothing; and a batch that takes more than it declares.
SomeBatches ==
  {<<Act(t1, 1, TRUE, Unset, t1, 1), Act(t1, 1, FALSE, Unset, t2, 0)>>,
   <<Act(t1, 1, FALSE, t1, t1, 1), Act(t2, 1, FALSE, Unset, t1, 1)>>}

\* The token withholds 1.
SomeDeposits == {[amount |-> 3, fee |-> 1]}

Symmetric == Permutations(Addr)
=============================================================================
