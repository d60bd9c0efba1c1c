---------------------------- MODULE VotingWeight ----------------------------
(***************************************************************************)
(* Voting weights as the multisig adds them up.  A weight is a number of   *)
(* votes; the sum of several weights is the number of votes they cast      *)
(* together, which lets finite-set theorems speak about it.                *)
(***************************************************************************)
EXTENDS Integers, FiniteSets

CONSTANTS
  Addr,          \* accounts that are or may become signers
  MaxWeight      \* u32::MAX, what `narrow` lets an aggregate weight reach

\* The votes of the members of S under weights w: signer s casts w[s] of them.
Votes(w, S) == {v \in S \X (1..MaxWeight) : v[2] <= w[v[1]]}

\* The weights of the members of S, added up.
WeightOf(w, S) == Cardinality(Votes(w, S))
=============================================================================
