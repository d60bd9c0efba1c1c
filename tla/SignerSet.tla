----------------------------- MODULE SignerSet ------------------------------
(***************************************************************************)
(* What the multisig promises to the contracts that ask it who may sign:   *)
(* the signers and the threshold may change at any moment, in any way that *)
(* keeps the threshold within the reach of the signers together.           *)
(*                                                                         *)
(* Multisig implements this specification; Proposal relies on it.          *)
(***************************************************************************)
EXTENDS Integers

CONSTANTS
  Addr,             \* accounts that are or may become signers
  MinThreshold,     \* MIN_THRESHOLD
  MaxWeight,        \* u32::MAX
  WeightOf(_, _)    \* what a set of signers weighs together

VARIABLES
  weight,       \* 0 for an account that is not a signer
  threshold     \* 0 until the multisig is initialized

Quorate(w, th) ==
  /\ th >= MinThreshold
  /\ th <= WeightOf(w, Addr)
  /\ WeightOf(w, Addr) <= MaxWeight

Init ==
  /\ weight = [a \in Addr |-> 0]
  /\ threshold = 0

Revise ==
  /\ weight' \in [Addr -> 0..MaxWeight]
  /\ threshold' \in 1..MaxWeight
  /\ Quorate(weight', threshold')

Spec == Init /\ [][Revise]_<<weight, threshold>>
=============================================================================
