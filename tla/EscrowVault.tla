---------------------------- MODULE EscrowVault ----------------------------
(* The escrow contract implements Vault: every escrow is a vault that holds *)
(* what it pulled in minus what it paid out.                                *)
EXTENDS Escrow

Phase(state) ==
  CASE state = "Created" -> "Awaiting"
    [] state \in {"Funded", "Expired"} -> "Open"
    [] state \in Settled -> "Settled"

Custody == INSTANCE Vault WITH
  held  <- [id \in 1..count |-> [t \in Token |-> Deposited(id)[t] - Paid(id, t)]],
  phase <- [id \in 1..count |-> Phase(escrow[id].state)],
  pot   <- custody

\* Whatever the mix of release, refund, vesting and milestone calls on several
\* escrows, each call moves money of its own escrow only, never more than that
\* escrow holds, and never after it settled.
ImplementsVault == Custody!Spec
=============================================================================
