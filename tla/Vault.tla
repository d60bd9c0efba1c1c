------------------------------- MODULE Vault -------------------------------
(***************************************************************************)
(* What custody of several deposits in one pot promises, with no word on   *)
(* arbiters, clocks or schedules.  Vault id holds held[id] of the pot; a   *)
(* deposit fills only its own vault, a payout empties only its own vault   *)
(* and never below zero, and a settled vault is never touched again.       *)
(***************************************************************************)
EXTENDS Integers

CONSTANT Token
VARIABLES
  held,    \* held[id][t]: what vault id still holds of token t
  phase,   \* phase[id]: "Awaiting" its deposit, "Open" or "Settled"
  pot      \* pot[t]: the balance all vaults share

vaultVars == <<held, phase, pot>>

Init ==
  /\ held = <<>>
  /\ phase = <<>>
  /\ pot = [t \in Token |-> 0]

\* Vault id changes, the others do not, and the pot changes by what it gains.
Touch(id) ==
  /\ DOMAIN held' = DOMAIN held
  /\ DOMAIN phase' = DOMAIN phase
  /\ \A j \in DOMAIN held : j # id => held'[j] = held[j] /\ phase'[j] = phase[j]
  /\ \A t \in Token : pot'[t] = pot[t] + held'[id][t] - held[id][t]

\* A new vault, filled at once or awaiting its deposit.
Open ==
  \E id \in DOMAIN held' \ DOMAIN held :
    /\ DOMAIN held' = DOMAIN held \cup {id}
    /\ DOMAIN phase' = DOMAIN phase \cup {id}
    /\ \A j \in DOMAIN held : held'[j] = held[j] /\ phase'[j] = phase[j]
    /\ \A t \in Token : held'[id][t] \in Nat /\ pot'[t] = pot[t] + held'[id][t]
    /\ \/ phase'[id] = "Open"
       \/ phase'[id] = "Awaiting" /\ \A t \in Token : held'[id][t] = 0

Deposit(id) ==
  /\ phase[id] = "Awaiting"
  /\ phase'[id] = "Open"
  /\ \A t \in Token : held'[id][t] \in Nat
  /\ Touch(id)

Disburse(id) ==
  /\ phase[id] = "Open"
  /\ phase'[id] \in {"Open", "Settled"}
  /\ \A t \in Token : held'[id][t] \in 0..held[id][t]
  /\ Touch(id)

Abandon(id) ==
  /\ phase[id] = "Awaiting"
  /\ phase'[id] = "Settled"
  /\ held'[id] = held[id]
  /\ Touch(id)

Next == Open \/ \E id \in DOMAIN held : Deposit(id) \/ Disburse(id) \/ Abandon(id)

Spec == Init /\ [][Next]_vaultVars
=============================================================================
