----------------------------- MODULE UpgradeGate -----------------------------
(***************************************************************************)
(* The gate every contract's code goes through when it is replaced: an     *)
(* upgrade admin recorded by set_upgrade_authority, and a registry that    *)
(* has to approve the new code for the contract's kind.  One deployment of *)
(* each kind is modelled; "Organization" is the registry itself.           *)
(***************************************************************************)
EXTENDS Naturals

CONSTANTS
  Kind,         \* ModuleKind
  Addr,         \* accounts and contracts
  Hash,         \* well-formed wasm hashes
  Unset,        \* an absent storage entry
  Deployed,     \* the code a contract was deployed with
  TheRegistry,  \* the registry's address
  Registries    \* addresses given as `registry`; only TheRegistry answers

UpgradeAuthority == [admin: Addr, registry: Registries]

ASSUME GateAssumption ==
  /\ "Organization" \in Kind
  /\ Unset \notin Addr /\ Unset \notin UpgradeAuthority
  /\ Deployed \notin Hash

VARIABLES
  authority,  \* UpgradeKey::Authority of each contract
  running     \* the code each contract runs

gate == <<authority, running>>

GateTypeOK ==
  /\ authority \in [Kind -> UpgradeAuthority \cup {Unset}]
  /\ running \in [Kind -> Hash \cup {Deployed}]

GateInit ==
  /\ authority = [k \in Kind |-> Unset]
  /\ running = [k \in Kind |-> Deployed]

\* The first call is first come; later ones are the current admin's.
SetAuthority(kind, caller, admin, registry) ==
  /\ authority[kind] # Unset => authority[kind].admin = caller
  /\ authority' = [authority EXCEPT ![kind] = [admin |-> admin, registry |-> registry]]
  /\ UNCHANGED running

\* `approved` is the registry's answer; an address with no registry behind it
\* fails the call, which refuses the upgrade.
Check(kind, caller, approved) ==
  /\ authority[kind] # Unset
  /\ authority[kind].admin = caller
  /\ authority[kind].registry = TheRegistry
  /\ approved

Apply(kind, hash) ==
  /\ running' = [running EXCEPT ![kind] = hash]
  /\ UNCHANGED authority

Perform(kind, caller, hash, approved) ==
  /\ Check(kind, caller, approved)
  /\ Apply(kind, hash)
=============================================================================
