------------------------------ MODULE Registry ------------------------------
(***************************************************************************)
(* The registry contract: administrators, organizations with their modules *)
(* and delegated roles, the version table and its proposals, the approved  *)
(* code, and the registry's own upgrade.  Calls are atomic: one action per *)
(* entrypoint, guarded by the checks the call passes.                      *)
(***************************************************************************)
EXTENDS UpgradeGate, FiniteSetsExt, Functions, Sequences

CONSTANTS
  Caller,          \* the accounts that call and are given powers
  Roles,           \* roles that are granted
  Org,             \* organization slugs
  Contract,        \* the addresses that name contracts
  Target,          \* addresses modules are registered at
  Releases,        \* what is published or proposed: [kind, version, address, hash]
  Unbound,         \* BoundHash::Unbound
  MaxVersion,      \* bound on version numbers
  MaxApprovers,    \* MAX_APPROVERS
  MaxAudit,        \* MAX_UPGRADE_AUDIT_ENTRIES
  MaxScan,         \* MAX_UPGRADE_SCAN
  Expiry,          \* UPGRADE_PROPOSAL_EXPIRY
  MaxTime,         \* bound on the ledger clock
  MaxGovernance,   \* bound on calls that change administrators or the freeze
  MaxOrgCalls,     \* bound on calls that change an organization's records
  MaxPublications, \* bound on calls that change the version table
  MaxCalls         \* bound on these calls together, the first kind counted twice

RegistryRole == {"Owner", "PolicyManager", "TreasuryOperator", "ModuleUpgrader"}

Version == 1..MaxVersion
Release == [kind: Kind, version: Version, address: Addr, hash: Hash]

ASSUME RegistryAssumption ==
  /\ Target \subseteq Addr /\ Caller \subseteq Addr
  /\ Roles \subseteq RegistryRole
  /\ Releases \subseteq Release
  /\ Unbound \notin Hash
  /\ Unset \notin RegistryRole
  /\ MaxVersion \in Nat /\ MaxAudit \in Nat \ {0} /\ MaxScan \in Nat \ {0}
  /\ MaxApprovers \in Nat \ {0} /\ Expiry \in Nat /\ MaxTime \in Nat
  /\ MaxGovernance \in Nat /\ MaxOrgCalls \in Nat /\ MaxPublications \in Nat
  /\ MaxCalls \in Nat

VARIABLES
  now,              \* the ledger timestamp
  admin,            \* DataKey::Admin
  admins,           \* DataKey::Admins
  multisig,         \* DataKey::Multisig
  frozen,           \* DataKey::Frozen
  owner,            \* DataKey::Org
  role,             \* DataKey::OrgRole
  module,           \* DataKey::Module
  deprecated,       \* DataKey::ModuleDeprecated
  pin,              \* DataKey::ModuleVersion
  record,           \* DataKey::VersionRecord
  legacy,           \* DataKey::Version
  latest,           \* DataKey::LatestVersion
  approved,         \* DataKey::ApprovedWasm: the pairs whose flag is set
  pending,          \* DataKey::UpgradeProposal
  audit,            \* DataKey::UpgradeAuditLog
  registryVersion,  \* DataKey::RegistryVersion
  calls             \* history: calls made so far, by area

governance == <<admin, admins, multisig, frozen>>
organizations == <<owner, role, module, deprecated, pin>>
versions == <<record, legacy, latest>>
proposals == <<pending, audit>>
vars == <<now, governance, organizations, versions, approved, proposals,
          registryVersion, gate, calls>>

-----------------------------------------------------------------------------
(* Records                                                                  *)

VersionRecord == [address: Addr, hash: Hash \cup {Unbound}]
UpgradeProposal ==
  [version: Version, wasm_hash: Hash, address: Addr, org: Org, proposer: Addr, expires_at: Nat]
UpgradeAction == {"Proposed", "Committed", "Rejected"}
UpgradeAuditRecord == [action: UpgradeAction, kind: Kind, version: Version, wasm_hash: Hash]

\* An absent entry is told from a stored one.
ASSUME UnsetIsNoRecord ==
  /\ Unset \notin VersionRecord
  /\ Unset \notin UpgradeProposal

Area == {"governance", "organization", "publication"}

\* Bounds the search.
Counted(area) ==
  /\ calls[area] < CASE area = "governance" -> MaxGovernance
                     [] area = "organization" -> MaxOrgCalls
                     [] area = "publication" -> MaxPublications
  /\ calls' = [calls EXCEPT ![area] = @ + 1]
  /\ 2 * calls'["governance"] + calls'["organization"] + calls'["publication"] <= MaxCalls

-----------------------------------------------------------------------------
(* Guards                                                                   *)

CheckFrozen == ~frozen

IsAdmin(a) == a = admin \/ a \in Range(admins) \/ a = multisig
RequireAdmin(caller) == admin # Unset /\ IsAdmin(caller)

RequireRootOwner(caller, org) ==
  /\ owner[org] # Unset
  /\ caller = owner[org] \/ IsAdmin(caller)

\* The owner's role goes with the ownership; a delegated one stays behind.
EffectiveRole(org, account) == IF account = owner[org] THEN "Owner" ELSE role[org][account]

MayManage(r, kind) ==
  \/ r \in {"Owner", "ModuleUpgrader"}
  \/ r = "PolicyManager" /\ kind = "Policy"
  \/ r = "TreasuryOperator" /\ kind \in {"Treasury", "Budget", "Escrow"}

RequireModulePermission(caller, org, kind) ==
  /\ owner[org] # Unset
  /\ IsAdmin(caller) \/ MayManage(EffectiveRole(org, caller), kind)

-----------------------------------------------------------------------------
(* The version table                                                        *)

IsWasmApproved(kind, hash) == <<kind, hash>> \in approved

\* The consolidated record, or else the legacy one, which is bound to no hash.
ReadVersion(kind, v) ==
  IF record[kind][v] # Unset THEN record[kind][v]
  ELSE IF legacy[kind][v] # Unset THEN [address |-> legacy[kind][v], hash |-> Unbound]
  ELSE Unset

Published(kind) == {v \in Version : ReadVersion(kind, v) # Unset}
Bound(kind) == {v \in Published(kind) : ReadVersion(kind, v).hash # Unbound}

\* Mutation of ResolveUpgradeTarget: the pin does not order the path.
ResolveAnyTarget(org, kind, v) ==
  /\ v \in Bound(kind)
  /\ IsWasmApproved(kind, ReadVersion(kind, v).hash)
  /\ ReadVersion(kind, v).address \in Contract
  /\ ReadVersion(kind, v).address # module[org][kind]

\* A version the module may move to: newer than its pin, bound to code that
\* is still approved, at a contract that is not the current one.
ResolveUpgradeTarget(org, kind, v) ==
  /\ v > pin[org][kind]
  /\ v \in Bound(kind)
  /\ IsWasmApproved(kind, ReadVersion(kind, v).hash)
  /\ ReadVersion(kind, v).address \in Contract
  /\ ReadVersion(kind, v).address # module[org][kind]

\* The published versions of the registry that carry `hash`, in the window
\* the scan covers.
Carrying(hash) ==
  {v \in Bound("Organization") :
     /\ v + MaxScan > latest["Organization"]
     /\ ReadVersion("Organization", v).hash = hash}

PlanRegistryUpgrade(hash) ==
  /\ Carrying(hash) # {}
  /\ Max(Carrying(hash)) > registryVersion
  /\ ReadVersion("Organization", Max(Carrying(hash))).address \in Contract

-----------------------------------------------------------------------------
(* Administrators and the freeze                                            *)

\* The list a loop over `s` builds by pushing every entry but those in `gone`.
Without(s, gone) ==
  LET kept[i \in 0..Len(s)] ==
        IF i = 0 THEN <<>>
        ELSE IF s[i] \in gone THEN kept[i - 1] ELSE Append(kept[i - 1], s[i])
  IN  kept[Len(s)]

Initialize(a) ==
  /\ admin = Unset
  /\ admin' = a
  /\ admins' = <<a>>
  /\ UNCHANGED <<now, multisig, frozen, organizations, versions, approved, proposals,
                 registryVersion, gate, calls>>

\* The new admin takes the old primary's place in the list.
SetAdmin(caller, new) ==
  /\ RequireAdmin(caller)
  /\ admin' = new
  /\ admins' = Append(Without(admins, {admin, new}), new)
  /\ Counted("governance")
  /\ UNCHANGED <<now, multisig, frozen, organizations, versions, approved, proposals,
                 registryVersion, gate>>

AddAdmin(caller, new) ==
  /\ RequireAdmin(caller)
  /\ Len(admins) < MaxApprovers
  /\ new \notin Range(admins)
  /\ admins' = Append(admins, new)
  /\ Counted("governance")
  /\ UNCHANGED <<now, admin, multisig, frozen, organizations, versions, approved,
                 proposals, registryVersion, gate>>

\* Mutation of RemoveAdmin: a removed primary is not replaced.
RemoveAdminOnly(caller, a) ==
  /\ RequireAdmin(caller)
  /\ a \in Range(admins)
  /\ Len(admins) > 1
  /\ admins' = Without(admins, {a})
  /\ Counted("governance")
  /\ UNCHANGED <<now, admin, multisig, frozen, organizations, versions, approved,
                 proposals, registryVersion, gate>>

\* A removed primary is succeeded by the first admin left.
RemoveAdmin(caller, a) ==
  /\ RequireAdmin(caller)
  /\ a \in Range(admins)
  /\ Len(admins) > 1
  /\ admins' = Without(admins, {a})
  /\ admin' = IF a = admin THEN Head(admins') ELSE admin
  /\ Counted("governance")
  /\ UNCHANGED <<now, multisig, frozen, organizations, versions, approved, proposals,
                 registryVersion, gate>>

SetMultisig(caller, m) ==
  /\ RequireAdmin(caller)
  /\ multisig' = m
  /\ Counted("governance")
  /\ UNCHANGED <<now, admin, admins, frozen, organizations, versions, approved,
                 proposals, registryVersion, gate>>

RemoveMultisig(caller) ==
  /\ RequireAdmin(caller)
  /\ multisig # Unset
  /\ multisig' = Unset
  /\ Counted("governance")
  /\ UNCHANGED <<now, admin, admins, frozen, organizations, versions, approved,
                 proposals, registryVersion, gate>>

\* The flag is the whole registry's, whichever organization's owner sets it.
Freeze(caller, org) ==
  /\ RequireRootOwner(caller, org)
  /\ frozen' = TRUE
  /\ Counted("governance")
  /\ UNCHANGED <<now, admin, admins, multisig, organizations, versions, approved,
                 proposals, registryVersion, gate>>

Unfreeze(caller, org) ==
  /\ RequireRootOwner(caller, org)
  /\ frozen' = FALSE
  /\ Counted("governance")
  /\ UNCHANGED <<now, admin, admins, multisig, organizations, versions, approved,
                 proposals, registryVersion, gate>>

-----------------------------------------------------------------------------
(* Organizations, their modules and roles                                   *)

others == <<now, governance, versions, approved, proposals, registryVersion, gate>>

RegisterOrg(caller, org, a) ==
  /\ CheckFrozen
  /\ RequireAdmin(caller)
  /\ owner[org] = Unset
  /\ owner' = [owner EXCEPT ![org] = a]
  /\ Counted("organization")
  /\ UNCHANGED <<role, module, deprecated, pin, others>>

SetOrgOwner(caller, org, a) ==
  /\ CheckFrozen
  /\ RequireRootOwner(caller, org)
  /\ owner' = [owner EXCEPT ![org] = a]
  /\ Counted("organization")
  /\ UNCHANGED <<role, module, deprecated, pin, others>>

GrantRole(caller, org, account, r) ==
  /\ CheckFrozen
  /\ RequireRootOwner(caller, org)
  /\ account # owner[org]
  /\ role' = [role EXCEPT ![org][account] = r]
  /\ Counted("organization")
  /\ UNCHANGED <<owner, module, deprecated, pin, others>>

\* A frozen registry still lets access be withdrawn.
RevokeRole(caller, org, account) ==
  /\ RequireRootOwner(caller, org)
  /\ role[org][account] # Unset
  /\ role' = [role EXCEPT ![org][account] = Unset]
  /\ Counted("organization")
  /\ UNCHANGED <<owner, module, deprecated, pin, others>>

\* Mutation of Repoint: an unversioned registration keeps the old pin.
RepointKeepingPin(org, kind, address, v) ==
  /\ module' = [module EXCEPT ![org][kind] = address]
  /\ pin' = [pin EXCEPT ![org][kind] = IF v = 0 THEN @ ELSE v]
  /\ deprecated' = [deprecated EXCEPT ![org][kind] = FALSE]
  /\ UNCHANGED <<owner, role, others>>

\* The writes of every call that moves a module: the address, the version it
\* runs (0 for an unversioned registration) and no deprecation.
Repoint(org, kind, address, v) ==
  /\ module' = [module EXCEPT ![org][kind] = address]
  /\ pin' = [pin EXCEPT ![org][kind] = v]
  /\ deprecated' = [deprecated EXCEPT ![org][kind] = FALSE]
  /\ UNCHANGED <<owner, role, others>>

RegisterModule(caller, org, kind, address) ==
  /\ CheckFrozen
  /\ RequireModulePermission(caller, org, kind)
  /\ Repoint(org, kind, address, 0)
  /\ Counted("organization")

RemoveModule(caller, org, kind) ==
  /\ CheckFrozen
  /\ RequireModulePermission(caller, org, kind)
  /\ module[org][kind] # Unset
  /\ Repoint(org, kind, Unset, 0)
  /\ Counted("organization")

UpgradeModule(caller, org, kind, v) ==
  /\ CheckFrozen
  /\ RequireModulePermission(caller, org, kind)
  /\ module[org][kind] # Unset
  /\ ResolveUpgradeTarget(org, kind, v)
  /\ Repoint(org, kind, ReadVersion(kind, v).address, v)
  /\ Counted("organization")

RegisterModuleVersion(caller, org, kind, v) ==
  /\ CheckFrozen
  /\ RequireModulePermission(caller, org, kind)
  /\ ResolveUpgradeTarget(org, kind, v)
  /\ Repoint(org, kind, ReadVersion(kind, v).address, v)
  /\ Counted("organization")

SetDeprecated(caller, org, kind, flag) ==
  /\ CheckFrozen
  /\ RequireAdmin(caller)
  /\ module[org][kind] # Unset
  /\ deprecated' = [deprecated EXCEPT ![org][kind] = flag]
  /\ Counted("organization")
  /\ UNCHANGED <<owner, role, module, pin, others>>

DeprecateModule(caller, org, kind) == SetDeprecated(caller, org, kind, TRUE)
ReactivateModule(caller, org, kind) == SetDeprecated(caller, org, kind, FALSE)

-----------------------------------------------------------------------------
(* Publication                                                              *)

\* While a proposal is open, expired or not, only its code may be approved.
AddApprovedWasm(caller, kind, hash) ==
  /\ RequireAdmin(caller)
  /\ pending[kind] # Unset => pending[kind].wasm_hash = hash
  /\ approved' = approved \cup {<<kind, hash>>}
  /\ Counted("publication")
  /\ UNCHANGED <<now, governance, organizations, versions, proposals, registryVersion, gate>>

RemoveApprovedWasm(caller, kind, hash) ==
  /\ RequireAdmin(caller)
  /\ IsWasmApproved(kind, hash)
  /\ approved' = approved \ {<<kind, hash>>}
  /\ Counted("publication")
  /\ UNCHANGED <<now, governance, organizations, versions, proposals, registryVersion, gate>>

\* A pair is taken if either layout holds it.
RegisterVersion(caller, kind, v, address, hash) ==
  /\ CheckFrozen
  /\ RequireAdmin(caller)
  /\ record[kind][v] = Unset
  /\ legacy[kind][v] = Unset
  /\ IsWasmApproved(kind, hash)
  /\ record' = [record EXCEPT ![kind][v] = [address |-> address, hash |-> hash]]
  /\ latest' = [latest EXCEPT ![kind] = Max({@, v})]
  /\ Counted("publication")
  /\ UNCHANGED <<now, governance, organizations, legacy, approved, proposals,
                 registryVersion, gate>>

\* Mutation of AppendAudit: a full log drops the new record.
AppendAuditWhileRoom(action, kind, p) ==
  audit' = IF Len(audit) = MaxAudit THEN audit
           ELSE <<[action |-> action, kind |-> kind, version |-> p.version,
                   wasm_hash |-> p.wasm_hash]>> \o audit

\* Newest first; a full log loses its oldest record.
AppendAudit(action, kind, p) ==
  LET log == <<[action |-> action, kind |-> kind, version |-> p.version,
                wasm_hash |-> p.wasm_hash]>> \o audit
  IN  audit' = SubSeq(log, 1, Min({Len(log), MaxAudit}))

\* An admin may propose for an organization that does not exist.  A proposal
\* that expired still takes the kind's only slot.
ProposeUpgrade(caller, org, kind, v, hash, address) ==
  LET p == [version |-> v, wasm_hash |-> hash, address |-> address, org |-> org,
            proposer |-> caller, expires_at |-> now + Expiry]
  IN  /\ CheckFrozen
      /\ IsAdmin(caller) \/ EffectiveRole(org, caller) \in {"Owner", "ModuleUpgrader"}
      /\ v > latest[kind]
      /\ pending[kind] = Unset
      /\ ~IsWasmApproved(kind, hash)
      /\ pending' = [pending EXCEPT ![kind] = p]
      /\ AppendAudit("Proposed", kind, p)
      /\ Counted("publication")
      /\ UNCHANGED <<now, governance, organizations, versions, approved, registryVersion, gate>>

\* Mutation of CommitUpgrade: the version is not compared again.
CommitStale(caller, kind) ==
  LET p == pending[kind] IN
  /\ CheckFrozen
  /\ RequireAdmin(caller)
  /\ p # Unset
  /\ now <= p.expires_at
  /\ legacy' = [legacy EXCEPT ![kind][p.version] = p.address]
  /\ latest' = [latest EXCEPT ![kind] = p.version]
  /\ approved' = approved \cup {<<kind, p.wasm_hash>>}
  /\ pending' = [pending EXCEPT ![kind] = Unset]
  /\ AppendAudit("Committed", kind, p)
  /\ Counted("publication")
  /\ UNCHANGED <<now, governance, organizations, record, registryVersion, gate>>

\* The version is written in the legacy layout, which binds it to no hash.
CommitUpgrade(caller, kind) ==
  LET p == pending[kind] IN
  /\ CheckFrozen
  /\ RequireAdmin(caller)
  /\ p # Unset
  /\ now <= p.expires_at
  /\ p.version > latest[kind]
  /\ legacy' = [legacy EXCEPT ![kind][p.version] = p.address]
  /\ latest' = [latest EXCEPT ![kind] = p.version]
  /\ approved' = approved \cup {<<kind, p.wasm_hash>>}
  /\ pending' = [pending EXCEPT ![kind] = Unset]
  /\ AppendAudit("Committed", kind, p)
  /\ Counted("publication")
  /\ UNCHANGED <<now, governance, organizations, record, registryVersion, gate>>

RejectUpgrade(caller, kind) ==
  LET p == pending[kind] IN
  /\ CheckFrozen
  /\ p # Unset
  /\ IsAdmin(caller) \/ caller = p.proposer \/ caller = owner[p.org]
  /\ pending' = [pending EXCEPT ![kind] = Unset]
  /\ AppendAudit("Rejected", kind, p)
  /\ Counted("publication")
  /\ UNCHANGED <<now, governance, organizations, versions, approved, registryVersion, gate>>

-----------------------------------------------------------------------------
(* Code upgrades                                                            *)

records == <<now, governance, organizations, versions, approved, proposals>>

\* The registry's own authority is claimed by an administrator.
SetUpgradeAuthority(kind, caller, a, registry) ==
  /\ kind = "Organization" /\ authority[kind] = Unset => IsAdmin(caller)
  /\ SetAuthority(kind, caller, a, registry)
  /\ Counted("governance")
  /\ UNCHANGED <<records, registryVersion>>

\* Every other contract asks the registry whether the code is approved.
UpgradeMember(kind, caller, hash) ==
  /\ kind # "Organization"
  /\ Perform(kind, caller, hash, IsWasmApproved(kind, hash))
  /\ UNCHANGED <<records, registryVersion, calls>>

\* The registry resolves the hash to the newest version that carries it.
Upgrade(caller, hash) ==
  /\ authority["Organization"] # Unset
  /\ caller = authority["Organization"].admin \/ IsAdmin(caller)
  /\ IsWasmApproved("Organization", hash)
  /\ PlanRegistryUpgrade(hash)
  /\ Apply("Organization", hash)
  /\ registryVersion' = Max(Carrying(hash))
  /\ UNCHANGED <<records, calls>>

\* External: the ledger's clock.
Tick ==
  /\ now < MaxTime
  /\ now' = now + 1
  /\ UNCHANGED <<governance, organizations, versions, approved, proposals,
                 registryVersion, gate, calls>>

-----------------------------------------------------------------------------

Init ==
  /\ now = 0
  /\ admin = Unset
  /\ admins = <<>>
  /\ multisig = Unset
  /\ frozen = FALSE
  /\ owner = [o \in Org |-> Unset]
  /\ role = [o \in Org |-> [a \in Addr |-> Unset]]
  /\ module = [o \in Org |-> [k \in Kind |-> Unset]]
  /\ deprecated = [o \in Org |-> [k \in Kind |-> FALSE]]
  /\ pin = [o \in Org |-> [k \in Kind |-> 0]]
  /\ record = [k \in Kind |-> [v \in Version |-> Unset]]
  /\ legacy = [k \in Kind |-> [v \in Version |-> Unset]]
  /\ latest = [k \in Kind |-> 0]
  /\ approved = {}
  /\ pending = [k \in Kind |-> Unset]
  /\ audit = <<>>
  /\ registryVersion = 0
  /\ GateInit
  /\ calls = [area \in Area |-> 0]

Governance(caller) ==
  \/ Initialize(caller)
  \/ RemoveMultisig(caller)
  \/ \E a \in Caller : \/ SetAdmin(caller, a)
                     \/ AddAdmin(caller, a)
                     \/ RemoveAdmin(caller, a)
                     \/ SetMultisig(caller, a)
  \/ \E o \in Org : Freeze(caller, o) \/ Unfreeze(caller, o)

Organization(caller, o) ==
  \/ \E a \in Caller : \/ RegisterOrg(caller, o, a)
                     \/ SetOrgOwner(caller, o, a)
                     \/ RevokeRole(caller, o, a)
                     \/ \E r \in Roles : GrantRole(caller, o, a, r)
  \/ \E k \in Kind :
       \/ \E a \in Target : RegisterModule(caller, o, k, a)
       \/ \E v \in Version : \/ UpgradeModule(caller, o, k, v)
                             \/ RegisterModuleVersion(caller, o, k, v)
       \/ RemoveModule(caller, o, k)
       \/ DeprecateModule(caller, o, k)
       \/ ReactivateModule(caller, o, k)

Publication(caller) ==
  \/ \E r \in Releases :
       \/ AddApprovedWasm(caller, r.kind, r.hash)
       \/ RemoveApprovedWasm(caller, r.kind, r.hash)
       \/ RegisterVersion(caller, r.kind, r.version, r.address, r.hash)
       \/ \E o \in Org : ProposeUpgrade(caller, o, r.kind, r.version, r.hash, r.address)
  \/ \E k \in Kind : CommitUpgrade(caller, k) \/ RejectUpgrade(caller, k)

CodeUpgrade(caller) ==
  \/ \E k \in Kind, a \in Caller, r \in Registries : SetUpgradeAuthority(k, caller, a, r)
  \/ \E h \in Hash : \/ Upgrade(caller, h)
                     \/ \E k \in Kind : UpgradeMember(k, caller, h)

Next ==
  \/ \E caller \in Caller :
       \/ Governance(caller)
       \/ \E o \in Org : Organization(caller, o)
       \/ Publication(caller)
       \/ CodeUpgrade(caller)
  \/ Tick

Spec == Init /\ [][Next]_vars

-----------------------------------------------------------------------------
(* Properties                                                               *)

\* Every storage entry has its type, the admin list and the audit log stay
\* within the limits add_admin and append_audit keep, and the primary admin
\* is on the list, which has no duplicates: whatever order set_admin, add_admin
\* and remove_admin come in, nobody who was removed stays primary.
TypeOK ==
  /\ now \in 0..MaxTime
  /\ admin \in Addr \cup {Unset} /\ multisig \in Addr \cup {Unset} /\ frozen \in BOOLEAN
  /\ admins \in Seq(Addr) /\ Len(admins) <= MaxApprovers
  /\ \A i, j \in DOMAIN admins : admins[i] = admins[j] => i = j
  /\ admin # Unset => admin \in Range(admins)
  /\ owner \in [Org -> Addr \cup {Unset}]
  /\ role \in [Org -> [Addr -> RegistryRole \cup {Unset}]]
  /\ module \in [Org -> [Kind -> Addr \cup {Unset}]]
  /\ deprecated \in [Org -> [Kind -> BOOLEAN]]
  /\ pin \in [Org -> [Kind -> 0..MaxVersion]]
  /\ record \in [Kind -> [Version -> VersionRecord \cup {Unset}]]
  /\ legacy \in [Kind -> [Version -> Addr \cup {Unset}]]
  /\ latest \in [Kind -> 0..MaxVersion]
  /\ approved \subseteq Kind \X Hash
  /\ pending \in [Kind -> UpgradeProposal \cup {Unset}]
  /\ audit \in Seq(UpgradeAuditRecord) /\ Len(audit) <= MaxAudit
  /\ registryVersion \in 0..MaxVersion
  /\ GateTypeOK
  /\ calls \in [Area -> Nat]

\* A kind's latest version is the highest one either layout has published,
\* though register_version may publish below it and commit_upgrade writes it
\* from a proposal made earlier.
LatestIsHighest == \A k \in Kind : latest[k] = Max(Published(k) \cup {0})

\* A module pinned to a version runs at the address that version was
\* published at, and the version is bound to a hash: the unvalidated
\* register_module never leaves a pin that vouches for other code.
PinnedRunsItsVersion ==
  \A o \in Org, k \in Kind : pin[o][k] # 0 =>
    /\ pin[o][k] \in Bound(k)
    /\ module[o][k] = ReadVersion(k, pin[o][k]).address

\* The version the registry says it runs was published bound to the code it
\* runs, whichever versions share that code.
RegistryRunsItsVersion ==
  registryVersion # 0 =>
    /\ registryVersion \in Bound("Organization")
    /\ ReadVersion("Organization", registryVersion).hash = running["Organization"]

\* What runs is what the version table says, for the pinned modules and for
\* the registry itself, in any order of publication, registration and upgrade.
RunsItsVersion == PinnedRunsItsVersion /\ RegistryRunsItsVersion

\* The newest audit record of a kind tells whether a proposal is pending, and
\* which one, even after the log has dropped older records.
AuditTellsPending ==
  \A i \in DOMAIN audit :
    LET r == audit[i] IN
    (\A j \in 1..(i - 1) : audit[j].kind # r.kind) =>
      IF r.action = "Proposed"
        THEN /\ pending[r.kind] # Unset
             /\ pending[r.kind].version = r.version
             /\ pending[r.kind].wasm_hash = r.wasm_hash
        ELSE pending[r.kind] = Unset

\* A published version resolves to the same address and hash for ever, in
\* whichever layout it was written.
PublishedIsImmutable ==
  \A k \in Kind : \A v \in Published(k) : ReadVersion(k, v)' = ReadVersion(k, v)

\* While a module stays on its versioned path it only moves to newer
\* versions, and the registry's own version never falls.
NoRollback ==
  /\ registryVersion' >= registryVersion
  /\ \A o \in Org, k \in Kind :
       pin'[o][k] # pin[o][k] => pin'[o][k] = 0 \/ pin'[o][k] > pin[o][k]

\* While the registry stays frozen no organization, module, version or
\* proposal changes and no role is gained; only access can be withdrawn.
FrozenKeepsRecords ==
  frozen /\ frozen' =>
    /\ UNCHANGED <<owner, module, deprecated, pin, versions, proposals>>
    /\ \A o \in Org, a \in Addr : role'[o][a] \in {role[o][a], Unset}

\* What the registry has recorded is kept, whoever calls: published versions
\* never change, nothing goes back to an older one, and a freeze holds.
HistoryKept == [][PublishedIsImmutable /\ NoRollback /\ FrozenKeepsRecords]_vars
=============================================================================
