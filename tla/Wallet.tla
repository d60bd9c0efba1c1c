------------------------------- MODULE Wallet -------------------------------
(***************************************************************************)
(* The wallet contract: custodial wallets with delegated roles, a circuit  *)
(* breaker, per-wallet lifecycle, policy and budget gates resolved through *)
(* the registry or wired directly, rolling velocity and rate limits, and   *)
(* validated batches of calls.  A call runs to its end or is rolled back,  *)
(* so there is one action per entrypoint, guarded by the checks the call   *)
(* passes; the reentrancy flag is down between calls.                      *)
(***************************************************************************)
EXTENDS SpendWindow, Sequences

CONSTANTS
  Addr,           \* accounts that call the wallet or hold roles
  Recipient,      \* who else is paid
  Refused,        \* recipients transfer rejects: the zero address, the wallet itself
  Denied,         \* external: recipients the policy contract refuses
  Asset,          \* token contracts
  Default,        \* the envelope named by set_default_budget_id
  MaxBatch,       \* MAX_BATCH_CALLS
  MaxWallets,     \* bound on the wallets created
  MaxTime,        \* bound on the ledger clock
  MaxMoves,       \* bound on deposits, spends and batches
  MaxSettings,    \* bound on the administrative calls of a behaviour
  MaxCalls,       \* bound on both together
  Amounts,        \* amounts transferred and withdrawn
  Deposits,       \* [amount, fee]: a deposit and what the token withholds of it
  VelocityTerms,  \* arguments of set_velocity_limit
  RateTerms,      \* arguments of set_rate_limit
  Batches         \* arguments of batch_execute_validated

WalletId == 1..MaxWallets
Envelope == Asset \cup {Default}

\* What an action of a batch declares, which gates it asks for, and how much
\* of which token its call really takes out of custody.
BatchAction ==
  [asset: Asset, recipient: Recipient, amount: Nat \ {0}, policy: BOOLEAN,
   budget: Envelope \cup {Unset}, token: Asset, paid: Nat]

ASSUME WalletAssumption ==
  /\ Unset \notin Addr /\ Unset \notin Envelope /\ Default \notin Asset
  /\ Refused \subseteq Recipient /\ Denied \subseteq Recipient \cup Addr
  /\ MaxBatch \in Nat /\ MaxWallets \in Nat /\ MaxTime \in Nat
  /\ MaxMoves \in Nat /\ MaxSettings \in Nat /\ MaxCalls \in Nat
  /\ Amounts \subseteq Nat \ {0}
  /\ Deposits \subseteq [amount: Nat \ {0}, fee: Nat]
  /\ \A d \in Deposits : d.fee <= d.amount
  /\ VelocityTerms \subseteq VelocityLimit
  /\ RateTerms \subseteq RateLimitConfig
  /\ \A b \in Batches : b \in Seq(BatchAction)

VARIABLES
  now,       \* the ledger timestamp
  config,    \* the instance storage: admin, guardian, breaker and wiring
  assetId,   \* DataKey::AssetBudgetId: assets with an envelope of their own
  wallet,    \* DataKey::Wallet(id), ids from 1; its length is WalletCount
  role,      \* AccessKey::Role(id, account)
  bypass,    \* DataKey::PolicyBypass: wallets the policy gate excuses
  velocity,  \* DataKey::VelocityLimit(id, asset)
  spent,     \* DataKey::VelocityUsage(id, asset)
  rate,      \* DataKey::RateLimit(id)
  used,      \* DataKey::RateLimitUsage(id)
  balance,   \* DataKey::Balance(id, asset)
  custody,   \* external: the contract's balance at each token contract
  consumed,  \* external: what each budget envelope was charged
  drift,     \* history: credited or left in custody's books without its tokens
  authorized, \* history: amounts passed under a velocity limit, by time
  taken,     \* history: tokens that left while it was set, by time
  issued,    \* history: what passed and left under a rate limit, by time
  moves,     \* history: deposits, spends and batches so far
  settings   \* history: administrative calls so far

wiring == <<config, assetId, bypass>>
access == <<wallet, role>>
limits == <<velocity, spent, rate, used, authorized, taken, issued>>
funds == <<balance, custody, consumed, drift, moves>>
vars == <<now, wiring, access, limits, funds, settings>>

-----------------------------------------------------------------------------
(* Records and guards                                                       *)

ResourceState == {"Active", "Frozen", "Paused", "Archived"}
WalletData == [owner: Addr, state: ResourceState]
Config ==
  [admin: Addr, guardian: Addr, paused: BOOLEAN, policy: BOOLEAN, budget: BOOLEAN,
   registry: BOOLEAN, org: BOOLEAN, default_id: BOOLEAN]

ASSUME UnsetIsNoRecord ==
  /\ Unset \notin Config
  /\ Unset \notin VelocityLimit /\ Unset \notin VelocityUsage
  /\ Unset \notin RateLimitConfig /\ Unset \notin RateUsage

Role == {"Auditor", "Agent", "Admin"}
Rank == [r \in Role |-> CASE r = "Auditor" -> 0 [] r = "Agent" -> 1 [] r = "Admin" -> 2]

EffectiveRole(w, account) == IF account = wallet[w].owner THEN "Admin" ELSE role[w][account]

RequireRole(w, caller, required) ==
  LET held == EffectiveRole(w, caller) IN held # Unset /\ Rank[held] >= Rank[required]

RequireWalletRole(w, caller, required) == w \in DOMAIN wallet /\ RequireRole(w, caller, required)

RequireWalletRoleOrAdmin(w, caller, required) ==
  w \in DOMAIN wallet /\ (caller = config.admin \/ RequireRole(w, caller, required))

Initialized == config # Unset
WhenNotPaused == Initialized => ~config.paused
RequireAdmin(caller) == Initialized /\ caller = config.admin
RequireGuardianOrAdmin(caller) == Initialized /\ caller \in {config.admin, config.guardian}
RequireActive(w) == wallet[w].state = "Active"
NotArchived(w) == wallet[w].state # "Archived"

\* Bound the search.
MayAdminister == settings < MaxSettings /\ settings + moves < MaxCalls
MayMove == moves < MaxMoves /\ settings + moves < MaxCalls
Administered == MayAdminister /\ settings' = settings + 1
Moved == MayMove /\ moves' = moves + 1

-----------------------------------------------------------------------------
(* The contract's own configuration                                         *)

Initialize(a) ==
  /\ ~Initialized
  /\ config' = [admin |-> a, guardian |-> a, paused |-> FALSE, policy |-> FALSE,
                budget |-> FALSE, registry |-> FALSE, org |-> FALSE, default_id |-> FALSE]
  /\ UNCHANGED <<now, assetId, bypass, access, limits, funds, settings>>

Configure(c) ==
  /\ config' = c
  /\ Administered
  /\ UNCHANGED <<now, assetId, bypass, access, limits, funds>>

SetGuardian(caller, a) ==
  RequireAdmin(caller) /\ Configure([config EXCEPT !.guardian = a])

EmergencyPause(caller) ==
  /\ RequireGuardianOrAdmin(caller)
  /\ ~config.paused
  /\ Configure([config EXCEPT !.paused = TRUE])

EmergencyUnpause(caller) ==
  /\ RequireAdmin(caller)
  /\ config.paused
  /\ Configure([config EXCEPT !.paused = FALSE])

SetPolicy(caller) == RequireAdmin(caller) /\ Configure([config EXCEPT !.policy = TRUE])

ClearPolicy(caller) ==
  /\ RequireAdmin(caller)
  /\ config.policy
  /\ Configure([config EXCEPT !.policy = FALSE])

SetBudget(caller) == RequireAdmin(caller) /\ Configure([config EXCEPT !.budget = TRUE])
SetRegistry(caller) == RequireAdmin(caller) /\ Configure([config EXCEPT !.registry = TRUE])
SetOrg(caller) == RequireAdmin(caller) /\ Configure([config EXCEPT !.org = TRUE])

SetDefaultBudgetId(caller) ==
  RequireAdmin(caller) /\ Configure([config EXCEPT !.default_id = TRUE])

ClearDefaultBudgetId(caller) ==
  /\ RequireAdmin(caller)
  /\ config.default_id
  /\ Configure([config EXCEPT !.default_id = FALSE])

SetPolicyBypass(caller, w, excused) ==
  /\ RequireAdmin(caller)
  /\ w \in DOMAIN wallet
  /\ bypass' = IF excused THEN bypass \cup {w} ELSE bypass \ {w}
  /\ Administered
  /\ UNCHANGED <<now, config, assetId, access, limits, funds>>

SetAssetBudgetId(caller, a) ==
  /\ RequireAdmin(caller)
  /\ assetId' = assetId \cup {a}
  /\ Administered
  /\ UNCHANGED <<now, config, bypass, access, limits, funds>>

ClearAssetBudgetId(caller, a) ==
  /\ RequireAdmin(caller)
  /\ a \in assetId
  /\ assetId' = assetId \ {a}
  /\ Administered
  /\ UNCHANGED <<now, config, bypass, access, limits, funds>>

-----------------------------------------------------------------------------
(* Wallets and roles                                                        *)

CreateWallet(owner) ==
  /\ Initialized
  /\ WhenNotPaused
  /\ Len(wallet) < MaxWallets
  /\ wallet' = Append(wallet, [owner |-> owner, state |-> "Active"])
  /\ Administered
  /\ UNCHANGED <<now, wiring, role, limits, funds>>

GoesTo(w, state) ==
  /\ wallet' = [wallet EXCEPT ![w].state = state]
  /\ Administered
  /\ UNCHANGED <<now, wiring, role, limits, funds>>

Freeze(caller, w) ==
  /\ RequireWalletRoleOrAdmin(w, caller, "Agent")
  /\ NotArchived(w)
  /\ GoesTo(w, "Frozen")

Unfreeze(caller, w) ==
  /\ RequireWalletRoleOrAdmin(w, caller, "Agent")
  /\ wallet[w].state = "Frozen"
  /\ GoesTo(w, "Active")

Pause(caller, w) ==
  /\ RequireWalletRole(w, caller, "Admin")
  /\ wallet[w].state = "Active"
  /\ GoesTo(w, "Paused")

Unpause(caller, w) ==
  /\ RequireWalletRole(w, caller, "Admin")
  /\ wallet[w].state = "Paused"
  /\ GoesTo(w, "Active")

Archive(caller, w) ==
  /\ RequireWalletRole(w, caller, "Admin")
  /\ NotArchived(w)
  /\ GoesTo(w, "Archived")

GrantRole(caller, w, account, r) ==
  /\ RequireWalletRole(w, caller, "Admin")
  /\ NotArchived(w)
  /\ account # wallet[w].owner
  /\ role' = [role EXCEPT ![w][account] = r]
  /\ Administered
  /\ UNCHANGED <<now, wiring, wallet, limits, funds>>

RevokeRole(caller, w, account) ==
  /\ RequireWalletRole(w, caller, "Admin")
  /\ role[w][account] # Unset
  /\ role' = [role EXCEPT ![w][account] = Unset]
  /\ Administered
  /\ UNCHANGED <<now, wiring, wallet, limits, funds>>

-----------------------------------------------------------------------------
(* Velocity and rate limits                                                 *)

Never == [t \in 0..MaxTime |-> 0]

\* Usage survives a new ceiling and restarts with a new window.
KeepsWindow(previous, terms) ==
  previous # Unset /\ previous.window_seconds = terms.window_seconds

SetVelocityLimit(caller, w, a, terms) ==
  /\ RequireWalletRole(w, caller, "Admin")
  /\ NotArchived(w)
  /\ ValidWindow(terms.window_seconds)
  /\ velocity' = [velocity EXCEPT ![w][a] = terms]
  /\ spent' = [spent EXCEPT ![w][a] = IF KeepsWindow(velocity[w][a], terms) THEN @ ELSE Unset]
  /\ authorized' = [authorized EXCEPT ![w][a] = IF KeepsWindow(velocity[w][a], terms) THEN @ ELSE Never]
  /\ taken' = [taken EXCEPT ![w][a] = IF KeepsWindow(velocity[w][a], terms) THEN @ ELSE Never]
  /\ Administered
  /\ UNCHANGED <<now, wiring, access, rate, used, issued, funds>>

ClearVelocityLimit(caller, w, a) ==
  /\ RequireWalletRole(w, caller, "Admin")
  /\ velocity[w][a] # Unset
  /\ velocity' = [velocity EXCEPT ![w][a] = Unset]
  /\ spent' = [spent EXCEPT ![w][a] = Unset]
  /\ authorized' = [authorized EXCEPT ![w][a] = Never]
  /\ taken' = [taken EXCEPT ![w][a] = Never]
  /\ Administered
  /\ UNCHANGED <<now, wiring, access, rate, used, issued, funds>>

NeverIssued == [t \in 0..MaxTime |-> [volume |-> 0, count |-> 0, taken |-> 0]]

\* Mutation of SetRateLimit: a window of 0 is stored as any other.
SetRateLimitZero(caller, w, terms) ==
  /\ RequireWalletRole(w, caller, "Admin")
  /\ NotArchived(w)
  /\ terms.window_seconds = 0 \/ ValidWindow(terms.window_seconds)
  /\ rate' = [rate EXCEPT ![w] = terms]
  /\ used' = [used EXCEPT ![w] = IF KeepsWindow(rate[w], terms) THEN @ ELSE Unset]
  /\ issued' = [issued EXCEPT ![w] = IF KeepsWindow(rate[w], terms) THEN @ ELSE NeverIssued]
  /\ Administered
  /\ UNCHANGED <<now, wiring, access, velocity, spent, authorized, taken, funds>>

\* A window of 0 removes the limit and its usage.
SetRateLimit(caller, w, terms) ==
  /\ RequireWalletRole(w, caller, "Admin")
  /\ NotArchived(w)
  /\ terms.window_seconds = 0 \/ ValidWindow(terms.window_seconds)
  /\ rate' = [rate EXCEPT ![w] = IF terms.window_seconds = 0 THEN Unset ELSE terms]
  /\ used' = [used EXCEPT ![w] = IF KeepsWindow(rate[w], terms) THEN @ ELSE Unset]
  /\ issued' = [issued EXCEPT ![w] = IF KeepsWindow(rate[w], terms) THEN @ ELSE NeverIssued]
  /\ Administered
  /\ UNCHANGED <<now, wiring, access, velocity, spent, authorized, taken, funds>>

ClearRateLimit(caller, w) ==
  /\ RequireWalletRole(w, caller, "Admin")
  /\ rate[w] # Unset
  /\ rate' = [rate EXCEPT ![w] = Unset]
  /\ used' = [used EXCEPT ![w] = Unset]
  /\ issued' = [issued EXCEPT ![w] = NeverIssued]
  /\ Administered
  /\ UNCHANGED <<now, wiring, access, velocity, spent, authorized, taken, funds>>

\* Charges what an invocation declares of each asset to its velocity window: the
\* actions of a batch accumulate in one cached record, and being positive
\* they all fit exactly when their sum does.
EnforceVelocity(w, charge) ==
  LET Limited(a) == a \in DOMAIN charge /\ velocity[w][a] # Unset
      Rolled(a) == RolledVelocityUsage(spent[w][a], velocity[w][a], now)
  IN  /\ \A a \in Asset : Limited(a) => WithinVelocity(velocity[w][a], Rolled(a), charge[a])
      /\ spent' = [spent EXCEPT ![w] =
                     [a \in Asset |-> IF Limited(a) THEN ChargedVelocity(Rolled(a), charge[a])
                                                    ELSE @[a]]]

EnforceRateLimit(w, amount, n) ==
  IF rate[w] = Unset \/ rate[w].window_seconds = 0 THEN UNCHANGED used ELSE
    LET rolled == RolledRateUsage(used[w], rate[w], now)
    IN  /\ WithinRate(rate[w], rolled, amount, n)
        /\ used' = [used EXCEPT ![w] = ChargedRate(rolled, amount, n)]

\* Adds amounts to the histories of the assets of a wallet that have a limit.
Noted(history, w, amounts) ==
  [history EXCEPT ![w] =
     [a \in Asset |-> IF a \in DOMAIN amounts /\ velocity[w][a] # Unset
                      THEN [history[w][a] EXCEPT ![now] = @ + amounts[a]]
                      ELSE history[w][a]]]

\* The histories of an invocation that passes the limits with `charge`, what it
\* declares of each asset, and takes `tokens` out of custody.
Observed(w, charge, tokens, n) ==
  /\ authorized' = Noted(authorized, w, charge)
  /\ taken' = Noted(taken, w, tokens)
  /\ issued' = IF rate[w] = Unset THEN issued ELSE
                 [issued EXCEPT ![w][now] =
                    [volume |-> @.volume + SumFunctionOnSet(charge, DOMAIN charge),
                     count |-> @.count + n,
                     taken |-> @.taken + SumFunctionOnSet(tokens, DOMAIN tokens)]]

-----------------------------------------------------------------------------
(* Moving value                                                             *)

\* The token may deliver less than it is asked to move; the wallet is
\* credited with what was asked.
Deposit(w, a, amount, fee) ==
  /\ w \in DOMAIN wallet
  /\ NotArchived(w)
  /\ balance' = [balance EXCEPT ![w][a] = @ + amount]
  /\ custody' = [custody EXCEPT ![a] = @ + amount - fee]
  /\ drift' = [drift EXCEPT ![w][a] = @ + fee]
  /\ Moved
  /\ UNCHANGED <<now, wiring, access, limits, consumed, settings>>

\* External: what the registry may answer for the two modules, a deprecated
\* one counting as absent.
RegistryAnswer == [policy: BOOLEAN, budget: BOOLEAN]

\* The gates a call may find: with a registry and an organization whatever
\* it answers, absent modules included; otherwise the ones wired directly.
ResolveGates ==
  IF config.registry /\ config.org THEN RegistryAnswer
  ELSE {[policy |-> config.policy, budget |-> config.budget]}

BudgetIdFor(a) == IF a \in assetId THEN a ELSE IF config.default_id THEN Default ELSE Unset

\* Mutation of PreExecuteChecks: a bypassed wallet skips the budget too.
PreExecuteBypassed(w, a, to, amount, gates) ==
  /\ gates.policy /\ w \notin bypass => to \notin Denied
  /\ consumed' = IF gates.budget /\ BudgetIdFor(a) # Unset /\ w \notin bypass
                 THEN [consumed EXCEPT ![BudgetIdFor(a)] = @ + amount] ELSE consumed

PreExecuteChecks(w, a, to, amount, gates) ==
  /\ gates.policy /\ w \notin bypass => to \notin Denied
  /\ consumed' = IF gates.budget /\ BudgetIdFor(a) # Unset
                 THEN [consumed EXCEPT ![BudgetIdFor(a)] = @ + amount] ELSE consumed

\* Mutation of Spend: the custody check stands in for the tracked balance.
SpendCustody(w, a, to, amount, gates) ==
  /\ PreExecuteChecks(w, a, to, amount, gates)
  /\ EnforceVelocity(w, [x \in {a} |-> amount])
  /\ EnforceRateLimit(w, amount, 1)
  /\ Observed(w, [x \in {a} |-> amount], [x \in {a} |-> amount], 1)
  /\ custody[a] >= amount
  /\ balance' = [balance EXCEPT ![w][a] = IF @ < amount THEN 0 ELSE @ - amount]
  /\ custody' = [custody EXCEPT ![a] = @ - amount]
  /\ Moved
  /\ UNCHANGED <<now, wiring, access, velocity, rate, drift, settings>>

\* The part transfer and withdraw share.
Spend(w, a, to, amount, gates) ==
  /\ PreExecuteChecks(w, a, to, amount, gates)
  /\ EnforceVelocity(w, [x \in {a} |-> amount])
  /\ EnforceRateLimit(w, amount, 1)
  /\ Observed(w, [x \in {a} |-> amount], [x \in {a} |-> amount], 1)
  /\ balance[w][a] >= amount /\ custody[a] >= amount
  /\ balance' = [balance EXCEPT ![w][a] = @ - amount]
  /\ custody' = [custody EXCEPT ![a] = @ - amount]
  /\ Moved
  /\ UNCHANGED <<now, wiring, access, velocity, rate, drift, settings>>

Transfer(caller, w, to, a, amount, gates) ==
  /\ WhenNotPaused
  /\ RequireWalletRole(w, caller, "Agent")
  /\ RequireActive(w)
  /\ to \notin Refused
  /\ Spend(w, a, to, amount, gates)

Withdraw(caller, w, a, amount, gates) ==
  /\ WhenNotPaused
  /\ RequireWalletRole(w, caller, "Admin")
  /\ RequireActive(w)
  /\ Spend(w, a, wallet[w].owner, amount, gates)

\* What a batch declares of the assets it names, and what its calls take.
Assets(actions) == {actions[i].asset : i \in DOMAIN actions}
AmountOf(actions) == [i \in DOMAIN actions |-> actions[i].amount]
PaidBy(actions) == [i \in DOMAIN actions |-> actions[i].paid]

Declared(actions) ==
  [a \in Assets(actions) |->
     SumFunctionOnSet(AmountOf(actions), {i \in DOMAIN actions : actions[i].asset = a})]
Takes(actions, a) ==
  SumFunctionOnSet(PaidBy(actions), {i \in DOMAIN actions : actions[i].token = a})
Taken(actions) == [a \in {actions[i].token : i \in DOMAIN actions} |-> Takes(actions, a)]
Draws(actions, id) ==
  SumFunctionOnSet(AmountOf(actions), {i \in DOMAIN actions : actions[i].budget = id})
TotalAmount(actions) == SumFunctionOnSet(AmountOf(actions), DOMAIN actions)

\* The calls themselves: they move custody, and no wallet's balance.  What they
\* take need not be what was declared.
ExecuteCalls(w, actions) ==
  /\ \A a \in Asset : Takes(actions, a) <= custody[a]
  /\ custody' = [a \in Asset |-> custody[a] - Takes(actions, a)]
  /\ drift' = [drift EXCEPT ![w] = [a \in Asset |-> @[a] + Takes(actions, a)]]

BatchGates(actions, gates) ==
  /\ \A i \in DOMAIN actions :
       actions[i].policy => gates.policy /\ actions[i].recipient \notin Denied
  /\ \A i \in DOMAIN actions : actions[i].budget # Unset => gates.budget
  /\ consumed' = [id \in Envelope |-> consumed[id] + Draws(actions, id)]

BatchExecuteValidated(caller, w, actions, gates) ==
  /\ WhenNotPaused
  /\ RequireWalletRole(w, caller, "Agent")
  /\ RequireActive(w)
  /\ actions # <<>> /\ Len(actions) <= MaxBatch
  /\ BatchGates(actions, gates)
  /\ EnforceVelocity(w, Declared(actions))
  /\ EnforceRateLimit(w, TotalAmount(actions), Len(actions))
  /\ Observed(w, Declared(actions), Taken(actions), Len(actions))
  /\ ExecuteCalls(w, actions)
  /\ Moved
  /\ UNCHANGED <<now, wiring, access, velocity, rate, balance, settings>>

Tick ==
  /\ now < MaxTime
  /\ now' = now + 1
  /\ UNCHANGED <<wiring, access, limits, funds, settings>>

-----------------------------------------------------------------------------
Init ==
  /\ now = 0 /\ config = Unset /\ assetId = {} /\ bypass = {}
  /\ wallet = <<>>
  /\ role = [w \in WalletId |-> [a \in Addr |-> Unset]]
  /\ velocity = [w \in WalletId |-> [a \in Asset |-> Unset]]
  /\ spent = [w \in WalletId |-> [a \in Asset |-> Unset]]
  /\ rate = [w \in WalletId |-> Unset]
  /\ used = [w \in WalletId |-> Unset]
  /\ authorized = [w \in WalletId |-> [a \in Asset |-> Never]]
  /\ taken = [w \in WalletId |-> [a \in Asset |-> Never]]
  /\ issued = [w \in WalletId |-> NeverIssued]
  /\ balance = [w \in WalletId |-> [a \in Asset |-> 0]]
  /\ drift = [w \in WalletId |-> [a \in Asset |-> 0]]
  /\ custody = [a \in Asset |-> 0]
  /\ consumed = [id \in Envelope |-> 0]
  /\ moves = 0 /\ settings = 0

Admin(caller) ==
  \/ \E a \in Addr : SetGuardian(caller, a)
  \/ EmergencyPause(caller)
  \/ EmergencyUnpause(caller)
  \/ SetPolicy(caller)
  \/ ClearPolicy(caller)
  \/ SetBudget(caller)
  \/ SetRegistry(caller)
  \/ SetOrg(caller)
  \/ SetDefaultBudgetId(caller)
  \/ ClearDefaultBudgetId(caller)
  \/ \E w \in WalletId, excused \in BOOLEAN : SetPolicyBypass(caller, w, excused)
  \/ \E a \in Asset : SetAssetBudgetId(caller, a)
  \/ \E a \in Asset : ClearAssetBudgetId(caller, a)

Manage(caller, w) ==
  \/ Freeze(caller, w)
  \/ Unfreeze(caller, w)
  \/ Pause(caller, w)
  \/ Unpause(caller, w)
  \/ Archive(caller, w)
  \/ \E a \in Addr, r \in Role : GrantRole(caller, w, a, r)
  \/ \E a \in Addr : RevokeRole(caller, w, a)
  \/ \E a \in Asset, terms \in VelocityTerms : SetVelocityLimit(caller, w, a, terms)
  \/ \E a \in Asset : ClearVelocityLimit(caller, w, a)
  \/ \E terms \in RateTerms : SetRateLimit(caller, w, terms)
  \/ ClearRateLimit(caller, w)

Move(w) ==
  \/ \E a \in Asset, d \in Deposits : Deposit(w, a, d.amount, d.fee)
  \/ \E caller \in Addr, to \in Recipient, a \in Asset, n \in Amounts :
       \E gates \in ResolveGates : Transfer(caller, w, to, a, n, gates)
  \/ \E caller \in Addr, a \in Asset, n \in Amounts :
       \E gates \in ResolveGates : Withdraw(caller, w, a, n, gates)
  \/ \E caller \in Addr, b \in Batches :
       \E gates \in ResolveGates : BatchExecuteValidated(caller, w, b, gates)

Next ==
  \/ \E a \in Addr : Initialize(a) \/ CreateWallet(a)
  \/ MayAdminister /\ \E caller \in Addr : Admin(caller)
  \/ MayAdminister /\ \E caller \in Addr, w \in DOMAIN wallet : Manage(caller, w)
  \/ MayMove /\ \E w \in DOMAIN wallet : Move(w)
  \/ Tick

Spec == Init /\ [][Next]_vars

-----------------------------------------------------------------------------
(* Properties                                                               *)

\* Types; in particular no stored window is 0, which spends divide by.
TypeOK ==
  /\ now \in 0..MaxTime
  /\ config \in Config \cup {Unset}
  /\ assetId \subseteq Asset
  /\ bypass \subseteq WalletId
  /\ wallet \in Seq(WalletData) /\ Len(wallet) <= MaxWallets
  /\ role \in [WalletId -> [Addr -> Role \cup {Unset}]]
  /\ velocity \in [WalletId -> [Asset -> VelocityLimit \cup {Unset}]]
  /\ spent \in [WalletId -> [Asset -> VelocityUsage \cup {Unset}]]
  /\ rate \in [WalletId -> RateLimitConfig \cup {Unset}]
  /\ \A w \in WalletId : rate[w] # Unset => ValidWindow(rate[w].window_seconds)
  /\ used \in [WalletId -> RateUsage \cup {Unset}]
  /\ authorized \in [WalletId -> [Asset -> [0..MaxTime -> Nat]]]
  /\ taken \in [WalletId -> [Asset -> [0..MaxTime -> Nat]]]
  /\ issued \in [WalletId -> [0..MaxTime -> [volume: Nat, count: Nat, taken: Nat]]]
  /\ balance \in [WalletId -> [Asset -> Nat]]
  /\ drift \in [WalletId -> [Asset -> Nat]]
  /\ custody \in [Asset -> Nat]
  /\ consumed \in [Envelope -> Nat]
  /\ moves \in 0..MaxMoves /\ settings \in 0..MaxSettings

\* The tokens in custody that stand behind a wallet's tracked balance.
Backing(w, a) == balance[w][a] - drift[w][a]

\* Custody holds what the wallets' balances say but for the tokens a deposit
\* fell short of and those the calls of batches took: transfer and withdraw
\* move the books and the tokens together, whichever wallet spends first.
BooksExplainCustody ==
  \A a \in Asset :
    custody[a] = SumFunctionOnSet([w \in WalletId |-> Backing(w, a)], WalletId)

\* The times that a span of all buckets but one, ending now, reaches back to.
TrailingSpan(seconds) ==
  {t \in 0..now : t >= now - (Buckets - 1) * BucketSeconds(seconds)}

\* What was declared and passed within a span is within a limit.  The tokens
\* that left in the span are so too if no more left, at any time of it, than
\* was declared: a batch whose calls take more than its actions declare is
\* authorized by what it declares, and its tokens are beyond any limit.
Bounded(declared, tokens, span, max) ==
  /\ SumFunctionOnSet(declared, span) <= max
  /\ (\A t \in span : tokens[t] <= declared[t]) => SumFunctionOnSet(tokens, span) <= max

\* Whoever asks, by whichever path, and wherever the bucket edges fall: since
\* the window of a velocity limit was set, the amounts that transfers,
\* withdrawals and batches declared and passed with in a span of
\* (1 - 1/Buckets) of a window are within the limit.
VelocityHeld ==
  \A w \in WalletId, a \in Asset :
    authorized'[w][a][now] > authorized[w][a][now] =>
      Bounded(authorized'[w][a], taken'[w][a], TrailingSpan(velocity[w][a].window_seconds),
              velocity[w][a].max_amount)

Volume(history) == [t \in DOMAIN history |-> history[t].volume]
Count(history) == [t \in DOMAIN history |-> history[t].count]
Tokens(history) == [t \in DOMAIN history |-> history[t].taken]

\* The same for the rate limit's volume, over all assets, and its count of
\* transactions, in which every action of a batch is one.
RateHeld ==
  \A w \in WalletId :
    issued'[w][now].count > issued[w][now].count =>
      LET span == TrailingSpan(rate[w].window_seconds)
      IN  /\ \/ rate[w].max_volume = 0
             \/ Bounded(Volume(issued[w])', Tokens(issued[w])', span, rate[w].max_volume)
          /\ \/ rate[w].max_count = 0
             \/ SumFunctionOnSet(Count(issued[w])', span) <= rate[w].max_count

\* Both rolling windows hold for what transfers, withdrawals and batches
\* declare, and for the tokens as far as calls take no more than that.
LimitsHeld == [][VelocityHeld /\ RateHeld]_vars

\* Nothing leaves a wallet while the breaker is tripped or the wallet is
\* frozen, paused or archived, by any path.
StoppedMovesNothing ==
  \A w \in DOMAIN wallet :
    config.paused \/ wallet[w].state # "Active" =>
      \A a \in Asset : Backing(w, a)' >= Backing(w, a)

\* An archived wallet takes and pays nothing more; its roles and limits can
\* only be cleaned up.
ArchivedIsFinal ==
  \A w \in DOMAIN wallet :
    wallet[w].state = "Archived" =>
      /\ wallet'[w] = wallet[w]
      /\ balance'[w] = balance[w] /\ drift'[w] = drift[w]
      /\ \A a \in Addr : role'[w][a] \in {role[w][a], Unset}
      /\ \A a \in Asset : velocity'[w][a] \in {velocity[w][a], Unset}
      /\ rate'[w] \in {rate[w], Unset}

\* With a budget wired directly, what transfer and withdraw debit of an asset
\* is charged to its own envelope or else to the default one, for a wallet
\* excused from the policy as well.
SpendsAreBudgeted ==
  \A w \in DOMAIN wallet, a \in Asset :
    /\ balance'[w][a] < balance[w][a]
    /\ config.budget /\ ~(config.registry /\ config.org)
    /\ BudgetIdFor(a) # Unset
    => consumed'[BudgetIdFor(a)] - consumed[BudgetIdFor(a)]
         = balance[w][a] - balance'[w][a]

\* Whatever role or bypass the caller has: stops are obeyed and an archive is
\* final on every path out of a wallet, and with a budget wired directly a
\* transfer or withdrawal is budgeted.  The actions of a batch opt into policy
\* and budget, and the answers of a registry are free.
StopsAndBudgetObeyed == [][StoppedMovesNothing /\ ArchivedIsFinal /\ SpendsAreBudgeted]_vars
=============================================================================
