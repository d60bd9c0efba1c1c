------------------------------ MODULE Treasury ------------------------------
(***************************************************************************)
(* The treasury contract: custody of approved assets, the pause and the    *)
(* freeze, allowances, the withdrawal time lock with its queue, batch      *)
(* payouts and milestone disbursements.  A call runs to its end or is      *)
(* rolled back, so there is one action per entrypoint, guarded by the      *)
(* checks the call passes; the reentrancy flag is down between calls.      *)
(***************************************************************************)
EXTENDS Integers, Functions, Sequences

CONSTANTS
  Addr,            \* accounts and contracts that call the treasury
  Contract,        \* the ones that are contracts
  Recorded,        \* external: the module the registry records for a kind
  Recipient,       \* who is paid
  Denied,          \* external: recipients the policy contract refuses
  Asset,           \* token contracts
  Unset,           \* an absent storage entry
  MaxAssets,       \* MAX_TREASURY_ASSETS
  MaxBatch,        \* MAX_BATCH_PAYMENTS
  MaxPause,        \* MAX_PAUSE_DURATION
  MinDelay,        \* MIN_TIMELOCK_DELAY
  MaxDelay,        \* MAX_TIMELOCK_DELAY
  Grace,           \* GOVERNANCE_GRACE_PERIOD
  MaxTime,         \* bound on the ledger clock
  MaxFunds,        \* bound on what is ever deposited of an asset
  MaxSettings,     \* bound on the administrative calls of a behaviour
  MaxQueue,        \* bound on the queued withdrawals
  Amounts,         \* amounts deposited and withdrawn
  Batches,         \* batches: sequences of [recipient, amount]
  Locks,           \* arguments of set_withdrawal_time_lock
  AllowanceTerms,  \* [limit, expires_at] arguments of set_allowance
  Schedules        \* [total, milestones] of milestone disbursements

Payment == [recipient: Recipient, amount: Nat \ {0}]

ASSUME TreasuryAssumption ==
  /\ Unset \notin Addr
  /\ Denied \subseteq Recipient
  /\ MaxAssets \in Nat /\ MaxBatch \in Nat /\ MaxPause \in Nat /\ Grace \in Nat
  /\ MinDelay \in Nat /\ MaxDelay \in Nat /\ MaxTime \in Nat /\ MaxFunds \in Nat
  /\ MaxSettings \in Nat /\ MaxQueue \in Nat
  /\ Amounts \subseteq Nat \ {0}
  /\ \A b \in Batches : b \in Seq(Payment)
  /\ Locks \subseteq [delay: Nat, threshold: Nat]
  /\ AllowanceTerms \subseteq [limit: Nat \ {0}, expires_at: Nat]
  /\ Schedules \subseteq [total: Nat, milestones: Nat]

VARIABLES
  now,        \* the ledger timestamp
  treasury,   \* DataKey::Treasury
  frozen,     \* DataKey::Frozen
  approved,   \* DataKey::ApprovedAsset: the assets whose flag is set
  list,       \* DataKey::ApprovedAssetList
  count,      \* DataKey::ApprovedAssetCount
  holding,    \* DataKey::Holding
  balance,    \* DataKey::AssetBalance
  allowance,  \* DataKey::Allowance(agent, recipient, asset)
  lock,       \* DataKey::WithdrawalTimeLock
  queue,      \* DataKey::PendingWithdrawal(id), ids from 1
  schedule,   \* DataKey::Milestone(id), ids from 1
  custody,    \* external: the treasury's balance at each token contract
  consumed,   \* external: what the budget contract was charged, by asset
  received,   \* history: what each recipient was paid
  direct,     \* history: paid by withdraw and batch_transfer, by asset
  settings    \* history: administrative calls made so far

whitelist == <<approved, list, count>>
books == <<holding, balance, custody, consumed, received>>
vars == <<now, treasury, frozen, whitelist, books, allowance, lock, queue, schedule,
          direct, settings>>

-----------------------------------------------------------------------------
(* Records                                                                  *)

TreasuryRecord ==
  [admin: Addr, multisig: Addr \cup {Unset}, guardian: Addr, policy: BOOLEAN,
   budget: BOOLEAN, registry: BOOLEAN, paused: BOOLEAN, paused_at: Nat]
Holding == [total_in: Nat, total_out: Nat, bound: BOOLEAN]
Allowance == [limit: Nat, spent: Nat, expires_at: Nat]
PendingWithdrawal ==
  [asset: Asset, to: Recipient, amount: Nat, payments: Seq(Payment), requested_at: Nat,
   execute_after: Nat, expires_at: Nat, cancelled: BOOLEAN, executed: BOOLEAN]
MilestoneDisbursement ==
  [total_amount: Nat, milestones: Nat, disbursed: Nat, amount_per_milestone: Nat,
   asset: Asset, to: Recipient]

Disabled == [delay |-> 0, threshold |-> 0]

\* What a batch pays, in all and to one recipient.
Legs(payments) == [i \in DOMAIN payments |-> payments[i].amount]
Total(payments) == SumFunctionOnSet(Legs(payments), DOMAIN payments)
TotalTo(payments, r) ==
  SumFunctionOnSet(Legs(payments), {i \in DOMAIN payments : payments[i].recipient = r})

\* Vec::first_index_of and Vec::remove.
RemoveFirst(s, x) ==
  LET i == CHOOSE i \in DOMAIN s : s[i] = x /\ \A j \in 1..(i - 1) : s[j] # x
  IN  IF x \in Range(s)
        THEN [j \in 1..(Len(s) - 1) |-> IF j < i THEN s[j] ELSE s[j + 1]]
        ELSE s

\* Bounds the search: an administrative call leaves room for MaxSettings.
Administered ==
  /\ settings < MaxSettings
  /\ settings' = settings + 1

-----------------------------------------------------------------------------
(* Guards                                                                   *)

Loaded == treasury # Unset
RequireAdmin(caller) == Loaded /\ caller = treasury.admin
RequireMultisig(caller) == Loaded /\ caller = treasury.multisig
RequireGuardian(caller) == Loaded /\ caller \in {treasury.guardian, treasury.multisig}

\* The breaker lapses by itself.
PauseIsActive == Loaded /\ treasury.paused /\ now < treasury.paused_at + MaxPause
RequireNotPaused == Loaded /\ ~PauseIsActive
CheckFrozen == ~frozen
RequireApprovedAsset(asset) == asset \in approved

\* A contract has to be the module its registry records; accounts pass.
RequireVerifiedCaller(caller, kind) ==
  caller \in Contract /\ treasury.registry => Recorded[kind] = caller

Applies(amount) == lock.delay > 0 /\ amount >= lock.threshold

ValidBatch(payments) == payments # <<>> /\ Len(payments) <= MaxBatch

-----------------------------------------------------------------------------
(* Configuration                                                            *)

Initialize(a) ==
  /\ ~Loaded
  /\ treasury' = [admin |-> a, multisig |-> Unset, guardian |-> a, policy |-> FALSE,
                  budget |-> FALSE, registry |-> FALSE, paused |-> FALSE, paused_at |-> 0]
  /\ UNCHANGED <<now, frozen, whitelist, books, allowance, lock, queue, schedule, direct,
                 settings>>

Configure(caller, t) ==
  /\ RequireAdmin(caller)
  /\ treasury' = t
  /\ Administered
  /\ UNCHANGED <<now, frozen, whitelist, books, allowance, lock, queue, schedule, direct>>

SetRegistry(caller, wired) == Configure(caller, [treasury EXCEPT !.registry = wired])
SetPolicy(caller) == Configure(caller, [treasury EXCEPT !.policy = TRUE])
SetBudget(caller) == Configure(caller, [treasury EXCEPT !.budget = TRUE])
SetMultisig(caller, a) == Configure(caller, [treasury EXCEPT !.multisig = a])
SetGuardian(caller, a) == Configure(caller, [treasury EXCEPT !.guardian = a])

AddApprovedAsset(caller, asset) ==
  /\ RequireAdmin(caller)
  /\ asset \notin approved
  /\ Len(list) < MaxAssets
  /\ approved' = approved \cup {asset}
  /\ list' = Append(list, asset)
  /\ count' = count + 1
  /\ Administered
  /\ UNCHANGED <<now, treasury, frozen, books, allowance, lock, queue, schedule, direct>>

\* Mutation of RemoveApprovedAsset: the enumerable list is forgotten.
RemoveFlagOnly(caller, asset) ==
  /\ RequireAdmin(caller)
  /\ asset \in approved
  /\ approved' = approved \ {asset}
  /\ count' = count - 1
  /\ Administered
  /\ UNCHANGED <<now, treasury, frozen, list, books, allowance, lock, queue, schedule, direct>>

\* What is held of the asset stays; the routes through it close.
RemoveApprovedAsset(caller, asset) ==
  /\ RequireAdmin(caller)
  /\ asset \in approved
  /\ approved' = approved \ {asset}
  /\ list' = RemoveFirst(list, asset)
  /\ count' = count - 1
  /\ Administered
  /\ UNCHANGED <<now, treasury, frozen, books, allowance, lock, queue, schedule, direct>>

AllocateBudget(caller, asset) ==
  /\ RequireAdmin(caller)
  /\ RequireApprovedAsset(asset)
  /\ holding' = [holding EXCEPT ![asset].bound = TRUE]
  /\ Administered
  /\ UNCHANGED <<now, treasury, frozen, whitelist, balance, custody, consumed, received,
                 allowance, lock, queue, schedule, direct>>

\* An allowance set again starts over.
SetAllowance(caller, agent, to, asset, terms) ==
  /\ RequireAdmin(caller)
  /\ agent # to
  /\ allowance' = [allowance EXCEPT ![<<agent, to, asset>>] =
       [limit |-> terms.limit, spent |-> 0, expires_at |-> terms.expires_at]]
  /\ Administered
  /\ UNCHANGED <<now, treasury, frozen, whitelist, books, lock, queue, schedule, direct>>

RemoveAllowance(caller, agent, to, asset) ==
  /\ RequireAdmin(caller)
  /\ allowance[<<agent, to, asset>>] # Unset
  /\ allowance' = [allowance EXCEPT ![<<agent, to, asset>>] = Unset]
  /\ Administered
  /\ UNCHANGED <<now, treasury, frozen, whitelist, books, lock, queue, schedule, direct>>

\* Requests already queued keep the delay they were queued under.
SetWithdrawalTimeLock(caller, l) ==
  /\ RequireAdmin(caller)
  /\ l.delay # 0 => l.delay \in MinDelay..MaxDelay /\ l.threshold > 0
  /\ lock' = IF l.delay = 0 THEN Disabled ELSE l
  /\ Administered
  /\ UNCHANGED <<now, treasury, frozen, whitelist, books, allowance, queue, schedule, direct>>

-----------------------------------------------------------------------------
(* The pause and the freeze                                                 *)

SetFrozen(caller, flag) ==
  /\ RequireMultisig(caller)
  /\ frozen' = flag
  /\ Administered
  /\ UNCHANGED <<now, treasury, whitelist, books, allowance, lock, queue, schedule, direct>>

Freeze(caller) == SetFrozen(caller, TRUE)
Unfreeze(caller) == frozen /\ SetFrozen(caller, FALSE)

SetPaused(caller, flag, at) ==
  /\ RequireGuardian(caller)
  /\ treasury' = [treasury EXCEPT !.paused = flag, !.paused_at = at]
  /\ Administered
  /\ UNCHANGED <<now, frozen, whitelist, books, allowance, lock, queue, schedule, direct>>

\* A breaker that lapsed may be engaged again.
Pause(caller) == ~PauseIsActive /\ SetPaused(caller, TRUE, now)
Unpause(caller) == Loaded /\ treasury.paused /\ SetPaused(caller, FALSE, 0)

-----------------------------------------------------------------------------
(* Moving value                                                             *)

\* Mutation of Deposit: the amount asked for is credited.
DepositRequested(from, asset, amount, arrived) ==
  /\ Loaded
  /\ RequireApprovedAsset(asset)
  /\ RequireVerifiedCaller(from, "Wallet")
  /\ arrived \in 1..amount
  /\ holding[asset].total_in + holding[asset].total_out + amount <= MaxFunds
  /\ holding' = [holding EXCEPT ![asset].total_in = @ + amount]
  /\ balance' = [balance EXCEPT ![asset] = holding[asset].total_in + amount]
  /\ custody' = [custody EXCEPT ![asset] = @ + arrived]
  /\ UNCHANGED <<now, treasury, frozen, whitelist, consumed, received, allowance, lock,
                 queue, schedule, direct, settings>>

\* A token may deliver less than it was asked to move; what arrived is booked.
Deposit(from, asset, amount, arrived) ==
  /\ Loaded
  /\ RequireApprovedAsset(asset)
  /\ RequireVerifiedCaller(from, "Wallet")
  /\ arrived \in 1..amount
  /\ holding[asset].total_in + holding[asset].total_out + amount <= MaxFunds
  /\ holding' = [holding EXCEPT ![asset].total_in = @ + arrived]
  /\ balance' = [balance EXCEPT ![asset] = holding[asset].total_in + arrived]
  /\ custody' = [custody EXCEPT ![asset] = @ + arrived]
  /\ UNCHANGED <<now, treasury, frozen, whitelist, consumed, received, allowance, lock,
                 queue, schedule, direct, settings>>

\* The ledger is debited, then the tokens leave custody.
Outflow(asset, amount) ==
  /\ amount <= holding[asset].total_in
  /\ holding' = [holding EXCEPT ![asset].total_in = @ - amount, ![asset].total_out = @ + amount]
  /\ balance' = [balance EXCEPT ![asset] = holding[asset].total_in - amount]
  /\ amount <= custody[asset]
  /\ custody' = [custody EXCEPT ![asset] = @ - amount]

\* The envelope bound to the asset is charged.
Charge(asset, amount) ==
  consumed' = IF treasury.budget /\ holding[asset].bound
                THEN [consumed EXCEPT ![asset] = @ + amount]
                ELSE consumed

PolicyAllows(to) == treasury.policy => to \notin Denied

\* An allowance only lowers what its agent may send; without one there is no
\* ceiling.
SpendAllowance(caller, to, asset, amount) ==
  LET al == allowance[<<caller, to, asset>>] IN
  IF al = Unset
    THEN UNCHANGED allowance
    ELSE /\ al.expires_at # 0 => now < al.expires_at
         /\ amount <= al.limit - al.spent
         /\ allowance' = [allowance EXCEPT ![<<caller, to, asset>>].spent = @ + amount]

SettleWithdrawal(caller, asset, to, amount) ==
  /\ PolicyAllows(to)
  /\ Charge(asset, amount)
  /\ SpendAllowance(caller, to, asset, amount)
  /\ Outflow(asset, amount)
  /\ received' = [received EXCEPT ![to] = @ + amount]

\* Mutation of SettleBatch: the policy sees the first leg only.
SettleBatchUnseen(asset, payments) ==
  /\ PolicyAllows(payments[1].recipient)
  /\ Charge(asset, Total(payments))
  /\ Outflow(asset, Total(payments))
  /\ received' = [r \in Recipient |-> received[r] + TotalTo(payments, r)]
  /\ UNCHANGED allowance

\* The policy sees each leg, the budget the sum; allowances are not asked.
SettleBatch(asset, payments) ==
  /\ \A i \in DOMAIN payments : PolicyAllows(payments[i].recipient)
  /\ Charge(asset, Total(payments))
  /\ Outflow(asset, Total(payments))
  /\ received' = [r \in Recipient |-> received[r] + TotalTo(payments, r)]
  /\ UNCHANGED allowance

Withdraw(caller, asset, to, amount) ==
  /\ RequireNotPaused
  /\ CheckFrozen
  /\ RequireAdmin(caller)
  /\ RequireApprovedAsset(asset)
  /\ RequireVerifiedCaller(caller, "Multisig")
  /\ ~Applies(amount)
  /\ SettleWithdrawal(caller, asset, to, amount)
  /\ direct' = [direct EXCEPT ![asset] = @ + amount]
  /\ UNCHANGED <<now, treasury, frozen, whitelist, lock, queue, schedule, settings>>

\* Mutation of BatchTransfer: the time lock measures each leg.
BatchTransferPerLeg(caller, asset, payments) ==
  /\ ValidBatch(payments)
  /\ RequireNotPaused
  /\ CheckFrozen
  /\ RequireAdmin(caller)
  /\ RequireVerifiedCaller(caller, "Multisig")
  /\ \A i \in DOMAIN payments : ~Applies(payments[i].amount)
  /\ SettleBatch(asset, payments)
  /\ direct' = [direct EXCEPT ![asset] = @ + Total(payments)]
  /\ UNCHANGED <<now, treasury, frozen, whitelist, lock, queue, schedule, settings>>

\* Whether the asset is approved is not asked.
BatchTransfer(caller, asset, payments) ==
  /\ ValidBatch(payments)
  /\ RequireNotPaused
  /\ CheckFrozen
  /\ RequireAdmin(caller)
  /\ RequireVerifiedCaller(caller, "Multisig")
  /\ ~Applies(Total(payments))
  /\ SettleBatch(asset, payments)
  /\ direct' = [direct EXCEPT ![asset] = @ + Total(payments)]
  /\ UNCHANGED <<now, treasury, frozen, whitelist, lock, queue, schedule, settings>>

-----------------------------------------------------------------------------
(* The time lock                                                            *)

OpenPending(asset, to, amount, payments) ==
  /\ Len(queue) < MaxQueue
  /\ queue' = Append(queue,
       [asset |-> asset, to |-> to, amount |-> amount, payments |-> payments,
        requested_at |-> now, execute_after |-> now + lock.delay,
        expires_at |-> now + lock.delay + Grace, cancelled |-> FALSE, executed |-> FALSE])
  /\ UNCHANGED <<now, treasury, frozen, whitelist, books, allowance, lock, schedule,
                 direct, settings>>

QueueWithdrawal(caller, asset, to, amount) ==
  /\ RequireNotPaused
  /\ CheckFrozen
  /\ RequireAdmin(caller)
  /\ RequireApprovedAsset(asset)
  /\ RequireVerifiedCaller(caller, "Multisig")
  /\ Applies(amount)
  /\ OpenPending(asset, to, amount, <<>>)

QueueBatchTransfer(caller, asset, payments) ==
  /\ ValidBatch(payments)
  /\ RequireNotPaused
  /\ CheckFrozen
  /\ RequireAdmin(caller)
  /\ RequireVerifiedCaller(caller, "Multisig")
  /\ Applies(Total(payments))
  /\ OpenPending(asset, payments[1].recipient, Total(payments), payments)

IsPending(p) == ~p.cancelled /\ ~p.executed

\* Mutation of ExecuteWithdrawal: the request is not closed.
ExecuteAgain(caller, id) ==
  LET p == queue[id] IN
  /\ RequireNotPaused
  /\ CheckFrozen
  /\ RequireAdmin(caller)
  /\ IsPending(p)
  /\ now < p.expires_at
  /\ now >= p.execute_after
  /\ RequireApprovedAsset(p.asset)
  /\ RequireVerifiedCaller(caller, "Multisig")
  /\ IF p.payments = <<>>
       THEN SettleWithdrawal(caller, p.asset, p.to, p.amount)
       ELSE SettleBatch(p.asset, p.payments)
  /\ UNCHANGED <<now, treasury, frozen, whitelist, lock, queue, schedule, direct, settings>>

\* The routing, the caller and every gate are asked again when it settles.
ExecuteWithdrawal(caller, id) ==
  LET p == queue[id] IN
  /\ RequireNotPaused
  /\ CheckFrozen
  /\ RequireAdmin(caller)
  /\ IsPending(p)
  /\ now < p.expires_at
  /\ now >= p.execute_after
  /\ RequireApprovedAsset(p.asset)
  /\ RequireVerifiedCaller(caller, "Multisig")
  /\ queue' = [queue EXCEPT ![id].executed = TRUE]
  /\ IF p.payments = <<>>
       THEN SettleWithdrawal(caller, p.asset, p.to, p.amount)
       ELSE SettleBatch(p.asset, p.payments)
  /\ UNCHANGED <<now, treasury, frozen, whitelist, lock, schedule, direct, settings>>

CancelWithdrawal(caller, id) ==
  /\ RequireAdmin(caller)
  /\ IsPending(queue[id])
  /\ queue' = [queue EXCEPT ![id].cancelled = TRUE]
  /\ UNCHANGED <<now, treasury, frozen, whitelist, books, allowance, lock, schedule,
                 direct, settings>>

-----------------------------------------------------------------------------
(* Milestone disbursements                                                  *)

InitMilestoneDisbursement(caller, asset, to, s) ==
  /\ RequireAdmin(caller)
  /\ RequireApprovedAsset(asset)
  /\ s.milestones # 0
  /\ s.total \div s.milestones # 0
  /\ schedule' = Append(schedule,
       [total_amount |-> s.total, milestones |-> s.milestones, disbursed |-> 0,
        amount_per_milestone |-> s.total \div s.milestones, asset |-> asset, to |-> to])
  /\ Administered
  /\ UNCHANGED <<now, treasury, frozen, whitelist, books, allowance, lock, queue, direct>>

\* The last payout takes the remainder of the division.
MilestoneAmount(d) ==
  IF d.disbursed = d.milestones - 1
    THEN d.total_amount - d.amount_per_milestone * (d.milestones - 1)
    ELSE d.amount_per_milestone

\* Neither the freeze, the time lock nor the policy is asked.
ReleaseNextMilestone(caller, id) ==
  LET d == schedule[id] IN
  /\ RequireNotPaused
  /\ RequireAdmin(caller)
  /\ RequireVerifiedCaller(caller, "Multisig")
  /\ d.disbursed < d.milestones
  /\ RequireApprovedAsset(d.asset)
  /\ schedule' = [schedule EXCEPT ![id].disbursed = @ + 1]
  /\ Charge(d.asset, MilestoneAmount(d))
  /\ Outflow(d.asset, MilestoneAmount(d))
  /\ received' = [received EXCEPT ![d.to] = @ + MilestoneAmount(d)]
  /\ UNCHANGED <<now, treasury, frozen, whitelist, allowance, lock, queue, direct, settings>>

\* External: the ledger's clock.
Tick ==
  /\ now < MaxTime
  /\ now' = now + 1
  /\ UNCHANGED <<treasury, frozen, whitelist, books, allowance, lock, queue, schedule,
                 direct, settings>>

-----------------------------------------------------------------------------

Init ==
  /\ now = 0
  /\ treasury = Unset
  /\ frozen = FALSE
  /\ approved = {}
  /\ list = <<>>
  /\ count = 0
  /\ holding = [a \in Asset |-> [total_in |-> 0, total_out |-> 0, bound |-> FALSE]]
  /\ balance = [a \in Asset |-> 0]
  /\ allowance = [x \in Addr \X Recipient \X Asset |-> Unset]
  /\ lock = Disabled
  /\ queue = <<>>
  /\ schedule = <<>>
  /\ custody = [a \in Asset |-> 0]
  /\ consumed = [a \in Asset |-> 0]
  /\ received = [r \in Recipient |-> 0]
  /\ direct = [a \in Asset |-> 0]
  /\ settings = 0

Configuration(caller) ==
  \/ Initialize(caller)
  \/ \E wired \in BOOLEAN : SetRegistry(caller, wired)
  \/ SetPolicy(caller)
  \/ SetBudget(caller)
  \/ \E a \in Addr : SetMultisig(caller, a) \/ SetGuardian(caller, a)
  \/ \E l \in Locks : SetWithdrawalTimeLock(caller, l)
  \/ \E asset \in Asset :
       \/ AddApprovedAsset(caller, asset)
       \/ RemoveApprovedAsset(caller, asset)
       \/ AllocateBudget(caller, asset)
       \/ \E to \in Recipient :
            \/ \E agent \in Addr, terms \in AllowanceTerms :
                 SetAllowance(caller, agent, to, asset, terms)
            \/ \E agent \in Addr : RemoveAllowance(caller, agent, to, asset)
            \/ \E s \in Schedules : InitMilestoneDisbursement(caller, asset, to, s)

Breakers(caller) ==
  \/ Freeze(caller)
  \/ Unfreeze(caller)
  \/ Pause(caller)
  \/ Unpause(caller)

Movement(caller) ==
  \/ \E asset \in Asset, amount \in Amounts :
       \/ \E arrived \in 1..amount : Deposit(caller, asset, amount, arrived)
       \/ \E to \in Recipient : \/ Withdraw(caller, asset, to, amount)
                                \/ QueueWithdrawal(caller, asset, to, amount)
  \/ \E asset \in Asset, payments \in Batches :
       \/ BatchTransfer(caller, asset, payments)
       \/ QueueBatchTransfer(caller, asset, payments)
  \/ \E id \in DOMAIN queue : ExecuteWithdrawal(caller, id) \/ CancelWithdrawal(caller, id)
  \/ \E id \in DOMAIN schedule : ReleaseNextMilestone(caller, id)

Next ==
  \/ \E caller \in Addr : Configuration(caller) \/ Breakers(caller) \/ Movement(caller)
  \/ Tick

Spec == Init /\ [][Next]_vars

-----------------------------------------------------------------------------
(* Properties                                                               *)

\* Every storage entry has its type, the three records of the whitelist, the
\* flags, the list and the count, agree, and no allowance is overspent.
TypeOK ==
  /\ now \in 0..MaxTime
  /\ treasury \in TreasuryRecord \cup {Unset}
  /\ frozen \in BOOLEAN
  /\ approved \subseteq Asset
  /\ list \in Seq(Asset) /\ Range(list) = approved
  /\ count = Len(list) /\ count <= MaxAssets
  /\ holding \in [Asset -> Holding]
  /\ balance \in [Asset -> Nat]
  /\ allowance \in [Addr \X Recipient \X Asset -> Allowance \cup {Unset}]
  /\ \A x \in DOMAIN allowance : allowance[x] # Unset => allowance[x].spent <= allowance[x].limit
  /\ lock \in [delay: Nat, threshold: Nat]
  /\ queue \in Seq(PendingWithdrawal)
  /\ schedule \in Seq(MilestoneDisbursement)
  /\ custody \in [Asset -> Nat] /\ consumed \in [Asset -> Nat] /\ direct \in [Asset -> Nat]
  /\ received \in [Recipient -> Nat]
  /\ settings \in 0..MaxSettings

\* The books, the balance announced in events and the tokens in custody are
\* the same, though tokens may deliver less than a deposit asked for.
BooksMatchCustody ==
  \A a \in Asset : custody[a] = holding[a].total_in /\ balance[a] = holding[a].total_in

\* What a schedule has paid so far.
MilestonesPaid(d) ==
  IF d.disbursed = d.milestones THEN d.total_amount ELSE d.amount_per_milestone * d.disbursed

\* Paid for the queued requests, and for the milestones, of an asset.
QueuePaid(a) ==
  SumFunctionOnSet([i \in DOMAIN queue |-> queue[i].amount],
                   {i \in DOMAIN queue : queue[i].asset = a /\ queue[i].executed})
SchedulePaid(a) ==
  SumFunctionOnSet([i \in DOMAIN schedule |-> MilestonesPaid(schedule[i])],
                   {i \in DOMAIN schedule : schedule[i].asset = a})

\* Everything that left is accounted for exactly once: direct payouts, queued
\* requests that were executed, and the milestones due so far, a finished
\* schedule having paid its total to the last unit.
PaidOnce ==
  \A a \in Asset :
    holding[a].total_out = direct[a] + QueuePaid(a) + SchedulePaid(a)

Paid(a) == holding'[a].total_out - holding[a].total_out

MilestoneStep == \E i \in DOMAIN schedule : schedule'[i].disbursed # schedule[i].disbursed

\* While the time lock is on, a payout that reaches its threshold, alone or
\* as the sum of a batch, is one that has waited in the queue since it was
\* requested; only milestones are exempt.
HighValueWaited ==
  [][\A a \in Asset :
       Paid(a) > 0 /\ Applies(Paid(a)) /\ ~MilestoneStep =>
         \E i \in DOMAIN queue :
           /\ queue'[i].executed /\ IsPending(queue[i])
           /\ now >= queue[i].requested_at + MinDelay
           /\ now < queue[i].expires_at]_vars

\* While the circuit breaker is engaged nothing leaves, by any path.
PausedMovesNothing == PauseIsActive => \A a \in Asset : Paid(a) = 0

\* With a policy in place a recipient it refuses is paid by no single payout,
\* leg of a batch or queued request, also when it was queued before.
PolicyHonoured ==
  Loaded /\ treasury.policy /\ ~MilestoneStep =>
    \A r \in Denied : received'[r] = received[r]

\* The budget is charged what leaves of an asset bound to it, by every path.
BudgetCharged ==
  \A a \in Asset :
    Loaded /\ treasury.budget /\ holding[a].bound =>
      consumed'[a] - consumed[a] = Paid(a)

\* A queued single request draws in full on the allowance in force when it
\* settles, before that expires and within its limit, whatever was in force
\* when it was queued.
AllowanceObeyed ==
  \A i \in DOMAIN queue :
    LET p == queue[i]
        x == <<treasury.admin, p.to, p.asset>> IN
    queue'[i].executed /\ ~p.executed /\ p.payments = <<>> /\ allowance[x] # Unset =>
      /\ allowance[x].expires_at # 0 => now < allowance[x].expires_at
      /\ allowance'[x].spent = allowance[x].spent + p.amount
      /\ allowance'[x].spent <= allowance[x].limit

\* No path out of the treasury avoids a gate: the breaker, the policy and the
\* budget are asked of single payouts, batches and queued requests alike, the
\* allowance again of a single request when it leaves the queue.
EveryPathGated ==
  [][PausedMovesNothing /\ PolicyHonoured /\ BudgetCharged /\ AllowanceObeyed]_vars

\* What the freeze documents: it blocks all outbound transfers.
FrozenMovesNothing == [][frozen => \A a \in Asset : Paid(a) = 0]_vars
=============================================================================
