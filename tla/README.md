# Verification project for the Astroid contracts

The repository is a workspace of eight Soroban (Stellar) smart contracts, a
library they share and the interfaces through which they call each other. This
directory holds TLA+ models of the contracts, TLC configurations that check
them on small instances, and TLAPS proofs of the results that matter most.

A contract call is atomic: it succeeds as one step or returns an error and
leaves no trace. What makes these contracts hard is therefore not preemption
but the order of calls: many parties call many entrypoints of the same record
in any order, at any ledger time, with inputs each of them chooses, and every
entrypoint re-derives on its own whether it may still act.

## Inventory

| Component | Source | State it keeps | Operations |
|---|---|---|---|
| Escrow | `contracts/escrow` | admin and token whitelist; per id: the agreement record, its release condition and approvals, its milestone set; one custody balance per token | creation (ordinary, refund window, multi-party, time-lock, schedule, milestones, unfunded), `fund`, `approve_release`, `withdraw`, `claim`, `release`, `override_release`, `expire`, `refund`, `refund_timelock`, `reclaim`, `cancel`, `close`, milestone release / dispute / resolve / cancel |
| Multisig | `contracts/multisig` | weighted signers, threshold, pending threshold, emergency lock, time-locked governance changes, proposals and approvals, batch nonce | signer and threshold management (immediate and time-locked), `propose`, `approve`, `execute`, `execute_batch`, `verify_threshold` |
| Proposal | `contracts/proposal` | proposals with deposits, votes, dependencies, time-locks | create, approve, reject, cancel, expire, execute, fail, close, prune |
| Treasury | `contracts/treasury` | holdings per asset, whitelist, allowances, pause and freeze flags, pending withdrawals, milestone disbursements, re-entrancy lock | deposit, withdraw, batch transfer, queue / execute / cancel withdrawal, milestone release |
| Wallet | `contracts/wallet` | wallets with state and balances per asset, roles, velocity and rate windows, breaker, re-entrancy lock | deposit, transfer, withdraw, batch execution, state changes, limits |
| Budget | `contracts/budget` | budgets with limit, spent, rollover credit, deficit, period window; per-asset budgets | allocate, consume, reset, rollover, set limit, freeze, archive, transfer allocation, per-asset spends |
| Policy | `contracts/policy` | policies, allowances with windows, lists, rule trees and rule stacks | register, rotate, enable, lists, allowances, evaluation |
| Registry | `contracts/registry` | organizations, module addresses and pins, version table, approved code hashes, upgrade proposals, roles, admins, freeze | register, upgrade, propose / commit / reject upgrade, roles, freeze |
| Upgrade gate | `interfaces/src/upgrade.rs` | upgrade authority of each contract | set authority, check, apply |
| Shared library | `shared/src` | none | checked arithmetic, balances, validation, safe token calls, errors, events, telemetry |

How they interact: Treasury and Wallet call Policy (`check_transfer`) and Budget
(`consume`) before a payout, resolving them directly or through the Registry;
Proposal asks Multisig for signers, weights and the threshold; every contract
asks the Registry whether new code is approved; Escrow, Treasury, Wallet and
Proposal move tokens of the Stellar asset contracts (external).

### What is hard in each, and what makes it correct

| Component | Hard behaviour | Correct when |
|---|---|---|
| Escrow | nine settlement paths over one shared balance; clocks (deadline, grace, refund window, vesting) that open and close them; flooring of every pro-rata leg; milestones released, disputed and cancelled in any order | no escrow spends another's deposit; settlement is final and complete; recipient and sender are never served by the same instant; the sender's exit cannot be blocked |
| Multisig | three governance paths (immediate, ledger-delayed, time-locked) change signers, weights and threshold under the pending effects of each other, and under open proposals | the threshold stays reachable; execution counts the signers of the moment; the review window of a change is the one it was proposed under; decisions are final |
| Proposal | depends on a signer set that changes in another contract; a deadline that may pass between any two calls; five places that refund; records pruned by anyone | deposits are refunded exactly once; chains run in order; execution rests on present support and on a time-lock counted from the approval that carried it; every step is an edge of the lifecycle table |
| Budget | lazy windows that catch up on several periods; credit carried over; scalar and per-asset envelopes; limits moved between envelopes | over its whole life an envelope spends no more than it was granted; settling late equals settling on time; reallocation conserves the limit |
| Treasury | single, batch, queued and milestone payouts, each with checks of its own, under a configuration that changes between request and execution | the books are the tokens; everything is paid once; each payout passes the same gates on every path |
| Wallet | many wallets over one custody balance; roles; rolling windows in buckets; batches whose calls are not what they declare | no trailing window authorizes more than its limit; books and tokens move together; stops and archive hold on every path, the budget on every transfer and withdrawal |
| Registry, upgrade gate | an upgrade is proposed, expires, is committed or rejected while versions, pins, approvals, admins and roles change; two storage layouts for versions | published versions never change; nothing moves back; what runs is what the version table says |

## Modules

| Module | Role |
|---|---|
| `EscrowMath` | the arithmetic of the escrow: vesting, pro-rata legs, milestone shares, the clocks |
| `Escrow` | the escrow contract, one action per entrypoint |
| `Vault`, `EscrowVault` | what custody of several deposits promises, and the refinement mapping by which `Escrow` implements it |
| `VotingWeight` | the weight of a set of signers |
| `SignerSet` | what the multisig promises to the contracts that ask it for signers and threshold |
| `Multisig` | the multisig contract, with its refinement of `SignerSet` |
| `Proposal` | the proposal contract, composed with `SignerSet` in place of the multisig |
| `GovernedProposals` | the proposal contract wired to `Multisig` itself, with its refinement of `Proposal` |
| `BudgetWindow`, `Budget` | the arithmetic of period windows, rollover and deficit; the budget contract |
| `UpgradeGate`, `Registry` | the upgrade gate every contract embeds; the registry contract, composed with the gate for its own upgrade and for that of a member contract |
| `Treasury` | the treasury contract, over external policy, budget and registry |
| `SpendWindow`, `Wallet` | rolling windows in buckets; the wallet contract with its access ladder, over external policy, budget and registry |
| `MCEscrow`, `MCMultisig`, `MCProposal`, `MCBudget`, `MCRegistry`, `MCTreasury`, `MCWallet` | input sets of the TLC runs |
| `EscrowProofs`, `MultisigProofs`, `ProposalProofs`, `BudgetProofs`, `RegistryProofs`, `TreasuryProofs`, `WalletProofs` | the theorems on each contract and their proofs |
| `SumProofs` | the lemmas they share: sums over finite sets, floored division |

Conventions. An entrypoint is one action; its guard is the conjunction of the
checks it passes, so an error return is an action that is not enabled (Soroban
rolls back everything a failed call did). `caller` is the address whose
authorization a call carries. Token contracts are external: a transfer moves
the amount, or aborts the call when the payer cannot cover it. Integer widths
appear where the code's result depends on them (`U64`, `MaxU64`, `MaxWeight`,
`MaxDeposit`, `MaxI128`). Operators whose comment begins with "Mutation of" are plausible
bugs: substituting one for the definition it names makes TLC report the
property listed for it in `PROJECT.json`; the specifications never use them.

### Escrow

`escrow[id]`, `condition[id]`, `milestones[id]` are the records under
`DataKey::Escrow`, `ReleaseCondition` (with its `ReleaseApproval` flags) and
`Milestones`; `custody` is the contract's balance of each token.
`toRecipient` and `toSender` are history: what each escrow has paid out. The
seven creation entrypoints are disjuncts of `Creation`, every entrypoint on an
existing escrow is a disjunct of `Operation`. Amounts per asset are functions
on `Token`, so one vector stands for the code's parallel lists.

Abstracted: memos, event payloads, storage lifetimes, error codes, the
signature bytes of override keys (a set of keys that signed), the upgrade
entrypoints.

### Multisig and SignerSet

`weight` (0 for a non-signer) and `threshold` (0 before `initialize`) are the
signer list and the threshold; `pending` is the ledger-delayed threshold,
`changes` the time-locked governance changes, `proposals` and `approvals` the
proposals and their flags, `lastNonce` the batch nonce. `window` in a change
and `proposed_at` in a proposal are history: the delay in force when it was
proposed. `Votes` writes the weight of a set of signers as the number of
units it holds, which makes sums of weights cardinalities of sets and so
accessible to proof without induction over data.

`SignerSet` keeps only `weight` and `threshold`: its one action replaces both by
any configuration that can reach its threshold. `ImplementsSignerSet` says that
the multisig does nothing else to what others can see of it.

Abstracted: the sequence number and the timestamp that the code uses as two
clocks advance together; `verify_threshold` (a view) is the same count as the
batch; 64-bit overflow of the clocks is out of reach of a ledger.

### Proposal

`proposals[id]` is the record under `DataKey::Proposal`, `approvals[id]` the
`Approval` flags, `purged` the ids whose record was removed (the record itself
stays in `proposals` as history), `held` the balance of the deposit asset.
`ExpireIfDue` is the settlement that entrypoints and views perform first on a
stale proposal: they succeed without doing anything else, so it is one action,
and every other action requires that it does not apply. `execute` instead
reports an error. `PruneExpired` takes a set of ids, which covers the single,
batch and range forms. `carried_at` is history: when an approval last left the
proposal with the approvals it asks for and the weight the multisig asks for.

`ReviseSigners` is any call to the multisig: one `SignerSet` step. `GovernedProposals`
wires the contract to `Multisig` instead and is proved to implement `Proposal`, so
what holds of `Proposal` holds over the real multisig.

Abstracted: org, wallet and policy references; all deposits are in one asset
(only the first entry of a deposit vector is ever moved); who the proposer is,
since no check but its own authorization depends on it; events.

### Budget

`budget[id]` and `asset[<<id, token>>]` are the records under `DataKey::Budget` and
`DataKey::AssetBudget`. `WindowTransition` and `AssetTransition` are the functions
of the same names; an entrypoint that settles first works on `Settled(id)`, and
`CanSettle` collects the checked operations that may fail on the way (`Fits`). The
views that persist what they settle (`remaining`, `get_asset_budget`) are actions.
`granted` and `used` are history: the base allowance an envelope became entitled
to, one limit per period that begins, at the limit in force when it begins, and
what was really consumed. `AllowanceNotMinted` compares the two over the whole
life of the envelope, through rollover, caps, percentages, resets, releases,
new limits and deficits. It leaves out `backdated` envelopes, those that
received a reallocation while a lapsed window was still to be settled (see
Observations).

Abstracted: budget names and metadata; `Cadence` gives the named periods lengths
of a few ticks; `BPS` is 2, so 50% is the only proper share.

### Registry and UpgradeGate

`record` and `legacy` are the two layouts of a version entry, `ReadVersion` the
lookup that knows both; `pin` is `ModuleVersion`, `pending` and `audit` the upgrade
proposals and their log. `UpgradeGate` holds, per contract kind, the authority
(`gate`) and the code it runs (`running`); `Perform` is the gate's check and the
host's code replacement. `Upgrade` is the registry's own upgrade, which plans the
version before the gate and records it after; `UpgradeMember` is the upgrade
entrypoint every other contract has, asking the registry whether the code is
approved. `Repoint` is the tail that every entrypoint which moves a module
shares: address, pin, deprecation.

Abstracted: code is a hash, deployment is an address that is a contract;
signatures; events; the batched lookups, which are views.

### Treasury

`treasury` is the configuration record, `approved`, `list` and `count` the three
entries of the whitelist, `holding` and `balance` the books, `queue` the pending
withdrawals (single and batch), `schedule` the milestone disbursements. External:
`custody` (the tokens), `consumed` (what the budget was charged), the policy as a
set of recipients it refuses (`Denied`), the registry as a table of modules
(`Recorded`). A deposit may deliver less than was asked. History: `received` per
recipient and `direct`, what left without a queue. `SettleWithdrawal` and
`SettleBatch` are shared by the direct and the queued path, as in the code.

Abstracted: the organization, memos, the re-entrancy flag (down between calls,
since a failed call is rolled back), reads of token balances.

### Wallet

`config` is the instance storage, `wallet`, `role`, `balance` the records per
wallet, `velocity`/`spent` and `rate`/`used` the limits and their usage.
`RegistryAnswer` is what the registry returns for policy and budget when it is
wired together with an organization. An action of a batch carries what it
declares (`asset`, `amount`), which the gates and limits are asked about, and
separately what its call really takes (`token`, `paid`), which may be another
token and another amount. History, per limit and time: `authorized`, what was
declared and passed; `taken`, the tokens that left; `issued`, volume, count and
tokens under a rate limit; and `drift`, the tokens a wallet was credited without
receiving or that a batch's call took.
`TrailingSpan` is what buckets can promise: at a bucket's edge only the last
`Buckets - 1` of them are complete.

Abstracted: the amount a batch call may also move into custody, recipients as a
small set, the re-entrancy flag.

## Runs

| Run | Module and configuration | Shows |
|---|---|---|
| `single` | `MCEscrow_single.cfg` | one escrow of any kind, every role assignment (arbiter third party, recipient or sender), clocks 0..5: settlement is final, in time and pays everything (`SettlesOnceAndInTime`, `SettledPaysEverything`), sign-offs precede every payment (`PaidOnlyWithApprovals`), the calls that settle in opposite directions are never open together and the sender's way out is never shut (`HandoffExact`), what withdraw and claim take while the escrow is open stays within vesting, and what milestones pay within the completed ones (`EarnedBeforePaid`; a release is not bounded by it, see the observations), and under the fairness below the sender's exit is never blocked (`SenderExitNeverBlocked`) |
| `pool` | `MCEscrow_pool.cfg` | two escrows in one balance: `CustodySound`, and the refinement `ImplementsVault` |
| `quorum` | `MCMultisig_quorum.cfg` | immediate, delayed and time-locked changes against a proposal and a batch: `QuorumReachable`, `ExecutedByLiveQuorum`, `DecisionsAreFinal`, and the refinement `ImplementsSignerSet` |
| `review` | `MCMultisig_review.cfg` | three changes in flight, two of which move the delay itself: `ReviewWindowKept` |
| `lifecycle` | `MCProposal_lifecycle.cfg` | two proposals, one possibly depending on the other, while the signer set changes: `DepositsSound`, `ChainInOrder`, `ExecutedOnSupport`, `CoolingOff`, `LifecycleKept` |
| `budget` | `MCBudget_budget.cfg` | two envelopes of one owner: allowance is carried and never made (`AllowanceNotMinted`), reallocation conserves limits (`AllocationConserved`), windows settled late end as windows settled on time (`SettlementConfluent`) |
| `assets` | `MCBudget_assets.cfg` | two per-asset budgets under single and batch spends: `AssetAllowanceNotMinted` |
| `registry` | `MCRegistry_registry.cfg` | admins, roles, modules, versions, proposals and upgrades in any order: the latest pointer is the highest version in either layout (`LatestIsHighest`), pinned modules and the registry run what the version table says (`RunsItsVersion`), the bounded log tells what is pending (`AuditTellsPending`), published versions stay, nothing rolls back, a freeze holds (`HistoryKept`) |
| `treasury` | `MCTreasury_treasury.cfg` | every payout path while the configuration changes: `BooksMatchCustody`, `PaidOnce`, high-value payouts wait in the queue (`HighValueWaited`), breaker, policy and budget are asked of single, batch and queued payouts, and a queued single request draws on the allowance in force when it settles (`EveryPathGated`) |
| `wallet` | `MCWallet_wallet.cfg` | two wallets over shared custody: `BooksExplainCustody`, velocity and rate windows hold for what transfers, withdrawals and batches declare, across bucket edges and re-set limits, and for the tokens that leave as long as no call takes more than it declares (`LimitsHeld`); stops and archive hold on every path, and a directly wired budget is charged by every transfer and withdrawal (`StopsAndBudgetObeyed`) |
| `frozen` | `MCTreasury_frozen.cfg` | expected to fail: the first finding below |
| `wrap` | `MCEscrow_wrap.cfg` | expected to fail: the second finding below |

Properties that share a subject are stated as named parts and checked as their
conjunction (`CustodySound` is `NoOverdraw`, `CustodyExact` and `PayoutsCovered`; `HandoffExact` is
`HandoffExclusive` and `SenderExitOpen`; `DepositsSound` is `DepositsHeld` and
`RefundsCovered`; `EarnedBeforePaid`, `SettlesOnceAndInTime`, `RunsItsVersion`, `HistoryKept`, `LimitsHeld`,
`EveryPathGated` and `StopsAndBudgetObeyed` likewise).

### Bounds

Escrow: deposits of 3 and 2 units, so that basis-point and vesting shares leave
dust; weights 33.33 / 33.33 / 33.34 % and a list that does not add up; clock up
to 5 with deadline 3, grace 1 and refund window 1, which passes through every
boundary of every clock; one escrow where properties concern one record, two
where they share the balance (properties never relate three). `U64` is 1000
in `single` and `pool`, where widths play no part; `wrap` sets it to 8 with a grace
of 7 after a deadline of 2, a sum that does not fit. Multisig: two accounts of weights
1 and 2 with `MaxWeight` 3 (u32's limit within reach), thresholds 0 to 2, so that
every guard can fail; one change and one proposal together, three changes alone.
Proposal: two signers under every signer set of weight at most 2, two
proposals, deadline 3, grace window 1, a dependent without deadline, and
time-locks 1 and `MaxU64` (a release instant that does not fit). Budget: periods of
1 and 2 ticks over 3 or 4 ticks, so that up to three windows lapse unseen;
limits of 1 and 2 against `MaxI128` 5, so that sums overflow; two envelopes because
reallocation relates two. Registry: two versions of the registry's code (one
sharing the first one's hash), one of another contract, a log of two entries
that overflows, proposals that expire at the next tick. Treasury: one asset, a
batch whose legs are below the threshold their sum reaches, two queued requests,
clock 3 with delay 1, pause 1 and grace 1, so that a request matures, lapses and
meets the end of a pause. Wallet: two buckets per window, clock 3, which crosses
every bucket edge; two wallets, two assets and two accounts; batches of two actions
of which a call takes nothing, what it declares, or a token another action declares,
so that more of it leaves than was authorized. In these four the
number of administrative calls in one behaviour is bounded (`MaxSettings`,
`MaxGovernance`, `MaxOrgCalls`, `MaxPublications`, `MaxMoves`, `MaxCalls`), with every
mix of them allowed within the bound: each property is broken by its mutant well
inside it. Every bound on
a clock or on a number of records is a named constant in a guard (`MaxTime`,
`MaxEscrows`, `MaxChanges`, `MaxProposals`); the theorems hold for all of them.

Symmetry is over interchangeable accounts, in runs that check safety only.
`CHECK_DEADLOCK FALSE` appears where the bounded clock and bounded numbers of
records let a behaviour stop, which the contract cannot.

### Fairness

Only `single` assumes any, and only for its liveness property: ledgers keep closing (`WF` of `Tick`), and the sender of an
escrow keeps asking for its money back (`WF` of `SenderExits`, refund or
cancellation of milestones). Nothing is assumed of arbiter, recipient,
participants, keeper or admin: contracts cannot make anyone call them.

## Findings

`frozen` (run expected to fail): `release_next_milestone` asks for the pause and
never for the freeze, so a frozen treasury still pays milestones, while the doc
of `freeze` says the flag "blocks all outbound transfers". TLC's trace wires the
multisig, approves an asset, opens a schedule, freezes, deposits and releases.

`wrap` (run expected to fail): `grace_end` (escrow lib.rs:2116) adds two u64 values as
i128, where the sum always fits, and casts the result back, which truncates it.
A grace that ends at 2^64 or later is over as soon as the deadline passes, while
the doc of `create` (391) says "the sender may only reclaim the funds once the grace
has fully elapsed" and the comment on `grace_end` (2111) that the sum reports
`Overflow`. The proof of `SettlesOnceAndInTime` led here: it needs the hypothesis that
deadlines with their graces fit u64, and `GraceHonoured` without it is what TLC
refutes.

## Observations

Where code and documentation disagree, or where the code does what a reader may
not expect. All of it is in the models; the properties are stated so that they
hold of the code as it is.

Escrow
- `release` compares the outstanding balance with the total vested amount
  (1130): after a partial withdrawal it can settle what has not vested.
- On a bullet time-lock the arbiter's release window closes at the second the
  lock opens (1135), against the comment at 1103.
- `expire` is accepted after the refund window closed (1298); nobody can then move
  the funds, though `reclaim` is said to guarantee that none are stranded (1513).
- Settling several assets after pro-rata withdrawals may leave dust in the other
  assets (`SettledPaysEverything` is about one asset).

Multisig and Proposal
- Lowering the threshold between approvals lets a proposal execute whose quorum
  event was never published (multisig 524, against 66-68).
- `add_signer` and `remove_signer` take effect at once, while the module doc promises
  a review window for every change of who can sign.
- A signer removed and admitted again counts through an approval of its earlier
  term, in the multisig as in proposals.
- Pruning an executed prerequisite blocks its dependents for good (proposal 712 and
  1113, against interfaces/proposal.rs:75-77).
- When the multisig lowers its threshold, an approved proposal becomes executable
  without a new approval, and its time-lock has been running all along.
- `cancel` and `fail` on a stale proposal settle it and succeed, where their
  docs say they fail with `ProposalExpired`. A `Failed` proposal's deposit is never
  returned (the interface says so).

Budget
- `transfer_allocation` settles neither side, so windows of the receiver that
  lapsed before are later settled at the raised limit: it can spend more than it
  was granted period by period.
- Settling late equals settling on time only for envelopes that carry all or
  nothing and did not overdraw, while the doc of `window_transition` says so of all.
  An envelope with rollover enabled at 0 basis points carries something: idle
  periods are credited in full, so it is left out too (the proof of
  `SettlementConfluent` showed this).
- A percentage ceiling that rounds down to 0 means no ceiling.
- Within the first window of a deficit budget every overspend is permitted, a
  booked deficit is never paid off, and `reset` forgives what is not booked yet.
- The batch path compares with the bare limit, the single path adds the credit.

Registry and upgrade gate
- `commit_upgrade` writes the legacy version key, which a comment says is "still
  written by nothing"; a committed version has no code hash, so `upgrade_module`
  refuses it.
- An expired proposal still occupies its kind's slot and blocks
  `add_approved_wasm` until it is rejected.
- The freeze is one flag for all organizations, and any organization's owner may
  lift it; upgrades, approved code and admins do not ask for it. Roles survive a
  transfer of ownership. Upgrades of member contracts are not ordered by version.

Treasury
- `batch_transfer` asks neither for the asset's approval nor for the allowance,
  though its doc says it passes the gates of `withdraw`; milestones ask for neither
  time lock nor policy (`EveryPathGated` and `HighValueWaited` exempt them).
- Payouts below the threshold are not added up over time. An allowance binds the
  admin only, since nobody else may withdraw. `total_in` is the current balance,
  though its doc calls it cumulative.

Wallet
- An Agent may freeze and unfreeze, which also lifts a pause an Admin set, though
  the access ladder says an Agent may not change the lifecycle state.
- The limits are documented as bounding what leaves the wallet, validated batch
  actions included (`lib.rs:71-76`, `89-93`, `1131-1134`). For a batch the code charges
  the amount an action declares, while its call is a separate field that no limit
  sees: a batch that declares 1 and takes 2 passes a limit of 1. `LimitsHeld` is
  therefore about declared amounts; its bound on tokens is conditional, and without
  the condition the `wallet` run refutes it.
- `set_velocity_limit` and `set_rate_limit` promise the limit over any rolling window
  of `window_seconds` (`lib.rs:585-588`, `680-684`). With buckets only the last
  `1 - 1/Buckets` of a window is complete, as the comment at 1651-1656 says: a whole
  window may carry twice the limit. `TrailingSpan` is that shorter span.
- Calls of a batch move custody without debiting a wallet, and may take something
  else than the gates were shown; an action without policy or budget id skips
  that gate; `deposit` credits what was asked, not what arrived
  (`BooksExplainCustody` names both as drift).
- With registry and organization wired, a module that is absent or deprecated
  skips its gate silently even when one is wired directly.

## Proofs

Assumptions are the named `ASSUME`s of the modules: constants are naturals in the
code's ranges, account sets are finite, input sets contain well-typed inputs.
TLC evaluates them in every run.

`SumProofs`. The sums of the models are folds (`SumFunctionOnSet`). Their recursion
equation is established once, from the fold's definition, and the laws follow
from it: a sum with one element more, less or changed, of two functions that
agree, over disjoint sets, its bounds and its monotonicity. The library's
induction theorems take an operator as parameter and cannot be used here, so
inductions are arguments about a least counterexample (`LeastNatural`,
`MinimalSubset`). The last lemmas are on floored division.

`EscrowProofs`. `TypeCorrect`: every reachable state is well typed, which includes
that no payout drives a balance below zero. Types alone are not inductive: a
record waiting for `fund` must hold a deposit that callers may offer, and every
record must list an asset (the divisor of a pro-rata leg); `TypeInv` adds both.
The invariant of the safety results, `Inv`, adds `EscrowsSound` and `CustodyExact`.
`EscrowsSound` says of each record on its own that it is funded in full or not at
all (`Funding`); that without milestones the payouts of each token stay within the
share released, as a product and so without rounding (`Plain`: paid * funded <=
asset * released); that with milestones they stay within the weight of the
completed ones, and the last one takes the rest (`Phased`); that approvals are as
many as their signers and come first (`Signed`); and that a schedule is ordered
and what was released has vested (`Vesting`). The induction is modular: `Effect`
and `Opened` say what one operation and one creation do to one record and to the
others, and one lemma per entrypoint shows that it is such a step. `EscrowInvariant`
then yields `CustodyIsSound`, `EverythingIsSettled`, `ApprovalsComeFirst` and
`EarningsComeFirst`. The first includes that no payout an open escrow owes bounces:
a token's balance is a sum over the escrows in which every term is natural, so
it covers what any one of them still holds (`HeldInCustody`), and that covers its
floored legs (`PlainCovered`) and its milestones (`PhasedCovered`). `HandoffIsExact`
is about the guards, which the model names (`CanRelease`, `CanRefund`, `CanCancel` and
so on), so it needs no `ENABLED`. What may be collected and what may be cancelled
exclude each other by the shape of the vesting curve (`CollectOrCancel`); that the
sender's exit stays open on a phased escrow needs an invariant of its own, that a
cancelled schedule belongs to a settled escrow (`Frozen`). `SettlementIsFinal` and `SettledOnceAndInTime` look at each
entrypoint again. The latter has a hypothesis, that every admissible deadline
and grace add up to less than `U64`, because the code truncates that sum (see
Findings), and an invariant of its own for it (`Timed`). `EscrowsAreVaults` is the
refinement of `Vault`: initial states map to initial states and every step to a step
of the vault or a stutter.

`MultisigProofs`. The invariant `FullInv` adds to the types that the aggregate
weight fits u32, that the threshold lies within it, that the clocks of a change
are those of its proposal and that a sensitive proposal unlocks no earlier than
the minimum delay. Its induction rests on lemmas on what adding, removing and
re-weighing one signer does to the weight of all (`WeightWithout`,
`WeightUpdate`). From it follow `MultisigTypeCorrect`, `NeverBricked`, `LiveQuorum`
(the tally over the stored list equals the weight of approvers that are
signers), `ReviewWindow` and `FinalDecisions`. `ImplementsTeam` proves the
refinement of `SignerSet`; besides `FullInv` it needs that nobody has weight
before `initialize` (`Silent`). `ProposalsOnMultisig` is the composition:
`GovernedProposals` runs the two contracts side by side on one clock, and under
the same invariant each of its steps is a call to the proposal contract, a tick,
or a call to the multisig that a proposal sees as a revision of the signer set
or not at all (`MultisigStepSeen`). So what is proved of `Proposal` over `SignerSet`
holds of the pair. `GovernedProposals` has no run of its own: both parts have
theirs, and what it adds is the wiring.

`ProposalProofs`. The invariant `Inv` adds to the types that clocks lie in the past
and the time-lock's stamp is no older than the last approval that carried the
proposal (`Stamps`), and that prerequisites have smaller ids (`Backward`). Deposits
are counted as sets of units, as weights are, so that taking one in and paying
one out are facts on cardinalities (`TotalDisjoint`, `TotalWithout`), and so is that
no refund, of one proposal or of a pruned batch, exceeds what is held
(`RefundsWithinHeld`). It yields
`TypeCorrect`, `DepositsAreSound` and `ChainsRunInOrder`; `EveryStep` then says what
one step may do to one proposal, from which `LifecycleIsKept`, `CoolsOff` and
`ExecutesOnSupport` follow. All of them are over `SignerSet`, for any number of
signers, proposals, deposits and ledgers.

`BudgetProofs`. `AllowanceNotMinted` speaks of what could be spent if the windows were
settled now; the inductive form (`Covers`) is that what was used, what is open in
the stored window and one limit for each lapsed window add up to no more than
was granted. `WindowTransition` keeps it because what it carries over and credits
is bounded by exactly those terms, whatever the cap, the percentage and the
number of lapsed windows; per-asset envelopes have the same invariant, and a
batch charges each token what its entries ask together. Endowments are sums over
the envelopes of an owner. `SettlingIsConfluent` is an equation between two
settlements, by arithmetic on periods.

`RegistryProofs`. Types of the tables first (`RegistryTypeCorrect`), with the folds that
remove entries from lists; then `Highest`, that the latest pointer is published, or
0, and no version of either layout lies above it, which `HighestIsMax` equates with
`LatestIsHighest`;
`RunsWhatIsPublished` and `HistoryIsKept` follow for every path that moves a module.
`AuditIsTrue` needs that the last entry of a kind tells its state although the
bounded log drops the oldest.

`TreasuryProofs`. `StorageOK` adds to the types that queued requests are well formed
(a batch asks for the sum of its legs) and that schedules divide their total;
`Accounted` is the two properties on money. Payouts of every path are shown to be
one of a few flows (`TakesIn`, `PaysDirectly`, `PaysQueued`, `PaysMilestone`), for which
conservation is proved once. The allowance needs the entrypoint itself: only
`ExecuteWithdrawal` closes a request as paid (`OnlyExecutionPays`).

`WalletProofs`. The limits are about what was declared and passed within a span, the
code keeps buckets.
The invariant (`Tracks`) says that each cell is the sum of the history over its
bucket and nothing happened after the record's bucket; rolling and charging keep
it, and the sum of the cells bounds that of every trailing span
(`VelocityOK`, `RateOK`). A limit that is set again with another window starts
a new history, as its record does. The histories of tokens are only typed; where
they stay below the declared ones the bound carries over (`DeclaredBounds`). Books
and custody are sums over wallets.

Only model-checked: `SenderExitNeverBlocked`, a liveness property, which is out of
the prover's reach. Its safety core is proved: the exit the sender takes is open
(`SenderExitOpen`) and the money it returns is there (`PayoutsCovered`). Every other
property of a passing run is a theorem. The two properties of the runs that are
expected to fail are false.

## Not modelled

Events, error codes, telemetry, storage lifetimes and read-only views carry no
state a property is about. Authorization is the host's: a call carries its caller. The
`set_upgrade_authority` and `upgrade` entrypoints of each contract belong to the
upgrade gate, which `Registry` composes for itself and for one member. The Policy
contract is an external answer in Treasury and Wallet: its rule trees and stacks
are evaluation over inputs, its own allowances and windows are left to the plan.
Of the shared library only the rollover calculation is modelled; the checked
helpers appear as the guards of what they abort. A callback into a contract
during one of its external calls is refused by its re-entrancy flag or by the
host, so calls are atomic here.

## Plan

1. Done: `EscrowMath`, `Escrow`, `Vault`; `VotingWeight`, `SignerSet`, `Multisig`;
   `Proposal`, `GovernedProposals`; `BudgetWindow`, `Budget`; `UpgradeGate`, `Registry`; `Treasury`;
   `SpendWindow`, `Wallet`.
2. `Policy`: allowances and their windows, enabling and rotation; then Treasury
   composed with `Budget` and `Policy` in place of the external answers.
3. Theorems: every property of the modules above is proved, but for the one
   liveness property; those of `Policy` are to follow with it.
