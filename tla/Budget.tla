------------------------------- MODULE Budget -------------------------------
(***************************************************************************)
(* The budget contract: spending envelopes with a recurring limit, rollover *)
(* of what was left unspent and an optional deficit, and the per-asset     *)
(* allowances registered under an envelope.                                *)
(*                                                                         *)
(* Calls are atomic: one action per entrypoint, guarded by the checks that *)
(* the call passes.  The views `remaining` and `get_asset_budget` settle   *)
(* and store a lapsed window, so they are actions too, and anyone may take *)
(* them.                                                                   *)
(***************************************************************************)
EXTENDS BudgetWindow, FiniteSetsExt, Functions, Sequences

CONSTANTS
  Addr,            \* accounts that own or ask for budgets
  NoAdmin,         \* the admin slot before initialize
  BudgetId,        \* envelope ids
  Token,           \* token contracts
  MaxBatchTokens,  \* MAX_BATCH_TOKENS
  MaxTime,         \* bound on the ledger clock
  MaxSettings,     \* bound on the administrative calls of a behaviour
  Grants,          \* what callers of allocate* ask for
  Starts,          \* start_at arguments of allocate_scheduled
  Recurrences,     \* what callers of set_recurrence ask for
  Rollovers,       \* what callers of set_rollover_config ask for
  Limits,          \* arguments of set_limit
  Amounts,         \* amounts consumed, released and reallocated
  AssetTerms,      \* what callers of set_budget_limit* ask for
  AssetRollovers,  \* what callers of set_asset_rollover_config ask for
  Spends           \* batches: sequences of [token, amount]

ASSUME BudgetInputsAssumption ==
  /\ NoAdmin \notin Addr
  /\ MaxBatchTokens \in Nat
  /\ MaxTime \in Nat
  /\ MaxSettings \in Nat
  /\ Grants \subseteq
       [limit: Nat, period: Period, rollover_enabled: BOOLEAN, rollover_bps: Nat,
        rollover_cap: Nat, allow_deficit: BOOLEAN, expires_at: Nat]
  /\ Starts \subseteq Nat
  /\ Recurrences \subseteq
       [period: Period, period_seconds: Nat, rollover_enabled: BOOLEAN,
        rollover_cap: Nat, rollover_max_bps: Nat]
  /\ Rollovers \cup AssetRollovers \subseteq
       [rollover_enabled: BOOLEAN, rollover_bps: Nat, rollover_cap: Nat]
  /\ AssetTerms \subseteq
       [limit: Nat, window_seconds: Nat, rollover_enabled: BOOLEAN,
        rollover_bps: Nat, rollover_cap: Nat]
  /\ Limits \cup Amounts \subseteq Nat
  /\ \A spends \in Spends : spends \in Seq([token: Token, amount: Nat])

VARIABLES
  now,           \* the ledger timestamp
  admin,         \* DataKey::Admin
  budget,        \* DataKey::Budget(id), for the ids allocated so far
  asset,         \* DataKey::AssetBudget(id, token), for the pairs registered
  used,          \* history: net amount ever consumed from an envelope
  granted,       \* history: base allowance an envelope was ever entitled to
  backdated,     \* history: envelopes that received a reallocation while a
                 \* lapsed window of theirs was still to be settled
  endowed,       \* history: what each owner has put into its limits
  assetUsed,     \* history: amount ever spent of a per-asset allowance
  assetGranted,  \* history: base allowance it was ever entitled to
  settings       \* history: administrative calls made so far

envelopes == <<budget, used, granted, backdated, endowed>>
assets == <<asset, assetUsed, assetGranted>>
vars == <<now, admin, settings, envelopes, assets>>

-----------------------------------------------------------------------------
(* Records                                                                  *)

ResourceState == {"Active", "Frozen", "Archived"}

BudgetRecord ==
  [owner: Addr, limit: Nat, spent: Nat, period: Period, period_seconds: Nat,
   window_start: Nat, rollover_enabled: BOOLEAN, rollover_credit: Nat,
   rollover_cap: Nat, rollover_max_bps: Nat, rollover_bps: Nat,
   allow_deficit: BOOLEAN, deficit_amount: Nat, expires_at: Nat,
   state: ResourceState]

AssetBudget ==
  [limit: Nat, spent: Nat, window_seconds: Nat, window_start: Nat,
   rollover_enabled: BOOLEAN, rollover_credit: Nat, rollover_bps: Nat,
   max_rollover_cap: Nat]

Allocated == DOMAIN budget
Registered == DOMAIN asset

\* What `remaining` reports, and what a deficit takes off it.
Available(b) == Capacity(b) - b.spent - b.deficit_amount
AssetAvailable(a) == AssetCapacity(a) - a.spent

-----------------------------------------------------------------------------
(* Guards                                                                   *)

RequireOwner(caller, id) == id \in Allocated /\ budget[id].owner = caller
RequireActive(id) == budget[id].state = "Active"
RequireNotArchived(id) == budget[id].state # "Archived"
RequireStarted(id) == now >= budget[id].window_start
RequireNotExpired(id) == ~BudgetExpired(budget[id], now)

\* History: the window boundaries between `start` and t.
BoundariesBy(start, length, t) ==
  IF length # 0 /\ t >= start THEN (t - start) \div length ELSE 0

\* The envelope as window_transition leaves it before the call goes on.
Settled(id) == WindowTransition(budget[id], now)

\* Bounds the search: an administrative call leaves room for MaxSettings.
MayAdminister == settings < MaxSettings
Administered == MayAdminister /\ settings' = settings + 1

Store(id, b) == budget' = [budget EXCEPT ![id] = b]

-----------------------------------------------------------------------------
(* Allocation                                                               *)

Initialize(a) ==
  /\ admin = NoAdmin
  /\ admin' = a
  /\ Administered
  /\ UNCHANGED <<now, envelopes, assets>>

AllocateInternal(owner, id, g, bps, cap, start) ==
  /\ bps <= BPS
  /\ g.expires_at # 0 => g.expires_at > now /\ g.expires_at > start
  /\ g.allow_deficit => WindowOf(g.period, 0) # 0
  /\ id \notin Allocated
  /\ budget' = [i \in Allocated \cup {id} |->
       IF i = id
         THEN [owner |-> owner, limit |-> g.limit, spent |-> 0, period |-> g.period,
               period_seconds |-> 0, window_start |-> start,
               rollover_enabled |-> g.rollover_enabled, rollover_credit |-> 0,
               rollover_cap |-> cap, rollover_max_bps |-> 0, rollover_bps |-> bps,
               allow_deficit |-> g.allow_deficit, deficit_amount |-> 0,
               expires_at |-> g.expires_at, state |-> "Active"]
         ELSE budget[i]]
  /\ used' = [used EXCEPT ![id] = 0]
  /\ granted' = [granted EXCEPT ![id] = g.limit * (1 + BoundariesBy(start, WindowOf(g.period, 0), now))]
  /\ endowed' = [endowed EXCEPT ![owner] = @ + g.limit]
  /\ Administered
  /\ UNCHANGED <<now, admin, backdated, assets>>

\* Rollover, if enabled, carries the whole remainder.
FullRollover(g) == IF g.rollover_enabled THEN BPS ELSE 0

\* allocate is the call with allow_deficit off.
AllocateWithDeficit(owner, id, g) ==
  AllocateInternal(owner, id, g, FullRollover(g), 0, now)

\* A start in the past is accepted: the windows since then have lapsed.
AllocateScheduled(owner, id, g, start_at) ==
  /\ ~g.allow_deficit
  /\ AllocateInternal(owner, id, g, FullRollover(g), 0, start_at)

AllocateWithRollover(owner, id, g) ==
  /\ ~g.allow_deficit
  /\ AllocateInternal(owner, id, g, g.rollover_bps, g.rollover_cap, now)

-----------------------------------------------------------------------------
(* Administration                                                           *)

\* The credit under a new rollover policy: dropped when rollover is off, else
\* clamped to the ceiling the policy implies.
ClampCredit(b) ==
  [b EXCEPT !.rollover_credit =
     IF b.rollover_enabled THEN ApplyCap(@, EffectiveRolloverCap(b)) ELSE 0]

\* Settles what the old cadence owes, then counts the new one from now; an
\* envelope that has not started keeps its start.  `spent` is not cleared.
SetRecurrence(caller, id, r) ==
  LET old == budget[id]
      scheduled == now < old.window_start
      base == IF scheduled THEN old ELSE Settled(id)
      bps == IF ~r.rollover_enabled THEN 0
             ELSE IF base.rollover_bps = 0 THEN BPS ELSE base.rollover_bps
  IN  /\ r.rollover_max_bps < BPS
      /\ r.period = "Custom" => r.period_seconds # 0
      /\ RequireOwner(caller, id)
      /\ RequireActive(id)
      /\ IF scheduled THEN RequireNotExpired(id) ELSE CanSettle(old, now)
      /\ Store(id, ClampCredit([base EXCEPT
           !.period = r.period,
           !.period_seconds = IF r.period = "Custom" THEN r.period_seconds ELSE 0,
           !.rollover_enabled = r.rollover_enabled,
           !.rollover_cap = r.rollover_cap,
           !.rollover_max_bps = r.rollover_max_bps,
           !.rollover_bps = bps,
           !.window_start = IF scheduled THEN @ ELSE now]))
      /\ Administered
      /\ UNCHANGED <<now, admin, used, granted, backdated, endowed, assets>>

SetRolloverConfig(caller, id, r) ==
  /\ r.rollover_bps <= BPS
  /\ RequireOwner(caller, id)
  /\ RequireActive(id)
  /\ CanSettle(budget[id], now)
  /\ Store(id, ClampCredit([Settled(id) EXCEPT
       !.rollover_enabled = r.rollover_enabled,
       !.rollover_bps = r.rollover_bps,
       !.rollover_cap = r.rollover_cap]))
  /\ Administered
  /\ UNCHANGED <<now, admin, used, granted, backdated, endowed, assets>>

\* Hands back what was spent in the window, settled or not, and drops the
\* credit.  A booked deficit stays.
Reset(caller, id) ==
  /\ RequireOwner(caller, id)
  /\ RequireNotArchived(id)
  /\ RequireStarted(id)
  /\ RequireNotExpired(id)
  /\ Store(id, [budget[id] EXCEPT !.spent = 0, !.rollover_credit = 0, !.window_start = now])
  /\ granted' = [granted EXCEPT ![id] = @ + budget[id].spent]
  /\ Administered
  /\ UNCHANGED <<now, admin, used, backdated, endowed, assets>>

Rollover(caller, id) ==
  /\ RequireOwner(caller, id)
  /\ RequireNotArchived(id)
  /\ CanSettle(budget[id], now)
  /\ Store(id, Settled(id))
  /\ Administered
  /\ UNCHANGED <<now, admin, used, granted, backdated, endowed, assets>>

SetLimit(caller, id, limit) ==
  /\ RequireOwner(caller, id)
  /\ RequireNotArchived(id)
  /\ CanSettle(budget[id], now)
  /\ limit >= Settled(id).spent
  /\ Store(id, [Settled(id) EXCEPT !.limit = limit])
  /\ granted' = [granted EXCEPT ![id] = @ + limit - budget[id].limit]
  /\ endowed' = [endowed EXCEPT ![caller] = @ + limit - budget[id].limit]
  /\ Administered
  /\ UNCHANGED <<now, admin, used, backdated, assets>>

Freeze(caller, id) ==
  /\ RequireOwner(caller, id)
  /\ RequireNotArchived(id)
  /\ Store(id, [budget[id] EXCEPT !.state = "Frozen"])
  /\ Administered
  /\ UNCHANGED <<now, admin, used, granted, backdated, endowed, assets>>

Unfreeze(caller, id) ==
  /\ RequireOwner(caller, id)
  /\ budget[id].state = "Frozen"
  /\ Store(id, [budget[id] EXCEPT !.state = "Active"])
  /\ Administered
  /\ UNCHANGED <<now, admin, used, granted, backdated, endowed, assets>>

Archive(caller, id) ==
  /\ RequireOwner(caller, id)
  /\ Store(id, [budget[id] EXCEPT !.state = "Archived"])
  /\ Administered
  /\ UNCHANGED <<now, admin, used, granted, backdated, endowed, assets>>

\* Mutation of TransferAllocation: an envelope may reallocate to itself.
TransferToSelf(caller, from, to, amount) ==
  /\ amount > 0
  /\ RequireOwner(caller, from) /\ RequireOwner(caller, to)
  /\ RequireActive(from) /\ RequireActive(to)
  /\ RequireNotExpired(from) /\ RequireNotExpired(to)
  /\ amount <= budget[from].limit - budget[from].spent
  /\ Fits(budget[to].limit + amount)
  /\ budget' = [[budget EXCEPT ![from].limit = @ - amount]
                  EXCEPT ![to].limit = budget[to].limit + amount]
  /\ granted' = [[granted EXCEPT ![from] = @ - amount] EXCEPT ![to] = @ + amount]
  /\ Administered
  /\ UNCHANGED <<now, admin, used, backdated, endowed, assets>>

\* Neither side's window is settled first: a lapsed window of `to` is settled
\* later, at the limit it has then.
TransferAllocation(caller, from, to, amount) ==
  /\ amount > 0
  /\ from # to
  /\ RequireOwner(caller, from) /\ RequireOwner(caller, to)
  /\ RequireActive(from) /\ RequireActive(to)
  /\ RequireNotExpired(from) /\ RequireNotExpired(to)
  /\ amount <= budget[from].limit - budget[from].spent
  /\ Fits(budget[to].limit + amount)
  /\ budget' = [budget EXCEPT ![from].limit = @ - amount, ![to].limit = @ + amount]
  /\ granted' = [granted EXCEPT ![from] = @ - amount, ![to] = @ + amount]
  /\ backdated' = IF IsWindowExpired(budget[to], now) THEN backdated \cup {to} ELSE backdated
  /\ Administered
  /\ UNCHANGED <<now, admin, used, endowed, assets>>

-----------------------------------------------------------------------------
(* Spending                                                                 *)

\* A deficit booked in an earlier period lowers the ceiling of every later one.
Ceiling(b) ==
  IF b.allow_deficit /\ b.deficit_amount > 0
    THEN Capacity(b) - b.deficit_amount
    ELSE Capacity(b)

Consume(caller, id, amount) ==
  LET b == Settled(id) IN
  /\ amount > 0
  /\ RequireOwner(caller, id)
  /\ RequireActive(id)
  /\ RequireStarted(id)
  /\ CanSettle(budget[id], now)
  /\ Fits(b.spent + amount)
  /\ b.spent + amount <= Ceiling(b) \/ (b.allow_deficit /\ b.deficit_amount = 0)
  /\ Store(id, [b EXCEPT !.spent = @ + amount])
  /\ used' = [used EXCEPT ![id] = @ + amount]
  /\ UNCHANGED <<now, admin, settings, granted, backdated, endowed, assets>>

\* Mutation of Release: more than was spent is credited back.
ReleaseAnything(caller, id, amount) ==
  LET b == Settled(id) IN
  /\ amount > 0
  /\ RequireOwner(caller, id)
  /\ RequireActive(id)
  /\ CanSettle(budget[id], now)
  /\ Store(id, [b EXCEPT !.spent = @ - amount])
  /\ used' = [used EXCEPT ![id] = @ - amount]
  /\ UNCHANGED <<now, admin, settings, granted, backdated, endowed, assets>>

Release(caller, id, amount) ==
  LET b == Settled(id) IN
  /\ amount > 0
  /\ RequireOwner(caller, id)
  /\ RequireActive(id)
  /\ CanSettle(budget[id], now)
  /\ amount <= b.spent
  /\ Store(id, [b EXCEPT !.spent = @ - amount])
  /\ used' = [used EXCEPT ![id] = @ - amount]
  /\ UNCHANGED <<now, admin, settings, granted, backdated, endowed, assets>>

\* The read that stores: an envelope in any state, by anyone.
Remaining(id) ==
  /\ id \in Allocated
  /\ RequireStarted(id)
  /\ CanSettle(budget[id], now)
  /\ Store(id, Settled(id))
  /\ UNCHANGED <<now, admin, settings, used, granted, backdated, endowed, assets>>

-----------------------------------------------------------------------------
(* Per-asset allowances                                                     *)

StoreAsset(id, t, a) ==
  asset' = [k \in Registered \cup {<<id, t>>} |-> IF k = <<id, t>> THEN a ELSE asset[k]]

\* set_budget_limit is set_budget_limit_with_rollover without rollover.
\* Registering a token again starts its allowance afresh.
SetBudgetLimit(caller, id, t, m) ==
  LET k == <<id, t>> IN
  /\ m.rollover_bps <= BPS
  /\ RequireOwner(caller, id)
  /\ RequireActive(id)
  /\ RequireNotExpired(id)
  /\ StoreAsset(id, t,
       [limit |-> m.limit, spent |-> 0, window_seconds |-> m.window_seconds,
        window_start |-> Larger(budget[id].window_start, now),
        rollover_enabled |-> m.rollover_enabled, rollover_credit |-> 0,
        rollover_bps |-> m.rollover_bps, max_rollover_cap |-> m.rollover_cap])
  /\ assetGranted' = [assetGranted EXCEPT ![k] = @ + m.limit]
  /\ Administered
  /\ UNCHANGED <<now, admin, envelopes, assetUsed>>

SetAssetRolloverConfig(caller, id, t, r) ==
  LET k == <<id, t>>
      a == AssetTransition(asset[k], now)
  IN  /\ r.rollover_bps <= BPS
      /\ RequireOwner(caller, id)
      /\ RequireActive(id)
      /\ RequireNotExpired(id)
      /\ k \in Registered
      /\ StoreAsset(id, t, [a EXCEPT
           !.rollover_enabled = r.rollover_enabled,
           !.rollover_bps = r.rollover_bps,
           !.max_rollover_cap = r.rollover_cap,
           !.rollover_credit = IF r.rollover_enabled THEN ApplyCap(@, r.rollover_cap) ELSE 0])
      /\ Administered
      /\ UNCHANGED <<now, admin, envelopes, assetUsed, assetGranted>>

CanSpendAssets(caller, id) ==
  /\ RequireOwner(caller, id)
  /\ RequireActive(id)
  /\ RequireStarted(id)
  /\ RequireNotExpired(id)

CheckAndRecordSpend(caller, id, t, amount) ==
  LET k == <<id, t>>
      a == AssetTransition(asset[k], now)
  IN  /\ amount > 0
      /\ CanSpendAssets(caller, id)
      /\ k \in Registered
      /\ Fits(AssetCapacity(a))
      /\ a.spent + amount <= AssetCapacity(a)
      /\ StoreAsset(id, t, [a EXCEPT !.spent = @ + amount])
      /\ assetUsed' = [assetUsed EXCEPT ![k] = @ + amount]
      /\ UNCHANGED <<now, admin, settings, envelopes, assetGranted>>

\* The sum of the legs that name token t.
Demand(spends, t) ==
  SumFunctionOnSet([i \in DOMAIN spends |-> spends[i].amount],
                   {i \in DOMAIN spends : spends[i].token = t})

\* Mutation of DistinctTokens: legs of one token are checked one by one.
AnyTokens(spends) == TRUE

DistinctTokens(spends) ==
  \A i, j \in DOMAIN spends : spends[i].token = spends[j].token => i = j

\* Every leg is tested against the bare limit, a rolled-over credit is not
\* counted, before any leg is stored.  With one leg a token the last writer
\* of a record is its only one.
CheckAndRecordBatchSpend(caller, id, spends) ==
  LET leg(i) == AssetTransition(asset[<<id, spends[i].token>>], now)
      tokens == {spends[i].token : i \in DOMAIN spends}
      last(t) == Max({i \in DOMAIN spends : spends[i].token = t})
      written == {<<id, t>> : t \in tokens}
  IN  /\ Len(spends) \in 1..MaxBatchTokens
      /\ CanSpendAssets(caller, id)
      /\ \A i \in DOMAIN spends :
           /\ spends[i].amount > 0
           /\ <<id, spends[i].token>> \in Registered
           /\ leg(i).spent + spends[i].amount <= leg(i).limit
      /\ DistinctTokens(spends)
      /\ asset' = [k \in Registered |->
           IF k \in written
             THEN [leg(last(k[2])) EXCEPT !.spent = @ + spends[last(k[2])].amount]
             ELSE asset[k]]
      /\ assetUsed' = [k \in DOMAIN assetUsed |->
           IF k[1] = id THEN assetUsed[k] + Demand(spends, k[2]) ELSE assetUsed[k]]
      /\ UNCHANGED <<now, admin, settings, envelopes, assetGranted>>

\* get_asset_budget and asset_remaining store the settled record, for anyone.
GetAssetBudget(id, t) ==
  LET k == <<id, t>> IN
  /\ k \in Registered
  /\ asset' = [asset EXCEPT ![k] = AssetTransition(asset[k], now)]
  /\ UNCHANGED <<now, admin, settings, envelopes, assetUsed, assetGranted>>

-----------------------------------------------------------------------------
(* The clock.  An envelope is entitled to one base limit for every window    *)
(* boundary that passes, at the limit in force when it passes.               *)

Passed(start, length) ==
  BoundariesBy(start, length, now + 1) - BoundariesBy(start, length, now)

Tick ==
  /\ now < MaxTime
  /\ now' = now + 1
  /\ granted' = [id \in BudgetId |->
       IF id \in Allocated
         THEN granted[id] + budget[id].limit
                * Passed(budget[id].window_start, WindowLength(budget[id]))
         ELSE granted[id]]
  /\ assetGranted' = [k \in BudgetId \X Token |->
       IF k \in Registered
         THEN assetGranted[k] + asset[k].limit
                * Passed(asset[k].window_start, asset[k].window_seconds)
         ELSE assetGranted[k]]
  /\ UNCHANGED <<admin, settings, budget, used, backdated, endowed, asset, assetUsed>>

-----------------------------------------------------------------------------
(* The specification                                                        *)

Init ==
  /\ now = 0
  /\ admin = NoAdmin
  /\ budget = [id \in {} |-> id]
  /\ asset = [k \in {} |-> k]
  /\ used = [id \in BudgetId |-> 0]
  /\ granted = [id \in BudgetId |-> 0]
  /\ backdated = {}
  /\ endowed = [a \in Addr |-> 0]
  /\ assetUsed = [k \in BudgetId \X Token |-> 0]
  /\ assetGranted = [k \in BudgetId \X Token |-> 0]
  /\ settings = 0

Administration(caller, id) ==
  \/ \E g \in Grants :
       \/ AllocateWithDeficit(caller, id, g)
       \/ AllocateWithRollover(caller, id, g)
       \/ \E start_at \in Starts : AllocateScheduled(caller, id, g, start_at)
  \/ \E r \in Recurrences : SetRecurrence(caller, id, r)
  \/ \E r \in Rollovers : SetRolloverConfig(caller, id, r)
  \/ Reset(caller, id)
  \/ Rollover(caller, id)
  \/ \E limit \in Limits : SetLimit(caller, id, limit)
  \/ Freeze(caller, id)
  \/ Unfreeze(caller, id)
  \/ Archive(caller, id)
  \/ \E to \in BudgetId, amount \in Amounts : TransferAllocation(caller, id, to, amount)

Spending(caller, id) ==
  \/ \E amount \in Amounts : Consume(caller, id, amount) \/ Release(caller, id, amount)
  \/ \E t \in Token, amount \in Amounts : CheckAndRecordSpend(caller, id, t, amount)
  \/ \E spends \in Spends : CheckAndRecordBatchSpend(caller, id, spends)

AssetAdministration(caller, id, t) ==
  \/ \E m \in AssetTerms : SetBudgetLimit(caller, id, t, m)
  \/ \E r \in AssetRollovers : SetAssetRolloverConfig(caller, id, t, r)

Next ==
  \/ Tick
  \/ \E a \in Addr : Initialize(a)
  \/ \E id \in BudgetId :
       \/ Remaining(id)
       \/ \E t \in Token : GetAssetBudget(id, t)
       \/ \E caller \in Addr :
            \/ MayAdminister /\ Administration(caller, id)
            \/ Spending(caller, id)
            \/ MayAdminister /\ \E t \in Token : AssetAdministration(caller, id, t)

Spec == Init /\ [][Next]_vars

-----------------------------------------------------------------------------
(* Properties                                                               *)

\* Types; in particular release and the settlement of a window never leave a
\* negative amount spent, credited or owed.
TypeOK ==
  /\ now \in Nat
  /\ admin \in Addr \cup {NoAdmin}
  /\ Allocated \subseteq BudgetId
  /\ \A id \in Allocated : budget[id] \in BudgetRecord
  /\ Registered \subseteq Allocated \X Token
  /\ \A k \in Registered : asset[k] \in AssetBudget
  /\ used \in [BudgetId -> Nat]
  /\ granted \in [BudgetId -> Nat]
  /\ backdated \subseteq Allocated
  /\ endowed \in [Addr -> Nat]
  /\ assetUsed \in [BudgetId \X Token -> Nat]
  /\ assetGranted \in [BudgetId \X Token -> Nat]
  /\ settings \in 0..MaxSettings

\* Consumed and still consumable together stay within what was granted.
Entitled(id) ==
  LET b == IF CanSettle(budget[id], now) THEN Settled(id) ELSE budget[id]
  IN  IF b.allow_deficit
        THEN used[id] + Available(b) <= granted[id]
        ELSE used[id] + Larger(Available(b), 0) <= granted[id]

\* What has been consumed and what could be consumed right now add up to no
\* more than one base limit per period gone by: whatever rolls over, lapses,
\* is clamped, reset, released or re-limited in between, allowance is carried
\* and never made.  An overdraft is not allowance: it is owed, as spending of
\* this period or as booked deficit.
AllowanceNotMinted == \A id \in Allocated \ backdated : Entitled(id)

LimitOf == [id \in Allocated |-> budget[id].limit]
OwnedBy(a) == {id \in Allocated : budget[id].owner = a}

\* The limits of an owner's envelopes are what the owner put in: reallocating
\* neither makes nor loses any, and never moves another owner's.
AllocationConserved ==
  \A a \in Addr : endowed[a] = SumFunctionOnSet(LimitOf, OwnedBy(a))

\* The envelope as settled when its window lapses.
SettledAtBoundary(b) == WindowTransition(b, b.window_start + WindowLength(b))

\* Settling late is settling on time: an envelope whose first lapsed window is
\* settled by some read at its boundary ends up as one that nobody touched
\* until now.  It holds for envelopes that carry all or nothing and did not
\* overdraw.  (Carrying 0 basis points is not carrying nothing: the idle
\* periods are still credited in full, and how many there are depends on when
\* the window is settled.)
SettlementConfluent ==
  \A id \in Allocated :
    LET b == budget[id] IN
    /\ IsWindowExpired(b, now) /\ ~WentIntoDeficit(b)
    /\ b.rollover_enabled => b.rollover_bps = BPS
    => WindowTransition(SettledAtBoundary(b), now) = Settled(id)

\* Per-asset allowances likewise: what was spent of one, by single spends and
\* batches, and what could be spent now add up to no more than one limit per
\* registration and window gone by.
AssetAllowanceNotMinted ==
  \A k \in Registered :
    assetUsed[k] + Larger(AssetAvailable(AssetTransition(asset[k], now)), 0) <= assetGranted[k]
=============================================================================
