--------------------------- MODULE TreasuryProofs ---------------------------
(***************************************************************************)
(* Proofs about the treasury: the types of its storage, the agreement of   *)
(* its books with custody, that everything paid is accounted for once, and *)
(* that no path out avoids the time lock, the breaker, the policy or the   *)
(* budget.                                                                 *)
(***************************************************************************)
EXTENDS Treasury, SumProofs

-----------------------------------------------------------------------------
(* The inductive invariant                                                  *)

ControlOK ==
  /\ now \in 0..MaxTime
  /\ treasury \in TreasuryRecord \cup {Unset}
  /\ frozen \in BOOLEAN
  /\ settings \in 0..MaxSettings

\* The list holds each approved asset once, so that removing the first
\* occurrence removes the asset.
WhitelistOK ==
  /\ approved \subseteq Asset
  /\ list \in Seq(Asset) /\ Range(list) = approved
  /\ count = Len(list) /\ count <= MaxAssets
  /\ \A i, j \in DOMAIN list : list[i] = list[j] => i = j

FundsOK ==
  /\ holding \in [Asset -> Holding]
  /\ balance \in [Asset -> Nat]
  /\ custody \in [Asset -> Nat] /\ consumed \in [Asset -> Nat] /\ direct \in [Asset -> Nat]
  /\ received \in [Recipient -> Nat]

AllowanceOK ==
  /\ allowance \in [Addr \X Recipient \X Asset -> Allowance \cup {Unset}]
  /\ \A x \in DOMAIN allowance : allowance[x] # Unset => allowance[x].spent <= allowance[x].limit

\* A time lock that is on delays by the minimum at least.
LockOK ==
  /\ lock \in [delay: Nat, threshold: Nat]
  /\ lock.delay # 0 => lock.delay >= MinDelay

\* A request waits the minimum delay, and a batch asks for the sum of its legs.
Sound(p) ==
  /\ p.execute_after >= p.requested_at + MinDelay
  /\ p.payments # <<>> => p.amount = Total(p.payments)

QueueOK ==
  /\ queue \in Seq(PendingWithdrawal)
  /\ \A i \in DOMAIN queue : Sound(queue[i])

\* A schedule never owes more than its total.
Divided(d) ==
  /\ d.milestones # 0 /\ d.disbursed <= d.milestones
  /\ d.amount_per_milestone * d.milestones <= d.total_amount

ScheduleOK ==
  /\ schedule \in Seq(MilestoneDisbursement)
  /\ \A i \in DOMAIN schedule : Divided(schedule[i])

StorageOK ==
  /\ ControlOK /\ WhitelistOK /\ FundsOK /\ AllowanceOK /\ LockOK /\ QueueOK /\ ScheduleOK

\* Well-formed storage is well-typed storage.
LEMMA StorageTyped == StorageOK => TypeOK
  BY DEF StorageOK, ControlOK, WhitelistOK, FundsOK, AllowanceOK, LockOK, QueueOK,
         ScheduleOK, TypeOK

-----------------------------------------------------------------------------
(* What each kind of call leaves alone                                      *)

\* A configuration call moves no money and touches no request.
LEMMA ConfigurationFrame ==
  ASSUME NEW caller \in Addr, Configuration(caller)
  PROVE  UNCHANGED <<now, frozen, balance, custody, consumed, received, queue, direct>>
  BY DEF Configuration, Initialize, SetRegistry, SetPolicy, SetBudget, SetMultisig,
         SetGuardian, Configure, SetWithdrawalTimeLock, AddApprovedAsset,
         RemoveApprovedAsset, AllocateBudget, SetAllowance, RemoveAllowance,
         InitMilestoneDisbursement, books

\* Pausing and freezing touch nothing but the flags.
LEMMA BreakersFrame ==
  ASSUME NEW caller \in Addr, Breakers(caller)
  PROVE  UNCHANGED <<now, whitelist, books, allowance, lock, queue, schedule, direct>>
  BY DEF Breakers, Freeze, Unfreeze, SetFrozen, Pause, Unpause, SetPaused

\* A movement of money leaves configuration, flags and whitelist alone.
LEMMA MovementFrame ==
  ASSUME NEW caller \in Addr, Movement(caller)
  PROVE  UNCHANGED <<now, treasury, frozen, whitelist, lock, settings>>
  BY ZenonT(60)
     DEF Movement, Deposit, Withdraw, QueueWithdrawal, BatchTransfer, QueueBatchTransfer,
         ExecuteWithdrawal, CancelWithdrawal, ReleaseNextMilestone, OpenPending

-----------------------------------------------------------------------------
(* Control state                                                            *)

\* Clock, configuration and flags stay well formed.
LEMMA ControlStep ==
  ASSUME ControlOK, [Next]_vars
  PROVE  ControlOK'
<1> USE TreasuryAssumption
<1>1. CASE UNCHANGED vars
  BY <1>1 DEF vars, ControlOK
<1>2. CASE Tick
  BY <1>2 DEF Tick, ControlOK
<1>3. ASSUME NEW caller \in Addr, Movement(caller) PROVE ControlOK'
  BY <1>3, MovementFrame DEF ControlOK
<1>4. ASSUME NEW caller \in Addr, Breakers(caller) PROVE ControlOK'
  <2>1. treasury \in TreasuryRecord
    BY <1>4 DEF ControlOK, Breakers, Freeze, Unfreeze, SetFrozen, Pause, Unpause, SetPaused,
                RequireMultisig, RequireGuardian, Loaded
  <2>2. ASSUME NEW flag \in BOOLEAN, SetFrozen(caller, flag) PROVE ControlOK'
    BY <2>2 DEF SetFrozen, Administered, ControlOK
  <2>3. ASSUME NEW flag \in BOOLEAN, NEW at \in Nat, SetPaused(caller, flag, at) PROVE ControlOK'
    <3>1. treasury' = [treasury EXCEPT !.paused = flag, !.paused_at = at]
      BY <2>3 DEF SetPaused
    <3>2. treasury' \in TreasuryRecord
      BY <2>1, <3>1 DEF TreasuryRecord
    <3> QED
      BY <2>3, <3>2, SMTT(30) DEF SetPaused, Administered, ControlOK
  <2>4. now \in Nat
    BY DEF ControlOK
  <2> QED
    BY <1>4, <2>2, <2>3, <2>4 DEF Breakers, Freeze, Unfreeze, Pause, Unpause
<1>5. ASSUME NEW caller \in Addr, Configuration(caller) PROVE ControlOK'
  <2>1. now' = now /\ frozen' = frozen
    BY <1>5, ConfigurationFrame
  <2>2. ASSUME Initialize(caller) PROVE ControlOK'
    BY <2>2 DEF Initialize, ControlOK, TreasuryRecord
  <2>3. ASSUME NEW t, Configure(caller, t), treasury \in TreasuryRecord => t \in TreasuryRecord
        PROVE  ControlOK'
    BY <2>3 DEF Configure, RequireAdmin, Loaded, Administered, ControlOK
  <2>4. ASSUME NEW a \in Addr, NEW wired \in BOOLEAN,
               \/ SetRegistry(caller, wired) \/ SetPolicy(caller) \/ SetBudget(caller)
               \/ SetMultisig(caller, a) \/ SetGuardian(caller, a)
        PROVE  ControlOK'
    <3>1. treasury \in TreasuryRecord =>
            /\ [treasury EXCEPT !.registry = wired] \in TreasuryRecord
            /\ [treasury EXCEPT !.policy = TRUE] \in TreasuryRecord
            /\ [treasury EXCEPT !.budget = TRUE] \in TreasuryRecord
            /\ [treasury EXCEPT !.multisig = a] \in TreasuryRecord
            /\ [treasury EXCEPT !.guardian = a] \in TreasuryRecord
      BY DEF TreasuryRecord
    <3> QED
      BY <2>3, <2>4, <3>1 DEF SetRegistry, SetPolicy, SetBudget, SetMultisig, SetGuardian
  <2>5. ASSUME treasury' = treasury, Administered PROVE ControlOK'
    BY <2>1, <2>5 DEF Administered, ControlOK
  <2>6. ASSUME NEW l \in Locks, SetWithdrawalTimeLock(caller, l) PROVE ControlOK'
    BY <2>5, <2>6 DEF SetWithdrawalTimeLock
  <2>7. ASSUME NEW asset \in Asset,
               \/ AddApprovedAsset(caller, asset) \/ RemoveApprovedAsset(caller, asset)
               \/ AllocateBudget(caller, asset)
        PROVE  ControlOK'
    BY <2>5, <2>7 DEF AddApprovedAsset, RemoveApprovedAsset, AllocateBudget
  <2>8. ASSUME NEW asset \in Asset, NEW to \in Recipient,
               \/ \E agent \in Addr, terms \in AllowanceTerms :
                    SetAllowance(caller, agent, to, asset, terms)
               \/ \E agent \in Addr : RemoveAllowance(caller, agent, to, asset)
               \/ \E s \in Schedules : InitMilestoneDisbursement(caller, asset, to, s)
        PROVE  ControlOK'
    BY <2>5, <2>8 DEF SetAllowance, RemoveAllowance, InitMilestoneDisbursement
  <2> QED
    BY <1>5, <2>2, <2>4, <2>6, <2>7, <2>8 DEF Configuration
<1> QED
  BY <1>1, <1>2, <1>3, <1>4, <1>5 DEF Next

-----------------------------------------------------------------------------
(* The whitelist                                                            *)

\* The elements of a list, by position.
LEMMA RangeOf ==
  ASSUME NEW S, NEW s \in Seq(S)
  PROVE  \A x : x \in Range(s) <=> \E i \in 1..Len(s) : s[i] = x
  BY DEF Range

\* Removing the first occurrence of a member of a list without duplicates.
LEMMA RemoveFirstFacts ==
  ASSUME NEW S, NEW s \in Seq(S), \A i, j \in DOMAIN s : s[i] = s[j] => i = j,
         NEW x \in Range(s)
  PROVE  /\ RemoveFirst(s, x) \in Seq(S) /\ Len(RemoveFirst(s, x)) = Len(s) - 1
         /\ Range(RemoveFirst(s, x)) = Range(s) \ {x}
         /\ \A i, j \in DOMAIN RemoveFirst(s, x) :
              RemoveFirst(s, x)[i] = RemoveFirst(s, x)[j] => i = j
<1> DEFINE First(k) == s[k] = x /\ \A j \in 1..(k - 1) : s[j] # x
           i == CHOOSE k \in DOMAIN s : First(k)
           t == [j \in 1..(Len(s) - 1) |-> IF j < i THEN s[j] ELSE s[j + 1]]
<1>1. PICK k \in 1..Len(s) : s[k] = x
  BY RangeOf
<1>2. Len(s) \in Nat /\ DOMAIN s = 1..Len(s) /\ Len(s) > 0 /\ \A j \in 1..Len(s) : s[j] \in S
  BY <1>1
<1>3. First(k)
  BY <1>1, <1>2
<1>4. i \in 1..Len(s) /\ First(i)
  BY <1>2, <1>3
<1>5. i = k /\ s[i] = x
  BY <1>1, <1>2, <1>4
<1>6. RemoveFirst(s, x) = t
  BY DEF RemoveFirst
<1> HIDE DEF i, First
<1>7. Len(s) - 1 \in Nat /\ t \in [1..(Len(s) - 1) -> S]
  BY <1>2
<1>8. t \in Seq(S) /\ Len(t) = Len(s) - 1 /\ DOMAIN t = 1..(Len(s) - 1)
  BY <1>7
<1>9. \A j \in 1..(Len(s) - 1) : t[j] = IF j < i THEN s[j] ELSE s[j + 1]
  OBVIOUS
<1> HIDE DEF t
<1>10. ASSUME NEW y, y \in Range(t) PROVE y \in Range(s) \ {x}
  <2>1. PICK j \in 1..(Len(s) - 1) : t[j] = y
    BY <1>8, <1>10, RangeOf
  <2>2. PICK m \in 1..Len(s) : m # i /\ s[m] = y
    BY <1>2, <1>4, <1>9, <2>1
  <2> QED
    BY <1>2, <1>4, <1>5, <2>2, RangeOf
<1>11. ASSUME NEW y \in Range(s) \ {x} PROVE y \in Range(t)
  <2>1. PICK m \in 1..Len(s) : s[m] = y
    BY RangeOf
  <2>2. m # i
    BY <1>5, <2>1
  <2>3. CASE m < i
    <3>1. m \in 1..(Len(s) - 1) /\ t[m] = y
      BY <1>2, <1>4, <1>9, <2>1, <2>3
    <3> QED
      BY <1>8, <3>1, RangeOf
  <2>4. CASE m > i
    <3>1. m - 1 \in 1..(Len(s) - 1) /\ ~ (m - 1 < i) /\ (m - 1) + 1 = m
      BY <1>2, <1>4, <2>1, <2>4
    <3>2. t[m - 1] = y
      BY <1>9, <2>1, <3>1
    <3> QED
      BY <1>8, <3>1, <3>2, RangeOf
  <2> QED
    BY <1>4, <2>1, <2>2, <2>3, <2>4
<1>12. Range(t) = Range(s) \ {x}
  BY <1>10, <1>11
<1>13. ASSUME NEW p \in DOMAIN t, NEW q \in DOMAIN t, t[p] = t[q] PROVE p = q
  <2> DEFINE At(j) == IF j < i THEN j ELSE j + 1
  <2>1. p \in 1..(Len(s) - 1) /\ q \in 1..(Len(s) - 1)
    BY <1>8
  <2>2. At(p) \in DOMAIN s /\ At(q) \in DOMAIN s /\ t[p] = s[At(p)] /\ t[q] = s[At(q)]
    BY <1>2, <1>4, <1>9, <2>1
  <2>3. At(p) = At(q)
    BY <1>13, <2>2
  <2> QED
    BY <1>4, <2>1, <2>3
<1> QED
  BY <1>6, <1>8, <1>12, <1>13

\* Appending a new element keeps a list free of duplicates.
LEMMA AppendUnique ==
  ASSUME NEW S, NEW s \in Seq(S), \A i, j \in DOMAIN s : s[i] = s[j] => i = j,
         NEW x \in S, x \notin Range(s)
  PROVE  /\ Append(s, x) \in Seq(S) /\ Len(Append(s, x)) = Len(s) + 1
         /\ Range(Append(s, x)) = Range(s) \cup {x}
         /\ \A i, j \in DOMAIN Append(s, x) : Append(s, x)[i] = Append(s, x)[j] => i = j
<1> DEFINE t == Append(s, x)
<1>1. /\ t \in Seq(S) /\ Len(t) = Len(s) + 1 /\ Len(s) \in Nat
      /\ DOMAIN t = 1..Len(t) /\ DOMAIN s = 1..Len(s)
      /\ \A i \in 1..Len(s) : t[i] = s[i]
      /\ t[Len(s) + 1] = x
  OBVIOUS
<1> HIDE DEF t
<1>2. \A y : y \in Range(t) <=> \E i \in 1..Len(t) : t[i] = y
  BY <1>1, RangeOf
<1>3. \A y : y \in Range(s) <=> \E i \in 1..Len(s) : s[i] = y
  BY RangeOf
<1>4. Range(t) = Range(s) \cup {x}
  <2>1. ASSUME NEW y \in Range(t) PROVE y \in Range(s) \cup {x}
    BY <1>1, <1>2, <1>3
  <2>2. ASSUME NEW y \in Range(s) \cup {x} PROVE y \in Range(t)
    <3>1. Len(s) + 1 \in 1..Len(t)
      BY <1>1
    <3>2. CASE y = x
      BY <1>1, <1>2, <3>1, <3>2
    <3>3. CASE y \in Range(s)
      <4>1. PICK i \in 1..Len(s) : s[i] = y
        BY <1>3, <3>3
      <4>2. i \in 1..Len(t) /\ t[i] = y
        BY <1>1, <4>1
      <4> QED
        BY <1>2, <4>2
    <3> QED
      BY <3>2, <3>3
  <2> QED
    BY <2>1, <2>2
<1>5. ASSUME NEW i \in DOMAIN t, NEW j \in DOMAIN t, t[i] = t[j] PROVE i = j
  <2>1. i \in 1..(Len(s) + 1) /\ j \in 1..(Len(s) + 1)
    BY <1>1
  <2>2. \A k \in 1..Len(s) : t[k] # x
    BY <1>1, <1>3
  <2> QED
    BY <1>1, <1>5, <2>1, <2>2
<1> QED
  BY <1>1, <1>4, <1>5 DEF t

\* Flags, list and counter of the whitelist stay in agreement.
LEMMA WhitelistStep ==
  ASSUME WhitelistOK, [Next]_vars
  PROVE  WhitelistOK'
<1> USE TreasuryAssumption
<1>1. CASE UNCHANGED whitelist
  BY <1>1 DEF whitelist, WhitelistOK
<1>2. ASSUME NEW caller \in Addr, NEW asset \in Asset, AddApprovedAsset(caller, asset)
      PROVE  WhitelistOK'
  <2>1. /\ asset \notin approved /\ Len(list) < MaxAssets
        /\ approved' = approved \cup {asset} /\ list' = Append(list, asset)
        /\ count' = count + 1
    BY <1>2 DEF AddApprovedAsset
  <2>2. /\ list' \in Seq(Asset) /\ Len(list') = Len(list) + 1
        /\ Range(list') = Range(list) \cup {asset}
        /\ \A i, j \in DOMAIN list' : list'[i] = list'[j] => i = j
    BY <2>1, AppendUnique DEF WhitelistOK
  <2>3. Len(list) \in Nat
    BY DEF WhitelistOK
  <2> QED
    BY <2>1, <2>2, <2>3 DEF WhitelistOK
<1>3. ASSUME NEW caller \in Addr, NEW asset \in Asset, RemoveApprovedAsset(caller, asset)
      PROVE  WhitelistOK'
  <2>1. /\ asset \in approved
        /\ approved' = approved \ {asset} /\ list' = RemoveFirst(list, asset)
        /\ count' = count - 1
    BY <1>3 DEF RemoveApprovedAsset
  <2>2. /\ list' \in Seq(Asset) /\ Len(list') = Len(list) - 1
        /\ Range(list') = Range(list) \ {asset}
        /\ \A i, j \in DOMAIN list' : list'[i] = list'[j] => i = j
    BY <2>1, RemoveFirstFacts DEF WhitelistOK
  <2>3. Len(list) \in Nat
    BY DEF WhitelistOK
  <2> QED
    BY <2>1, <2>2, <2>3 DEF WhitelistOK
<1>4. ASSUME NEW caller \in Addr, Configuration(caller)
      PROVE  \/ UNCHANGED whitelist
             \/ \E asset \in Asset : \/ AddApprovedAsset(caller, asset)
                                    \/ RemoveApprovedAsset(caller, asset)
  BY <1>4 DEF Configuration, Initialize, SetRegistry, SetPolicy, SetBudget, SetMultisig,
              SetGuardian, Configure, SetWithdrawalTimeLock, AllocateBudget, SetAllowance,
              RemoveAllowance, InitMilestoneDisbursement
<1>5. UNCHANGED vars \/ Tick => UNCHANGED whitelist
  BY DEF vars, Tick
<1> QED
  BY <1>1, <1>2, <1>3, <1>4, <1>5, BreakersFrame, MovementFrame DEF Next

-----------------------------------------------------------------------------
(* Allowances and the time lock                                             *)

\* Spending within an allowance leaves it within its limit.
LEMMA SpendFacts ==
  ASSUME NEW al \in Allowance, NEW amount \in Nat, amount <= al.limit - al.spent
  PROVE  /\ [al EXCEPT !.spent = @ + amount] \in Allowance
         /\ [al EXCEPT !.spent = @ + amount].spent <= [al EXCEPT !.spent = @ + amount].limit
<1>1. al.limit \in Nat /\ al.spent \in Nat /\ al.expires_at \in Nat
  BY DEF Allowance
<1>2. al = [limit |-> al.limit, spent |-> al.spent, expires_at |-> al.expires_at]
  BY DEF Allowance
<1>3. [al EXCEPT !.spent = @ + amount]
        = [limit |-> al.limit, spent |-> al.spent + amount, expires_at |-> al.expires_at]
  BY <1>2
<1>4. al.spent + amount \in Nat /\ al.spent + amount <= al.limit
  BY <1>1
<1> QED
  BY <1>1, <1>3, <1>4 DEF Allowance

\* No step spends an allowance beyond its limit.
LEMMA AllowanceStep ==
  ASSUME AllowanceOK, ControlOK, QueueOK, [Next]_vars
  PROVE  AllowanceOK'
<1> USE TreasuryAssumption
<1>1. CASE UNCHANGED allowance
  BY <1>1 DEF AllowanceOK
<1>2. ASSUME NEW x \in Addr \X Recipient \X Asset, NEW al \in Allowance \cup {Unset},
             al # Unset => al.spent <= al.limit,
             allowance' = [allowance EXCEPT ![x] = al]
      PROVE  AllowanceOK'
  BY <1>2 DEF AllowanceOK
<1>3. ASSUME NEW caller \in Addr, NEW agent \in Addr, NEW to \in Recipient, NEW asset \in Asset,
             \/ \E terms \in AllowanceTerms : SetAllowance(caller, agent, to, asset, terms)
             \/ RemoveAllowance(caller, agent, to, asset)
      PROVE  AllowanceOK'
  <2>1. <<agent, to, asset>> \in Addr \X Recipient \X Asset
    OBVIOUS
  <2>2. ASSUME NEW terms \in AllowanceTerms, SetAllowance(caller, agent, to, asset, terms)
        PROVE  AllowanceOK'
    <3> DEFINE al == [limit |-> terms.limit, spent |-> 0, expires_at |-> terms.expires_at]
    <3>1. al \in Allowance /\ al.spent <= al.limit
      BY DEF Allowance
    <3>2. allowance' = [allowance EXCEPT ![<<agent, to, asset>>] = al]
      BY <2>2 DEF SetAllowance
    <3> HIDE DEF al
    <3> QED
      BY <1>2, <2>1, <3>1, <3>2
  <2>3. ASSUME RemoveAllowance(caller, agent, to, asset) PROVE AllowanceOK'
    <3>1. allowance' = [allowance EXCEPT ![<<agent, to, asset>>] = Unset]
      BY <2>3 DEF RemoveAllowance
    <3> QED
      BY <1>2, <2>1, <3>1
  <2> QED
    BY <1>3, <2>2, <2>3
<1>4. ASSUME NEW caller \in Addr, NEW to \in Recipient, NEW asset \in Asset, NEW amount \in Nat,
             SpendAllowance(caller, to, asset, amount)
      PROVE  AllowanceOK'
  <2>1. CASE allowance[<<caller, to, asset>>] = Unset
    BY <1>1, <1>4, <2>1 DEF SpendAllowance
  <2>2. CASE allowance[<<caller, to, asset>>] # Unset
    <3>1. PICK x \in Addr \X Recipient \X Asset : x = <<caller, to, asset>>
      OBVIOUS
    <3>2. allowance[x] \in Allowance /\ allowance[x].spent <= allowance[x].limit
      BY <2>2, <3>1 DEF AllowanceOK
    <3>3. /\ amount <= allowance[x].limit - allowance[x].spent
          /\ allowance' = [allowance EXCEPT ![x].spent = @ + amount]
      BY <1>4, <2>2, <3>1 DEF SpendAllowance
    <3>4. PICK al : al = [allowance[x] EXCEPT !.spent = @ + amount]
      OBVIOUS
    <3>5. al \in Allowance /\ al.spent <= al.limit
      BY <3>2, <3>3, <3>4, SpendFacts
    <3>6. allowance' = [allowance EXCEPT ![x] = al]
      BY <3>3, <3>4 DEF AllowanceOK
    <3> QED
      BY <1>2, <3>5, <3>6
  <2> QED
    BY <2>1, <2>2
<1>5. ASSUME NEW caller \in Addr, Configuration(caller)
      PROVE  \/ UNCHANGED allowance
             \/ \E asset \in Asset, to \in Recipient, agent \in Addr :
                  \/ \E terms \in AllowanceTerms : SetAllowance(caller, agent, to, asset, terms)
                  \/ RemoveAllowance(caller, agent, to, asset)
  BY <1>5 DEF Configuration, Initialize, SetRegistry, SetPolicy, SetBudget, SetMultisig,
              SetGuardian, Configure, SetWithdrawalTimeLock, AllocateBudget,
              AddApprovedAsset, RemoveApprovedAsset, InitMilestoneDisbursement
<1>6. ASSUME NEW caller \in Addr, Movement(caller)
      PROVE  \/ UNCHANGED allowance
             \/ \E asset \in Asset, to \in Recipient, amount \in Nat :
                  SpendAllowance(caller, to, asset, amount)
  <2>1. ASSUME NEW id \in DOMAIN queue, ExecuteWithdrawal(caller, id)
        PROVE  \/ UNCHANGED allowance
               \/ SpendAllowance(caller, queue[id].to, queue[id].asset, queue[id].amount)
    BY <2>1 DEF ExecuteWithdrawal, SettleWithdrawal, SettleBatch
  <2>2. \A id \in DOMAIN queue : /\ queue[id].to \in Recipient /\ queue[id].asset \in Asset
                                /\ queue[id].amount \in Nat
    <3>1. \A id \in DOMAIN queue : queue[id] \in PendingWithdrawal
      BY DEF QueueOK
    <3> QED
      BY <3>1 DEF PendingWithdrawal
  <2>3. ASSUME NEW asset \in Asset, NEW to \in Recipient, NEW amount \in Amounts,
               Withdraw(caller, asset, to, amount)
        PROVE  SpendAllowance(caller, to, asset, amount) /\ amount \in Nat
    BY <2>3 DEF Withdraw, SettleWithdrawal
  <2>4. ASSUME NEW asset \in Asset, NEW payments \in Batches,
               BatchTransfer(caller, asset, payments)
        PROVE  UNCHANGED allowance
    BY <2>4 DEF BatchTransfer, SettleBatch
  <2> QED
    BY <1>6, <2>1, <2>2, <2>3, <2>4, ZenonT(60)
       DEF Movement, Deposit, QueueWithdrawal, QueueBatchTransfer, OpenPending,
           CancelWithdrawal, ReleaseNextMilestone
<1>7. UNCHANGED vars \/ Tick => UNCHANGED allowance
  BY DEF vars, Tick
<1> QED
  BY <1>1, <1>3, <1>4, <1>5, <1>6, <1>7, BreakersFrame DEF Next

\* The time lock stays well formed.
LEMMA LockStep ==
  ASSUME LockOK, [Next]_vars
  PROVE  LockOK'
<1> USE TreasuryAssumption
<1>1. CASE UNCHANGED lock
  BY <1>1 DEF LockOK
<1>2. ASSUME NEW caller \in Addr, NEW l \in Locks, SetWithdrawalTimeLock(caller, l)
      PROVE  LockOK'
  BY <1>2 DEF SetWithdrawalTimeLock, Disabled, LockOK
<1>3. ASSUME NEW caller \in Addr, Configuration(caller)
      PROVE  UNCHANGED lock \/ \E l \in Locks : SetWithdrawalTimeLock(caller, l)
  BY <1>3 DEF Configuration, Initialize, SetRegistry, SetPolicy, SetBudget, SetMultisig,
              SetGuardian, Configure, AllocateBudget, AddApprovedAsset, RemoveApprovedAsset,
              SetAllowance, RemoveAllowance, InitMilestoneDisbursement
<1>4. UNCHANGED vars \/ Tick => UNCHANGED lock
  BY DEF vars, Tick
<1> QED
  BY <1>1, <1>2, <1>3, <1>4, BreakersFrame, MovementFrame DEF Next

-----------------------------------------------------------------------------
(* What a payout moves                                                      *)

\* The sums of a batch are numbers; a recipient it does not name gets 0.
LEMMA TotalFacts ==
  ASSUME NEW payments \in Seq(Payment)
  PROVE  /\ Total(payments) \in Nat
         /\ \A r : TotalTo(payments, r) \in Nat
         /\ \A r : (\A i \in DOMAIN payments : payments[i].recipient # r)
                  => TotalTo(payments, r) = 0
<1>1. IsFiniteSet(DOMAIN payments)
  BY FS_Interval
<1>2. \A i \in DOMAIN payments : payments[i] \in Payment
  OBVIOUS
<1>3. \A i \in DOMAIN payments : Legs(payments)[i] \in Nat
  BY <1>2 DEF Legs, Payment
<1>4. Total(payments) \in Nat
  BY <1>1, <1>3, SumNat DEF Total
<1>5. ASSUME NEW r PROVE TotalTo(payments, r) \in Nat
  <2> DEFINE T == {i \in DOMAIN payments : payments[i].recipient = r}
  <2>1. T \subseteq DOMAIN payments /\ IsFiniteSet(T)
    BY <1>1, FS_Subset
  <2> HIDE DEF T
  <2>2. SumFunctionOnSet(Legs(payments), T) \in Nat
    BY <1>3, <2>1, SumNat
  <2> QED
    BY <2>2 DEF TotalTo, T
<1>6. ASSUME NEW r, \A i \in DOMAIN payments : payments[i].recipient # r
      PROVE  TotalTo(payments, r) = 0
  <2> DEFINE T == {i \in DOMAIN payments : payments[i].recipient = r}
  <2>1. T = {}
    BY <1>6
  <2> HIDE DEF T
  <2>2. SumFunctionOnSet(Legs(payments), T) = 0
    BY <2>1, SumEmpty
  <2> QED
    BY <2>2 DEF TotalTo, T
<1> QED
  BY <1>4, <1>5, <1>6

\* The last milestone takes what the others left, which is not negative.
LEMMA MilestoneFacts ==
  ASSUME NEW d \in MilestoneDisbursement, Divided(d), d.disbursed < d.milestones
  PROVE  /\ MilestoneAmount(d) \in Nat
         /\ MilestonesPaid(d) \in Nat
         /\ [d EXCEPT !.disbursed = @ + 1] \in MilestoneDisbursement
         /\ Divided([d EXCEPT !.disbursed = @ + 1])
         /\ MilestonesPaid([d EXCEPT !.disbursed = @ + 1])
              = MilestonesPaid(d) + MilestoneAmount(d)
<1> DEFINE e == [d EXCEPT !.disbursed = @ + 1]
<1>1. /\ d.total_amount \in Nat /\ d.milestones \in Nat /\ d.disbursed \in Nat
      /\ d.amount_per_milestone \in Nat
  BY DEF MilestoneDisbursement
<1>2. /\ e \in MilestoneDisbursement /\ e.disbursed = d.disbursed + 1
      /\ e.total_amount = d.total_amount /\ e.milestones = d.milestones
      /\ e.amount_per_milestone = d.amount_per_milestone
  BY <1>1 DEF MilestoneDisbursement
<1> HIDE DEF e
<1>3. PICK t \in Nat, m \in Nat, n \in Nat, q \in Nat :
        /\ t = d.total_amount /\ m = d.milestones /\ n = d.disbursed
        /\ q = d.amount_per_milestone
  BY <1>1
<1>4. n < m /\ q * m <= t
  BY <1>3 DEF Divided
<1>5. q * (m - 1) = q * m - q /\ q * (n + 1) = q * n + q /\ q * n \in Nat /\ q * m \in Nat
  BY <1>3
<1>6. MilestoneAmount(d) = IF n = m - 1 THEN t - q * (m - 1) ELSE q
  BY <1>3 DEF MilestoneAmount
<1>7. MilestonesPaid(d) = q * n
  BY <1>1, <1>3, <1>4 DEF MilestonesPaid
<1>8. MilestonesPaid(e) = IF n + 1 = m THEN t ELSE q * (n + 1)
  BY <1>2, <1>3 DEF MilestonesPaid
<1>9. Divided(e)
  BY <1>1, <1>2 DEF Divided
<1>10. CASE n = m - 1
  <2>1. n + 1 = m /\ q * n = q * (m - 1)
    BY <1>10
  <2> QED
    BY <1>2, <1>4, <1>5, <1>6, <1>7, <1>8, <1>9, <1>10, <2>1 DEF e
<1>11. CASE n # m - 1
  BY <1>2, <1>4, <1>5, <1>6, <1>7, <1>8, <1>9, <1>11 DEF e
<1> QED
  BY <1>10, <1>11

\* The book of an asset after a payout.
LEMMA DebitFacts ==
  ASSUME NEW h \in Holding, NEW amount
  PROVE  [h EXCEPT !.total_in = @ - amount, !.total_out = @ + amount]
           = [total_in |-> h.total_in - amount, total_out |-> h.total_out + amount,
              bound |-> h.bound]
<1>1. h = [total_in |-> h.total_in, total_out |-> h.total_out, bound |-> h.bound]
  BY DEF Holding
<1>2. PICK a, b : a = h.total_in - amount /\ b = h.total_out + amount
  OBVIOUS
<1>3. [h EXCEPT !.total_in = a] = [total_in |-> a, total_out |-> h.total_out, bound |-> h.bound]
  BY <1>1
<1>4. [h EXCEPT !.total_in = a, !.total_out = b] = [[h EXCEPT !.total_in = a] EXCEPT !.total_out = b]
  BY <1>1
<1>5. [h EXCEPT !.total_in = @ - amount, !.total_out = @ + amount]
        = [h EXCEPT !.total_in = a, !.total_out = b]
  BY <1>1, <1>2
<1>6. [[h EXCEPT !.total_in = a] EXCEPT !.total_out = b]
        = [total_in |-> a, total_out |-> b, bound |-> h.bound]
  <2>1. PICK g : g = [h EXCEPT !.total_in = a]
    OBVIOUS
  <2>2. g = [total_in |-> a, total_out |-> h.total_out, bound |-> h.bound]
    BY <1>3, <2>1
  <2>3. [g EXCEPT !.total_out = b] = [total_in |-> a, total_out |-> b, bound |-> h.bound]
    BY <2>2
  <2> QED
    BY <2>1, <2>3
<1> QED
  BY <1>2, <1>4, <1>5, <1>6

Payout(asset, amount) == Charge(asset, amount) /\ Outflow(asset, amount)

\* What a payout does to books, custody and budget, asset by asset.
LEMMA PayoutFacts ==
  ASSUME FundsOK, NEW asset \in Asset, NEW amount \in Nat, Payout(asset, amount)
  PROVE  /\ holding' \in [Asset -> Holding] /\ balance' \in [Asset -> Nat]
         /\ custody' \in [Asset -> Nat] /\ consumed' \in [Asset -> Nat]
         /\ holding'[asset].total_in = holding[asset].total_in - amount
         /\ holding'[asset].total_out = holding[asset].total_out + amount
         /\ balance'[asset] = holding[asset].total_in - amount
         /\ custody'[asset] = custody[asset] - amount
         /\ \A b \in Asset \ {asset} : /\ holding'[b] = holding[b] /\ balance'[b] = balance[b]
                                      /\ custody'[b] = custody[b]
                                      /\ consumed'[b] = consumed[b]
         /\ treasury.budget /\ holding[asset].bound => consumed'[asset] = consumed[asset] + amount
<1>1. /\ holding[asset].total_in \in Nat /\ holding[asset].total_out \in Nat
      /\ holding[asset].bound \in BOOLEAN
      /\ holding \in [Asset -> Holding] /\ balance \in [Asset -> Nat]
      /\ custody \in [Asset -> Nat] /\ consumed \in [Asset -> Nat]
  <2>1. holding[asset] \in Holding
    BY DEF FundsOK
  <2> QED
    BY <2>1 DEF FundsOK, Holding
<1>2. /\ amount <= holding[asset].total_in /\ amount <= custody[asset]
      /\ holding' = [holding EXCEPT ![asset].total_in = @ - amount,
                                    ![asset].total_out = @ + amount]
      /\ balance' = [balance EXCEPT ![asset] = holding[asset].total_in - amount]
      /\ custody' = [custody EXCEPT ![asset] = @ - amount]
  BY DEF Payout, Outflow
<1>3. PICK h \in Holding : h = [total_in |-> holding[asset].total_in - amount,
                               total_out |-> holding[asset].total_out + amount,
                               bound |-> holding[asset].bound]
  BY <1>1, <1>2 DEF Holding
<1>4. holding' = [holding EXCEPT ![asset] = h]
  <2>1. holding[asset] \in Holding
    BY <1>1
  <2>2. PICK k : k = [holding[asset] EXCEPT !.total_in = @ - amount, !.total_out = @ + amount]
    OBVIOUS
  <2>3. k = h
    BY <1>3, <2>1, <2>2, DebitFacts
  <2>4. holding' = [holding EXCEPT ![asset] = k]
    BY <1>1, <1>2, <2>2
  <2> QED
    BY <2>3, <2>4
<1>5. /\ holding' \in [Asset -> Holding] /\ holding'[asset] = h
      /\ \A b \in Asset \ {asset} : holding'[b] = holding[b]
  BY <1>1, <1>3, <1>4
<1>6. /\ balance' \in [Asset -> Nat] /\ custody' \in [Asset -> Nat]
      /\ balance'[asset] = holding[asset].total_in - amount
      /\ custody'[asset] = custody[asset] - amount
      /\ \A b \in Asset \ {asset} : balance'[b] = balance[b] /\ custody'[b] = custody[b]
  BY <1>1, <1>2
<1>7. /\ consumed' \in [Asset -> Nat]
      /\ \A b \in Asset \ {asset} : consumed'[b] = consumed[b]
      /\ treasury.budget /\ holding[asset].bound => consumed'[asset] = consumed[asset] + amount
  BY <1>1 DEF Payout, Charge
<1> QED
  BY <1>3, <1>5, <1>6, <1>7

-----------------------------------------------------------------------------
(* The ways value moves                                                     *)

\* A payout the policy was asked about.
Delivered ==
  /\ received' \in [Recipient -> Nat]
  /\ treasury.policy => \A r \in Denied : received'[r] = received[r]

TakesIn(asset, n) ==
  /\ holding' = [holding EXCEPT ![asset].total_in = @ + n]
  /\ balance' = [balance EXCEPT ![asset] = holding[asset].total_in + n]
  /\ custody' = [custody EXCEPT ![asset] = @ + n]
  /\ UNCHANGED <<consumed, received, queue, schedule, direct>>

PaysDirectly(asset, amount) ==
  /\ RequireNotPaused
  /\ ~Applies(amount)
  /\ Payout(asset, amount)
  /\ Delivered
  /\ direct' = [direct EXCEPT ![asset] = @ + amount]
  /\ UNCHANGED <<queue, schedule>>

PaysQueued(id) ==
  /\ RequireNotPaused
  /\ IsPending(queue[id])
  /\ now < queue[id].expires_at /\ now >= queue[id].execute_after
  /\ Payout(queue[id].asset, queue[id].amount)
  /\ Delivered
  /\ queue' = [queue EXCEPT ![id].executed = TRUE]
  /\ UNCHANGED <<schedule, direct>>

PaysMilestone(id) ==
  /\ RequireNotPaused
  /\ schedule[id].disbursed < schedule[id].milestones
  /\ Payout(schedule[id].asset, MilestoneAmount(schedule[id]))
  /\ received' \in [Recipient -> Nat]
  /\ schedule' = [schedule EXCEPT ![id].disbursed = @ + 1]
  /\ UNCHANGED <<queue, direct>>

Requests(p) ==
  /\ p \in PendingWithdrawal /\ Sound(p) /\ ~p.executed
  /\ queue' = Append(queue, p)
  /\ UNCHANGED <<books, schedule, direct>>

Cancels(id) ==
  /\ IsPending(queue[id])
  /\ queue' = [queue EXCEPT ![id].cancelled = TRUE]
  /\ UNCHANGED <<books, schedule, direct>>

Flow ==
  \/ \E asset \in Asset, n \in Nat : TakesIn(asset, n) \/ PaysDirectly(asset, n)
  \/ \E id \in DOMAIN queue : PaysQueued(id) \/ Cancels(id)
  \/ \E id \in DOMAIN schedule : PaysMilestone(id)
  \/ \E p : Requests(p)

\* A single withdrawal is a payout, and reaches its recipient.
LEMMA DeliveredSingly ==
  ASSUME FundsOK, ControlOK, NEW caller \in Addr, NEW asset \in Asset, NEW to \in Recipient,
         NEW amount \in Nat, SettleWithdrawal(caller, asset, to, amount)
  PROVE  Payout(asset, amount) /\ Delivered
<1>1. /\ PolicyAllows(to) /\ Payout(asset, amount)
      /\ received' = [received EXCEPT ![to] = @ + amount]
  BY DEF SettleWithdrawal, Payout
<1>2. received \in [Recipient -> Nat] /\ Denied \subseteq Recipient
  BY TreasuryAssumption DEF FundsOK
<1> QED
  BY <1>1, <1>2 DEF Delivered, PolicyAllows

\* A batch is one payout of its total, and reaches its recipients.
LEMMA DeliveredInBatch ==
  ASSUME FundsOK, ControlOK, NEW asset \in Asset, NEW payments \in Seq(Payment),
         SettleBatch(asset, payments)
  PROVE  Payout(asset, Total(payments)) /\ Delivered
<1>1. /\ \A i \in DOMAIN payments : PolicyAllows(payments[i].recipient)
      /\ Payout(asset, Total(payments))
      /\ received' = [r \in Recipient |-> received[r] + TotalTo(payments, r)]
  BY DEF SettleBatch, Payout
<1>2. received \in [Recipient -> Nat] /\ Denied \subseteq Recipient
  BY TreasuryAssumption DEF FundsOK
<1>3. received' \in [Recipient -> Nat]
  BY <1>1, <1>2, TotalFacts
<1>4. ASSUME treasury.policy, NEW r \in Denied PROVE received'[r] = received[r]
  <2>1. \A i \in DOMAIN payments : payments[i].recipient # r
    BY <1>1, <1>4 DEF PolicyAllows
  <2>2. TotalTo(payments, r) = 0
    BY <2>1, TotalFacts
  <2>3. r \in Recipient /\ received[r] \in Nat
    BY <1>2
  <2> QED
    BY <1>1, <2>2, <2>3
<1> QED
  BY <1>1, <1>3, <1>4 DEF Delivered

\* Every movement is one of the flows above.
LEMMA MovementFlows ==
  ASSUME StorageOK, NEW caller \in Addr, Movement(caller)
  PROVE  Flow
<1> USE TreasuryAssumption
<1>0. /\ ControlOK /\ FundsOK /\ LockOK /\ QueueOK /\ ScheduleOK /\ now \in Nat
      /\ lock.delay \in Nat /\ lock.threshold \in Nat
  BY DEF StorageOK, ControlOK, LockOK
<1>1. ASSUME NEW asset \in Asset, NEW amount \in Amounts, NEW arrived \in 1..amount,
             Deposit(caller, asset, amount, arrived)
      PROVE  Flow
  <2>1. arrived \in Nat /\ TakesIn(asset, arrived)
    BY <1>1 DEF Deposit, TakesIn
  <2> QED
    BY <2>1 DEF Flow
<1>2. ASSUME NEW asset \in Asset, NEW amount \in Amounts, NEW to \in Recipient,
             Withdraw(caller, asset, to, amount)
      PROVE  Flow
  <2>1. amount \in Nat
    OBVIOUS
  <2>2. Payout(asset, amount) /\ Delivered
    BY <1>0, <1>2, <2>1, DeliveredSingly DEF Withdraw
  <2>3. PaysDirectly(asset, amount)
    BY <1>2, <2>2 DEF Withdraw, PaysDirectly
  <2> QED
    BY <2>1, <2>3 DEF Flow
<1>3. ASSUME NEW asset \in Asset, NEW payments \in Batches,
             BatchTransfer(caller, asset, payments)
      PROVE  Flow
  <2>1. payments \in Seq(Payment) /\ Total(payments) \in Nat
    BY TotalFacts
  <2>2. Payout(asset, Total(payments)) /\ Delivered
    BY <1>0, <1>3, <2>1, DeliveredInBatch DEF BatchTransfer
  <2>3. PaysDirectly(asset, Total(payments))
    BY <1>3, <2>2 DEF BatchTransfer, PaysDirectly
  <2> QED
    BY <2>1, <2>3 DEF Flow
<1>4. ASSUME NEW asset \in Asset, NEW to \in Recipient, NEW amount \in Nat,
             NEW payments \in Seq(Payment),
             payments # <<>> => amount = Total(payments), Applies(amount),
             OpenPending(asset, to, amount, payments)
      PROVE  Flow
  <2>1. PICK p : p =
          [asset |-> asset, to |-> to, amount |-> amount, payments |-> payments,
           requested_at |-> now, execute_after |-> now + lock.delay,
           expires_at |-> now + lock.delay + Grace, cancelled |-> FALSE, executed |-> FALSE]
    OBVIOUS
  <2>2. p \in PendingWithdrawal
    BY <1>0, <1>4, <2>1 DEF PendingWithdrawal
  <2>3. lock.delay >= MinDelay
    BY <1>0, <1>4 DEF Applies, LockOK
  <2>4. Sound(p) /\ ~p.executed
    BY <1>0, <1>4, <2>1, <2>3 DEF Sound
  <2>5. Requests(p)
    BY <1>4, <2>1, <2>2, <2>4 DEF OpenPending, Requests
  <2> QED
    BY <2>5 DEF Flow
<1>5. ASSUME NEW asset \in Asset, NEW amount \in Amounts, NEW to \in Recipient,
             QueueWithdrawal(caller, asset, to, amount)
      PROVE  Flow
  <2>1. <<>> \in Seq(Payment) /\ amount \in Nat
    OBVIOUS
  <2> QED
    BY <1>4, <1>5, <2>1 DEF QueueWithdrawal
<1>6. ASSUME NEW asset \in Asset, NEW payments \in Batches,
             QueueBatchTransfer(caller, asset, payments)
      PROVE  Flow
  <2>1. payments \in Seq(Payment) /\ Total(payments) \in Nat
    BY TotalFacts
  <2>2. payments # <<>>
    BY <1>6 DEF QueueBatchTransfer, ValidBatch
  <2>3. payments[1] \in Payment
    BY <2>1, <2>2
  <2>4. payments[1].recipient \in Recipient
    BY <2>3 DEF Payment
  <2> QED
    BY <1>4, <1>6, <2>1, <2>4 DEF QueueBatchTransfer
<1>7. ASSUME NEW id \in DOMAIN queue, ExecuteWithdrawal(caller, id) PROVE Flow
  <2>1. queue[id] \in PendingWithdrawal /\ Sound(queue[id])
    BY <1>0 DEF QueueOK
  <2>2. PICK p \in PendingWithdrawal : p = queue[id]
    BY <2>1
  <2>3. /\ p.asset \in Asset /\ p.to \in Recipient /\ p.amount \in Nat
        /\ p.payments \in Seq(Payment)
    BY DEF PendingWithdrawal
  <2>4. Payout(p.asset, p.amount) /\ Delivered
    <3>1. CASE p.payments = <<>>
      <4>1. SettleWithdrawal(caller, p.asset, p.to, p.amount)
        BY <1>7, <2>2, <3>1 DEF ExecuteWithdrawal
      <4> QED
        BY <1>0, <2>3, <4>1, DeliveredSingly
    <3>2. CASE p.payments # <<>>
      <4>1. SettleBatch(p.asset, p.payments)
        BY <1>7, <2>2, <3>2 DEF ExecuteWithdrawal
      <4>2. p.amount = Total(p.payments)
        BY <2>1, <2>2, <3>2 DEF Sound
      <4>3. Payout(p.asset, Total(p.payments)) /\ Delivered
        BY <1>0, <2>3, <4>1, DeliveredInBatch
      <4> QED
        BY <4>2, <4>3
    <3> QED
      BY <3>1, <3>2
  <2>5. PaysQueued(id)
    BY <1>7, <2>2, <2>4 DEF ExecuteWithdrawal, PaysQueued
  <2> QED
    BY <2>5 DEF Flow
<1>8. ASSUME NEW id \in DOMAIN queue, CancelWithdrawal(caller, id) PROVE Flow
  BY <1>8 DEF CancelWithdrawal, Cancels, Flow
<1>9. ASSUME NEW id \in DOMAIN schedule, ReleaseNextMilestone(caller, id) PROVE Flow
  <2>1. schedule[id] \in MilestoneDisbursement /\ Divided(schedule[id])
        /\ schedule[id].disbursed < schedule[id].milestones
    BY <1>0, <1>9 DEF ScheduleOK, ReleaseNextMilestone
  <2>2. schedule[id].to \in Recipient /\ MilestoneAmount(schedule[id]) \in Nat
    BY <2>1, MilestoneFacts DEF MilestoneDisbursement
  <2>3. received' \in [Recipient -> Nat]
    <3>1. received \in [Recipient -> Nat]
      BY <1>0 DEF FundsOK
    <3>2. PICK to \in Recipient, n \in Nat : to = schedule[id].to /\ n = MilestoneAmount(schedule[id])
      BY <2>2
    <3>3. received' = [received EXCEPT ![to] = @ + n]
      BY <1>9, <3>2 DEF ReleaseNextMilestone
    <3> QED
      BY <3>1, <3>3
  <2>4. PaysMilestone(id)
    BY <1>9, <2>3 DEF ReleaseNextMilestone, PaysMilestone, Payout
  <2> QED
    BY <2>4 DEF Flow
<1> QED
  BY <1>1, <1>2, <1>3, <1>5, <1>6, <1>7, <1>8, <1>9 DEF Movement

-----------------------------------------------------------------------------
(* What has been paid for, as the queue and the schedules change            *)

Executed(q, a) ==
  SumFunctionOnSet([i \in DOMAIN q |-> q[i].amount],
                   {i \in DOMAIN q : q[i].asset = a /\ q[i].executed})
Released(s, a) ==
  SumFunctionOnSet([i \in DOMAIN s |-> MilestonesPaid(s[i])],
                   {i \in DOMAIN s : s[i].asset = a})

\* What the requests and the schedules paid, before and after a step.
LEMMA PaidParts ==
  \A a : /\ QueuePaid(a) = Executed(queue, a) /\ QueuePaid(a)' = Executed(queue', a)
         /\ SchedulePaid(a) = Released(schedule, a)
         /\ SchedulePaid(a)' = Released(schedule', a)
  BY DEF QueuePaid, SchedulePaid, Executed, Released, MilestonesPaid

\* Two sums over the same set of functions that agree on it.
LEMMA SumAgrees ==
  ASSUME NEW f, NEW g, NEW S, NEW T, IsFiniteSet(S), T = S, \A x \in S : g[x] = f[x]
  PROVE  SumFunctionOnSet(g, T) = SumFunctionOnSet(f, S)
<1>1. SumFunctionOnSet(g, S) = SumFunctionOnSet(f, S)
  BY SumSame
<1> QED
  BY <1>1

\* The second set has one more element.
LEMMA SumGrows ==
  ASSUME NEW f, NEW g, NEW S, NEW T, IsFiniteSet(S), NEW e, e \notin S, T = S \cup {e},
         \A x \in S : f[x] \in Int /\ g[x] = f[x], g[e] \in Int
  PROVE  SumFunctionOnSet(g, T) = SumFunctionOnSet(f, S) + g[e]
<1>1. SumFunctionOnSet(g, S \cup {e}) = SumFunctionOnSet(g, S) + g[e]
  BY SumWith
<1>2. SumFunctionOnSet(g, S) = SumFunctionOnSet(f, S)
  BY SumSame
<1> QED
  BY <1>1, <1>2

\* A request that is queued or cancelled pays nothing.
LEMMA ExecutedKept ==
  ASSUME NEW q \in Seq(PendingWithdrawal), NEW r \in Seq(PendingWithdrawal), NEW a,
         DOMAIN q \subseteq DOMAIN r,
         \A i \in DOMAIN q : /\ r[i].asset = q[i].asset /\ r[i].amount = q[i].amount
                             /\ r[i].executed = q[i].executed,
         \A i \in DOMAIN r \ DOMAIN q : ~ r[i].executed
  PROVE  Executed(r, a) = Executed(q, a)
<1> DEFINE f == [i \in DOMAIN q |-> q[i].amount]
           g == [i \in DOMAIN r |-> r[i].amount]
           S == {i \in DOMAIN q : q[i].asset = a /\ q[i].executed}
           T == {i \in DOMAIN r : r[i].asset = a /\ r[i].executed}
<1>1. IsFiniteSet(DOMAIN q)
  <2>1. Len(q) \in Int /\ DOMAIN q = 1..Len(q)
    OBVIOUS
  <2>2. IsFiniteSet(1..Len(q))
    BY <2>1, FS_Interval
  <2> QED
    BY <2>1, <2>2
<1>2. S \subseteq DOMAIN q /\ IsFiniteSet(S)
  BY <1>1, FS_Subset
<1>3. T = S
  OBVIOUS
<1>4. \A x \in S : g[x] = f[x]
  OBVIOUS
<1>5. Executed(q, a) = SumFunctionOnSet(f, S) /\ Executed(r, a) = SumFunctionOnSet(g, T)
  BY DEF Executed
<1> HIDE DEF f, g, S, T
<1> QED
  BY <1>2, <1>3, <1>4, <1>5, SumAgrees

\* One that is executed pays its amount of its asset.
LEMMA ExecutedOnce ==
  ASSUME NEW q \in Seq(PendingWithdrawal), NEW r \in Seq(PendingWithdrawal), NEW a,
         NEW id \in DOMAIN q, ~ q[id].executed, r[id].executed, DOMAIN r = DOMAIN q,
         \A i \in DOMAIN q : r[i].asset = q[i].asset /\ r[i].amount = q[i].amount,
         \A i \in DOMAIN q \ {id} : r[i].executed = q[i].executed
  PROVE  Executed(r, a) = Executed(q, a) + (IF q[id].asset = a THEN q[id].amount ELSE 0)
<1> DEFINE f == [i \in DOMAIN q |-> q[i].amount]
           g == [i \in DOMAIN r |-> r[i].amount]
           S == {i \in DOMAIN q : q[i].asset = a /\ q[i].executed}
           T == {i \in DOMAIN r : r[i].asset = a /\ r[i].executed}
<1>1. IsFiniteSet(DOMAIN q)
  BY FS_Interval
<1>2. S \subseteq DOMAIN q /\ IsFiniteSet(S) /\ id \notin S
  BY <1>1, FS_Subset
<1>3. \A i \in DOMAIN q : q[i] \in PendingWithdrawal
  OBVIOUS
<1>4. \A i \in DOMAIN q : q[i].amount \in Int
  BY <1>3 DEF PendingWithdrawal
<1>5. (\A x \in S : f[x] \in Int /\ g[x] = f[x]) /\ g[id] = q[id].amount /\ g[id] \in Int
  BY <1>4
<1>6. Executed(q, a) = SumFunctionOnSet(f, S) /\ Executed(r, a) = SumFunctionOnSet(g, T)
  BY DEF Executed
<1>7. q[id].asset = a => T = S \cup {id}
  OBVIOUS
<1>8. q[id].asset # a => T = S
  OBVIOUS
<1> HIDE DEF f, g, S, T
<1>9. CASE q[id].asset = a
  BY <1>2, <1>5, <1>6, <1>7, <1>9, SumGrows
<1>10. CASE q[id].asset # a
  <2>1. SumFunctionOnSet(f, S) \in Int
    BY <1>2, <1>5, SumInt
  <2>2. SumFunctionOnSet(g, T) = SumFunctionOnSet(f, S)
    BY <1>2, <1>5, <1>8, <1>10, SumAgrees
  <2> QED
    BY <1>6, <1>10, <2>1, <2>2
<1> QED
  BY <1>9, <1>10

\* What a schedule has paid is a number.
LEMMA PaidIsNatural ==
  ASSUME NEW d \in MilestoneDisbursement
  PROVE  MilestonesPaid(d) \in Nat
<1>1. d.total_amount \in Nat /\ d.amount_per_milestone \in Nat /\ d.disbursed \in Nat
  BY DEF MilestoneDisbursement
<1>2. d.amount_per_milestone * d.disbursed \in Nat
  BY <1>1
<1> QED
  BY <1>1, <1>2 DEF MilestonesPaid

\* A new schedule has paid nothing.
LEMMA ReleasedAppend ==
  ASSUME NEW s \in Seq(MilestoneDisbursement), NEW d \in MilestoneDisbursement, NEW a,
         MilestonesPaid(d) = 0
  PROVE  Released(Append(s, d), a) = Released(s, a)
<1> DEFINE r == Append(s, d)
           e == Len(s) + 1
           f == [i \in DOMAIN s |-> MilestonesPaid(s[i])]
           g == [i \in DOMAIN r |-> MilestonesPaid(r[i])]
           S == {i \in DOMAIN s : s[i].asset = a}
           T == {i \in DOMAIN r : r[i].asset = a}
<1>1. IsFiniteSet(DOMAIN s)
  BY FS_Interval
<1>2. /\ DOMAIN r = DOMAIN s \cup {e} /\ e \notin DOMAIN s /\ r[e] = d
      /\ \A i \in DOMAIN s : r[i] = s[i] /\ s[i] \in MilestoneDisbursement
  OBVIOUS
<1> HIDE DEF r, e
<1>3. S \subseteq DOMAIN s /\ IsFiniteSet(S) /\ e \notin S
  BY <1>1, <1>2, FS_Subset
<1>4. (\A x \in S : f[x] \in Int /\ g[x] = f[x]) /\ g[e] = 0
  BY <1>2, PaidIsNatural
<1>5. Released(s, a) = SumFunctionOnSet(f, S) /\ Released(r, a) = SumFunctionOnSet(g, T)
  BY DEF Released
<1>6. (d.asset = a => T = S \cup {e}) /\ (d.asset # a => T = S)
  BY <1>2
<1> HIDE DEF f, g, S, T
<1>7. SumFunctionOnSet(f, S) \in Int
  BY <1>3, <1>4, SumInt
<1>8. CASE d.asset = a
  <2>1. SumFunctionOnSet(g, T) = SumFunctionOnSet(f, S) + g[e]
    BY <1>3, <1>4, <1>6, <1>8, SumGrows
  <2> QED
    BY <1>4, <1>5, <1>7, <2>1 DEF r
<1>9. CASE d.asset # a
  <2>1. SumFunctionOnSet(g, T) = SumFunctionOnSet(f, S)
    BY <1>3, <1>4, <1>6, <1>9, SumAgrees
  <2> QED
    BY <1>5, <2>1 DEF r
<1> QED
  BY <1>8, <1>9

\* A milestone pays its amount of its asset.
LEMMA ReleasedNext ==
  ASSUME NEW s \in Seq(MilestoneDisbursement), NEW r \in Seq(MilestoneDisbursement), NEW a,
         NEW id \in DOMAIN s, NEW n \in Int,
         DOMAIN r = DOMAIN s, r[id].asset = s[id].asset,
         MilestonesPaid(r[id]) = MilestonesPaid(s[id]) + n,
         \A i \in DOMAIN s \ {id} : r[i] = s[i]
  PROVE  Released(r, a) = Released(s, a) + (IF s[id].asset = a THEN n ELSE 0)
<1> DEFINE f == [i \in DOMAIN s |-> MilestonesPaid(s[i])]
           g == [i \in DOMAIN r |-> MilestonesPaid(r[i])]
           S == {i \in DOMAIN s : s[i].asset = a}
           T == {i \in DOMAIN r : r[i].asset = a}
<1>1. IsFiniteSet(DOMAIN s)
  BY FS_Interval
<1>2. \A i \in DOMAIN s : MilestonesPaid(s[i]) \in Int /\ MilestonesPaid(r[i]) \in Int
  BY PaidIsNatural
<1>3. S \subseteq DOMAIN s /\ IsFiniteSet(S) /\ T = S /\ (id \in S <=> s[id].asset = a)
  BY <1>1, FS_Subset
<1>4. /\ \A x \in S : f[x] \in Int /\ g[x] \in Int
      /\ \A x \in S \ {id} : g[x] = f[x]
      /\ g[id] = f[id] + n /\ f[id] \in Int
  BY <1>2
<1>5. Released(s, a) = SumFunctionOnSet(f, S) /\ Released(r, a) = SumFunctionOnSet(g, T)
  BY DEF Released
<1> HIDE DEF f, g, S, T
<1>6. SumFunctionOnSet(f, S) \in Int /\ SumFunctionOnSet(g, T) = SumFunctionOnSet(g, S)
  BY <1>3, <1>4, SumInt
<1>7. CASE s[id].asset = a
  <2>1. SumFunctionOnSet(g, S) = SumFunctionOnSet(f, S) + g[id] - f[id]
    BY <1>3, <1>4, <1>7, SumChanged
  <2> QED
    BY <1>4, <1>5, <1>6, <1>7, <2>1
<1>8. CASE s[id].asset # a
  <2>1. SumFunctionOnSet(g, T) = SumFunctionOnSet(f, S)
    BY <1>3, <1>4, <1>8, SumAgrees
  <2> QED
    BY <1>5, <1>6, <1>8, <2>1
<1> QED
  BY <1>7, <1>8

-----------------------------------------------------------------------------
(* The books                                                                *)

\* The invariant the books need besides the types.
Accounted == BooksMatchCustody /\ PaidOnce

\* What changes hands of an asset in a step, by source.
LEMMA AccountedStep ==
  ASSUME FundsOK, FundsOK', Accounted,
         NEW in \in [Asset -> Int], NEW out \in [Asset -> Int],
         \A a \in Asset : /\ holding'[a].total_in = holding[a].total_in + in[a] - out[a]
                          /\ holding'[a].total_out = holding[a].total_out + out[a]
                          /\ custody'[a] = custody[a] + in[a] - out[a]
                          /\ balance'[a] = holding'[a].total_in
                          /\ direct'[a] + QueuePaid(a)' + SchedulePaid(a)'
                               = direct[a] + QueuePaid(a) + SchedulePaid(a) + out[a]
  PROVE  Accounted'
<1> SUFFICES ASSUME NEW a \in Asset
             PROVE  /\ custody'[a] = holding'[a].total_in /\ balance'[a] = holding'[a].total_in
                    /\ holding'[a].total_out = direct'[a] + QueuePaid(a)' + SchedulePaid(a)'
  BY DEF Accounted, BooksMatchCustody, PaidOnce
<1>1. /\ custody[a] = holding[a].total_in
      /\ holding[a].total_out = direct[a] + QueuePaid(a) + SchedulePaid(a)
  BY DEF Accounted, BooksMatchCustody, PaidOnce
<1> QED
  BY <1>1

\* The sums of what was paid are numbers.
LEMMA PaidTyped ==
  ASSUME NEW q \in Seq(PendingWithdrawal), NEW s \in Seq(MilestoneDisbursement), NEW a
  PROVE  Executed(q, a) \in Int /\ Released(s, a) \in Int
<1>1. Executed(q, a) \in Int
  <2> DEFINE f == [i \in DOMAIN q |-> q[i].amount]
             S == {i \in DOMAIN q : q[i].asset = a /\ q[i].executed}
  <2>1. IsFiniteSet(DOMAIN q)
    BY FS_Interval
  <2>2. \A i \in DOMAIN q : q[i] \in PendingWithdrawal
    OBVIOUS
  <2>3. \A i \in DOMAIN q : f[i] \in Int
    BY <2>2 DEF PendingWithdrawal
  <2>4. S \subseteq DOMAIN q /\ IsFiniteSet(S)
    BY <2>1, FS_Subset
  <2>5. Executed(q, a) = SumFunctionOnSet(f, S)
    BY DEF Executed
  <2> HIDE DEF f, S
  <2> QED
    BY <2>3, <2>4, <2>5, SumInt
<1>2. Released(s, a) \in Int
  <2> DEFINE f == [i \in DOMAIN s |-> MilestonesPaid(s[i])]
             S == {i \in DOMAIN s : s[i].asset = a}
  <2>1. IsFiniteSet(DOMAIN s)
    BY FS_Interval
  <2>2. \A i \in DOMAIN s : f[i] \in Int
    BY PaidIsNatural
  <2>3. S \subseteq DOMAIN s /\ IsFiniteSet(S)
    BY <2>1, FS_Subset
  <2>4. Released(s, a) = SumFunctionOnSet(f, S)
    BY DEF Released
  <2> HIDE DEF f, S
  <2> QED
    BY <2>2, <2>3, <2>4, SumInt
<1> QED
  BY <1>1, <1>2

\* Marking a request executed or cancelled changes nothing else of it.
LEMMA FlagFacts ==
  ASSUME NEW p \in PendingWithdrawal, Sound(p)
  PROVE  /\ [p EXCEPT !.executed = TRUE] \in PendingWithdrawal
         /\ Sound([p EXCEPT !.executed = TRUE])
         /\ [p EXCEPT !.executed = TRUE].executed
         /\ [p EXCEPT !.executed = TRUE].asset = p.asset
         /\ [p EXCEPT !.executed = TRUE].amount = p.amount
         /\ [p EXCEPT !.cancelled = TRUE] \in PendingWithdrawal
         /\ Sound([p EXCEPT !.cancelled = TRUE])
         /\ [p EXCEPT !.cancelled = TRUE].executed = p.executed
         /\ [p EXCEPT !.cancelled = TRUE].asset = p.asset
         /\ [p EXCEPT !.cancelled = TRUE].amount = p.amount
<1>1. p = [asset |-> p.asset, to |-> p.to, amount |-> p.amount, payments |-> p.payments,
           requested_at |-> p.requested_at, execute_after |-> p.execute_after,
           expires_at |-> p.expires_at, cancelled |-> p.cancelled, executed |-> p.executed]
  BY DEF PendingWithdrawal
<1>2. PICK x, y : x = [p EXCEPT !.executed = TRUE] /\ y = [p EXCEPT !.cancelled = TRUE]
  OBVIOUS
<1>3. x \in PendingWithdrawal /\ y \in PendingWithdrawal
  BY <1>2 DEF PendingWithdrawal
<1>4. /\ x.asset = p.asset /\ x.amount = p.amount /\ x.executed
      /\ x.payments = p.payments /\ x.execute_after = p.execute_after
      /\ x.requested_at = p.requested_at
  BY <1>1, <1>2
<1>5. /\ y.asset = p.asset /\ y.amount = p.amount /\ y.executed = p.executed
      /\ y.payments = p.payments /\ y.execute_after = p.execute_after
      /\ y.requested_at = p.requested_at
  BY <1>1, <1>2
<1>6. Sound(x) /\ Sound(y)
  BY <1>4, <1>5 DEF Sound
<1> QED
  BY <1>2, <1>3, <1>4, <1>5, <1>6

\* The book of an asset after a deposit.
LEMMA CreditFacts ==
  ASSUME NEW h \in Holding, NEW n \in Nat
  PROVE  /\ [h EXCEPT !.total_in = @ + n] \in Holding
         /\ [h EXCEPT !.total_in = @ + n].total_in = h.total_in + n
         /\ [h EXCEPT !.total_in = @ + n].total_out = h.total_out
<1>1. h.total_in \in Nat /\ h.total_out \in Nat /\ h.bound \in BOOLEAN
  BY DEF Holding
<1>2. h = [total_in |-> h.total_in, total_out |-> h.total_out, bound |-> h.bound]
  BY DEF Holding
<1>3. [h EXCEPT !.total_in = @ + n]
        = [total_in |-> h.total_in + n, total_out |-> h.total_out, bound |-> h.bound]
  BY <1>2
<1> QED
  BY <1>1, <1>3 DEF Holding

\* Nothing of any asset, and n of one.
LEMMA Amount ==
  ASSUME NEW asset \in Asset, NEW n \in Nat
  PROVE  \E z \in [Asset -> Int], d \in [Asset -> Int] :
           /\ \A a \in Asset : z[a] = 0 /\ d[a] = (IF a = asset THEN n ELSE 0)
<1> DEFINE z == [a \in Asset |-> 0]
           d == [a \in Asset |-> IF a = asset THEN n ELSE 0]
<1>1. /\ z \in [Asset -> Int] /\ d \in [Asset -> Int]
      /\ \A a \in Asset : z[a] = 0 /\ d[a] = (IF a = asset THEN n ELSE 0)
  OBVIOUS
<1> HIDE DEF z, d
<1> QED
  BY <1>1

\* A payout lowers book, balance and custody by the same amount.
LEMMA PayoutAccounts ==
  ASSUME FundsOK, BooksMatchCustody, NEW asset \in Asset, NEW n \in Nat, Payout(asset, n),
         NEW a \in Asset, NEW out \in Int, out = (IF a = asset THEN n ELSE 0)
  PROVE  /\ holding'[a].total_in = holding[a].total_in - out
         /\ holding'[a].total_out = holding[a].total_out + out
         /\ custody'[a] = custody[a] - out
         /\ balance'[a] = holding'[a].total_in
<1>1. /\ custody[a] = holding[a].total_in /\ balance[a] = holding[a].total_in
      /\ holding[a] \in Holding
  BY DEF BooksMatchCustody, FundsOK
<1>2. holding[a].total_in \in Int /\ holding[a].total_out \in Int
  BY <1>1 DEF Holding
<1>3. CASE a = asset
  BY <1>1, <1>2, <1>3, PayoutFacts
<1>4. CASE a # asset
  <2>1. holding'[a] = holding[a] /\ balance'[a] = balance[a] /\ custody'[a] = custody[a]
    BY <1>4, PayoutFacts
  <2> QED
    BY <1>1, <1>2, <1>4, <2>1
<1> QED
  BY <1>3, <1>4

\* A payout of which the histories tell the source keeps the books.
LEMMA PayoutStep ==
  ASSUME FundsOK, Accounted, NEW asset \in Asset, NEW n \in Nat, Payout(asset, n),
         received' \in [Recipient -> Nat], direct' \in [Asset -> Nat],
         \A a \in Asset : /\ QueuePaid(a) \in Int /\ SchedulePaid(a) \in Int
                          /\ direct'[a] + QueuePaid(a)' + SchedulePaid(a)'
                               = direct[a] + QueuePaid(a) + SchedulePaid(a)
                                   + (IF a = asset THEN n ELSE 0)
  PROVE  FundsOK' /\ Accounted'
<1>1. /\ holding' \in [Asset -> Holding] /\ balance' \in [Asset -> Nat]
      /\ custody' \in [Asset -> Nat] /\ consumed' \in [Asset -> Nat]
  BY PayoutFacts
<1>2. FundsOK'
  BY <1>1 DEF FundsOK
<1>3. BooksMatchCustody
  BY DEF Accounted
<1>4. \A a \in Asset : holding[a].total_in \in Int /\ custody[a] \in Int
  BY DEF FundsOK, Holding
<1>5. PICK z \in [Asset -> Int], d \in [Asset -> Int] :
        \A a \in Asset : z[a] = 0 /\ d[a] = (IF a = asset THEN n ELSE 0)
  BY Amount, ZenonT(60)
<1>6. ASSUME NEW a \in Asset
      PROVE  /\ holding'[a].total_in = holding[a].total_in + z[a] - d[a]
             /\ holding'[a].total_out = holding[a].total_out + d[a]
             /\ custody'[a] = custody[a] + z[a] - d[a]
             /\ balance'[a] = holding'[a].total_in
             /\ direct'[a] + QueuePaid(a)' + SchedulePaid(a)'
                  = direct[a] + QueuePaid(a) + SchedulePaid(a) + d[a]
  <2>1. d[a] \in Int /\ d[a] = (IF a = asset THEN n ELSE 0) /\ z[a] = 0
    BY <1>5
  <2>2. /\ holding'[a].total_in = holding[a].total_in - d[a]
        /\ holding'[a].total_out = holding[a].total_out + d[a]
        /\ custody'[a] = custody[a] - d[a]
        /\ balance'[a] = holding'[a].total_in
    BY <1>3, <2>1, PayoutAccounts
  <2> QED
    BY <1>4, <2>1, <2>2
<1> QED
  BY <1>2, <1>6, AccountedStep

\* Deposits and direct payouts keep the accounts.
LEMMA DirectFlow ==
  ASSUME StorageOK, Accounted, NEW asset \in Asset, NEW n \in Nat,
         TakesIn(asset, n) \/ PaysDirectly(asset, n)
  PROVE  FundsOK' /\ QueueOK' /\ ScheduleOK' /\ Accounted'
<1>0. /\ FundsOK /\ QueueOK /\ ScheduleOK
      /\ queue \in Seq(PendingWithdrawal) /\ schedule \in Seq(MilestoneDisbursement)
  BY DEF StorageOK, QueueOK, ScheduleOK
<1>1. queue' = queue /\ schedule' = schedule
  BY DEF TakesIn, PaysDirectly
<1>2. QueueOK' /\ ScheduleOK'
  BY <1>0, <1>1 DEF QueueOK, ScheduleOK
<1>3. \A a \in Asset : /\ QueuePaid(a)' = QueuePaid(a) /\ SchedulePaid(a)' = SchedulePaid(a)
                       /\ QueuePaid(a) \in Int /\ SchedulePaid(a) \in Int
  BY <1>0, <1>1, PaidParts, PaidTyped
<1>4. /\ holding \in [Asset -> Holding] /\ custody \in [Asset -> Nat]
      /\ direct \in [Asset -> Nat] /\ balance \in [Asset -> Nat]
      /\ \A a \in Asset : custody[a] = holding[a].total_in /\ balance[a] = holding[a].total_in
  BY <1>0 DEF FundsOK, Accounted, BooksMatchCustody
<1>5. \A a \in Asset : holding[a].total_in \in Nat /\ holding[a].total_out \in Nat
  BY <1>4 DEF Holding
<1>6. PICK z \in [Asset -> Int], d \in [Asset -> Int] :
        \A a \in Asset : z[a] = 0 /\ d[a] = (IF a = asset THEN n ELSE 0)
  BY Amount, ZenonT(60)
<1>7. ASSUME TakesIn(asset, n) PROVE FundsOK' /\ Accounted'
  <2>1. PICK h \in Holding : h = [holding[asset] EXCEPT !.total_in = @ + n]
    BY <1>4, CreditFacts
  <2>2. h.total_in = holding[asset].total_in + n /\ h.total_out = holding[asset].total_out
    BY <1>4, <2>1, CreditFacts
  <2>3. holding' = [holding EXCEPT ![asset] = h]
    BY <1>4, <1>7, <2>1 DEF TakesIn
  <2>4. /\ balance' = [balance EXCEPT ![asset] = holding[asset].total_in + n]
        /\ custody' = [custody EXCEPT ![asset] = @ + n]
        /\ consumed' = consumed /\ received' = received /\ direct' = direct
    BY <1>7 DEF TakesIn
  <2>5. FundsOK'
    <3>1. holding[asset].total_in + n \in Nat /\ custody[asset] + n \in Nat
      BY <1>4, <1>5
    <3>2. holding' \in [Asset -> Holding]
      BY <1>4, <2>3
    <3>3. balance' \in [Asset -> Nat] /\ custody' \in [Asset -> Nat]
      BY <1>4, <2>4, <3>1
    <3>4. consumed \in [Asset -> Nat] /\ received \in [Recipient -> Nat]
      BY <1>0 DEF FundsOK
    <3> QED
      BY <1>4, <2>4, <3>2, <3>3, <3>4 DEF FundsOK
  <2>6. \A a \in Asset : /\ holding'[a].total_in = holding[a].total_in + d[a] - z[a]
                         /\ holding'[a].total_out = holding[a].total_out + z[a]
                         /\ custody'[a] = custody[a] + d[a] - z[a]
                         /\ balance'[a] = holding'[a].total_in
    BY <1>4, <1>5, <1>6, <2>2, <2>3, <2>4
  <2>7. \A a \in Asset : direct'[a] + QueuePaid(a)' + SchedulePaid(a)'
                           = direct[a] + QueuePaid(a) + SchedulePaid(a) + z[a]
    BY <1>3, <1>4, <1>6, <2>4
  <2> QED
    BY <1>0, <2>5, <2>6, <2>7, AccountedStep
<1>8. ASSUME PaysDirectly(asset, n) PROVE FundsOK' /\ Accounted'
  <2>1. /\ Payout(asset, n) /\ direct' = [direct EXCEPT ![asset] = @ + n]
        /\ received' \in [Recipient -> Nat]
    BY <1>8 DEF PaysDirectly, Delivered
  <2>2. direct' \in [Asset -> Nat]
    BY <1>4, <2>1
  <2>3. \A a \in Asset : direct'[a] + QueuePaid(a)' + SchedulePaid(a)'
                           = direct[a] + QueuePaid(a) + SchedulePaid(a)
                               + (IF a = asset THEN n ELSE 0)
    BY <1>3, <1>4, <2>1
  <2> QED
    BY <1>0, <1>3, <2>1, <2>2, <2>3, PayoutStep
<1> QED
  BY <1>2, <1>7, <1>8

\* Executing a request keeps the accounts.
LEMMA QueueFlow ==
  ASSUME StorageOK, Accounted, NEW id \in DOMAIN queue, PaysQueued(id)
  PROVE  FundsOK' /\ QueueOK' /\ ScheduleOK' /\ Accounted'
<1>0. /\ FundsOK /\ QueueOK /\ ScheduleOK
      /\ queue \in Seq(PendingWithdrawal) /\ schedule \in Seq(MilestoneDisbursement)
      /\ direct \in [Asset -> Nat]
  BY DEF StorageOK, QueueOK, ScheduleOK, FundsOK
<1>1. queue[id] \in PendingWithdrawal /\ Sound(queue[id]) /\ ~queue[id].executed
  BY <1>0 DEF QueueOK, PaysQueued, IsPending
<1>2. PICK p : p = [queue[id] EXCEPT !.executed = TRUE]
  OBVIOUS
<1>3. /\ p \in PendingWithdrawal /\ Sound(p) /\ p.executed
      /\ p.asset = queue[id].asset /\ p.amount = queue[id].amount
  BY <1>1, <1>2, FlagFacts
<1>4. queue' = [queue EXCEPT ![id] = p] /\ schedule' = schedule /\ direct' = direct
  BY <1>2 DEF PaysQueued
<1>5. queue' \in Seq(PendingWithdrawal) /\ DOMAIN queue' = DOMAIN queue /\ queue'[id] = p
      /\ \A i \in DOMAIN queue \ {id} : queue'[i] = queue[i]
  BY <1>0, <1>3, <1>4
<1>6. QueueOK' /\ ScheduleOK'
  BY <1>0, <1>3, <1>4, <1>5 DEF QueueOK, ScheduleOK
<1>7. queue[id].asset \in Asset /\ queue[id].amount \in Nat
  BY <1>1 DEF PendingWithdrawal
<1>8. ASSUME NEW a \in Asset
      PROVE  /\ QueuePaid(a) \in Int /\ SchedulePaid(a) \in Int
             /\ direct'[a] + QueuePaid(a)' + SchedulePaid(a)'
                  = direct[a] + QueuePaid(a) + SchedulePaid(a)
                      + (IF a = queue[id].asset THEN queue[id].amount ELSE 0)
  <2>1. Executed(queue', a)
          = Executed(queue, a) + (IF queue[id].asset = a THEN queue[id].amount ELSE 0)
    <3>1. /\ \A i \in DOMAIN queue : /\ queue'[i].asset = queue[i].asset
                                     /\ queue'[i].amount = queue[i].amount
          /\ \A i \in DOMAIN queue \ {id} : queue'[i].executed = queue[i].executed
          /\ queue'[id].executed
      BY <1>3, <1>5
    <3> QED
      BY <1>0, <1>1, <1>5, <3>1, ExecutedOnce
  <2>2. Executed(queue, a) \in Int /\ Released(schedule, a) \in Int /\ direct[a] \in Int
    BY <1>0, PaidTyped
  <2>3. SchedulePaid(a)' = SchedulePaid(a)
    BY <1>4, PaidParts
  <2>4. (IF a = queue[id].asset THEN queue[id].amount ELSE 0) \in Int
    BY <1>7
  <2>5. QueuePaid(a) = Executed(queue, a) /\ QueuePaid(a)' = Executed(queue', a)
        /\ SchedulePaid(a) = Released(schedule, a)
    BY PaidParts
  <2> QED
    BY <1>4, <2>1, <2>2, <2>3, <2>4, <2>5
<1>9. received' \in [Recipient -> Nat] /\ Payout(queue[id].asset, queue[id].amount)
  BY DEF PaysQueued, Delivered
<1>10. FundsOK' /\ Accounted'
  <2>1. PICK asset \in Asset, n \in Nat : asset = queue[id].asset /\ n = queue[id].amount
    BY <1>7
  <2> QED
    BY <1>0, <1>4, <1>8, <1>9, <2>1, PayoutStep
<1> QED
  BY <1>6, <1>10

\* Releasing a milestone keeps the accounts, the last one with the dust.
LEMMA MilestoneFlow ==
  ASSUME StorageOK, Accounted, NEW id \in DOMAIN schedule, PaysMilestone(id)
  PROVE  FundsOK' /\ QueueOK' /\ ScheduleOK' /\ Accounted'
<1>0. /\ FundsOK /\ QueueOK /\ ScheduleOK
      /\ queue \in Seq(PendingWithdrawal) /\ schedule \in Seq(MilestoneDisbursement)
      /\ direct \in [Asset -> Nat]
  BY DEF StorageOK, QueueOK, ScheduleOK, FundsOK
<1>1. PICK d, n : /\ d \in MilestoneDisbursement /\ d = schedule[id]
                  /\ n = MilestoneAmount(d)
  BY <1>0
<1>2. Divided(d) /\ d.disbursed < d.milestones /\ d.asset \in Asset
  BY <1>0, <1>1 DEF ScheduleOK, PaysMilestone, MilestoneDisbursement
<1>3. PICK e : e = [d EXCEPT !.disbursed = @ + 1]
  OBVIOUS
<1>4. /\ n \in Nat /\ e \in MilestoneDisbursement /\ Divided(e)
      /\ MilestonesPaid(e) = MilestonesPaid(d) + n
  BY <1>1, <1>2, <1>3, MilestoneFacts
<1>5. e.asset = d.asset
  BY <1>3 DEF MilestoneDisbursement
<1>6. schedule' = [schedule EXCEPT ![id] = e] /\ queue' = queue /\ direct' = direct
  BY <1>1, <1>3 DEF PaysMilestone
<1>7. schedule' \in Seq(MilestoneDisbursement) /\ DOMAIN schedule' = DOMAIN schedule
      /\ schedule'[id] = e /\ \A i \in DOMAIN schedule \ {id} : schedule'[i] = schedule[i]
  BY <1>0, <1>4, <1>6
<1>8. QueueOK' /\ ScheduleOK'
  BY <1>0, <1>4, <1>6, <1>7 DEF QueueOK, ScheduleOK
<1>9. ASSUME NEW a \in Asset
      PROVE  /\ QueuePaid(a) \in Int /\ SchedulePaid(a) \in Int
             /\ direct'[a] + QueuePaid(a)' + SchedulePaid(a)'
                  = direct[a] + QueuePaid(a) + SchedulePaid(a)
                      + (IF a = d.asset THEN n ELSE 0)
  <2>1. Released(schedule', a) = Released(schedule, a) + (IF schedule[id].asset = a THEN n ELSE 0)
    <3>1. /\ schedule'[id].asset = schedule[id].asset
          /\ MilestonesPaid(schedule'[id]) = MilestonesPaid(schedule[id]) + n
      BY <1>1, <1>4, <1>5, <1>7
    <3>2. PICK s \in Seq(MilestoneDisbursement), r \in Seq(MilestoneDisbursement) :
            s = schedule /\ r = schedule'
      BY <1>0, <1>7
    <3>3. /\ n \in Int /\ id \in DOMAIN s /\ DOMAIN r = DOMAIN s /\ r[id].asset = s[id].asset
          /\ MilestonesPaid(r[id]) = MilestonesPaid(s[id]) + n
          /\ \A i \in DOMAIN s \ {id} : r[i] = s[i]
      BY <1>4, <1>7, <3>1, <3>2
    <3>4. Released(r, a) = Released(s, a) + (IF s[id].asset = a THEN n ELSE 0)
      BY <3>3, ReleasedNext
    <3> QED
      BY <3>2, <3>4
  <2>2. Executed(queue, a) \in Int /\ Released(schedule, a) \in Int /\ direct[a] \in Int
    BY <1>0, PaidTyped
  <2>3. QueuePaid(a)' = QueuePaid(a)
    BY <1>6, PaidParts
  <2>4. (IF a = d.asset THEN n ELSE 0) \in Int
    BY <1>4
  <2>5. QueuePaid(a) = Executed(queue, a) /\ SchedulePaid(a) = Released(schedule, a)
        /\ SchedulePaid(a)' = Released(schedule', a)
    BY PaidParts
  <2> QED
    BY <1>1, <1>6, <2>1, <2>2, <2>3, <2>4, <2>5
<1>10. received' \in [Recipient -> Nat] /\ Payout(d.asset, n)
  BY <1>1 DEF PaysMilestone
<1>11. FundsOK' /\ Accounted'
  <2>1. PICK asset \in Asset : asset = d.asset
    BY <1>2
  <2> QED
    BY <1>0, <1>4, <1>6, <1>9, <1>10, <2>1, PayoutStep
<1> QED
  BY <1>8, <1>11

\* Queueing and cancelling a request keep the accounts.
LEMMA RequestFlow ==
  ASSUME StorageOK, Accounted,
         (\E p : Requests(p)) \/ (\E id \in DOMAIN queue : Cancels(id))
  PROVE  FundsOK' /\ QueueOK' /\ ScheduleOK' /\ Accounted'
<1>0. /\ FundsOK /\ QueueOK /\ ScheduleOK
      /\ queue \in Seq(PendingWithdrawal) /\ schedule \in Seq(MilestoneDisbursement)
  BY DEF StorageOK, QueueOK, ScheduleOK
<1>1. UNCHANGED <<books, schedule, direct>>
  BY DEF Requests, Cancels
<1>2. FundsOK' /\ ScheduleOK'
  BY <1>0, <1>1 DEF books, FundsOK, ScheduleOK
<1>3. QueueOK' /\ \A a : Executed(queue', a) = Executed(queue, a)
  <2>1. ASSUME NEW p, Requests(p)
        PROVE  QueueOK' /\ \A a : Executed(queue', a) = Executed(queue, a)
    <3>1. /\ p \in PendingWithdrawal /\ Sound(p) /\ ~p.executed /\ queue' = Append(queue, p)
      BY <2>1 DEF Requests
    <3>2. /\ queue' \in Seq(PendingWithdrawal) /\ DOMAIN queue \subseteq DOMAIN queue'
          /\ \A i \in DOMAIN queue : queue'[i] = queue[i]
          /\ \A i \in DOMAIN queue' \ DOMAIN queue : queue'[i] = p
      BY <1>0, <3>1
    <3>3. QueueOK'
      BY <1>0, <3>1, <3>2 DEF QueueOK
    <3> QED
      BY <1>0, <3>1, <3>2, <3>3, ExecutedKept
  <2>2. ASSUME NEW id \in DOMAIN queue, Cancels(id)
        PROVE  QueueOK' /\ \A a : Executed(queue', a) = Executed(queue, a)
    <3>1. PICK p : p = [queue[id] EXCEPT !.cancelled = TRUE]
      OBVIOUS
    <3>2. /\ p \in PendingWithdrawal /\ Sound(p) /\ p.executed = queue[id].executed
          /\ p.asset = queue[id].asset /\ p.amount = queue[id].amount
      <4>1. queue[id] \in PendingWithdrawal /\ Sound(queue[id])
        BY <1>0 DEF QueueOK
      <4> QED
        BY <3>1, <4>1, FlagFacts
    <3>3. queue' = [queue EXCEPT ![id] = p]
      BY <2>2, <3>1 DEF Cancels
    <3>4. queue' \in Seq(PendingWithdrawal) /\ DOMAIN queue' = DOMAIN queue /\ queue'[id] = p
          /\ \A i \in DOMAIN queue \ {id} : queue'[i] = queue[i]
      BY <1>0, <3>2, <3>3
    <3>5. QueueOK'
      BY <1>0, <3>2, <3>4 DEF QueueOK
    <3> QED
      BY <1>0, <3>2, <3>4, <3>5, ExecutedKept
  <2> QED
    BY <2>1, <2>2
<1>4. Accounted'
  BY <1>1, <1>3, PaidParts DEF Accounted, BooksMatchCustody, PaidOnce, books
<1> QED
  BY <1>2, <1>3, <1>4

\* An even share times the number of shares is at most the total.
LEMMA DivisionFacts ==
  ASSUME NEW t \in Nat, NEW m \in Nat, m # 0
  PROVE  t \div m \in Nat /\ (t \div m) * m <= t
  OBVIOUS

\* Binding an asset to a budget keeps its book.
LEMMA BoundFacts ==
  ASSUME NEW h \in Holding
  PROVE  /\ [h EXCEPT !.bound = TRUE] \in Holding
         /\ [h EXCEPT !.bound = TRUE].total_in = h.total_in
         /\ [h EXCEPT !.bound = TRUE].total_out = h.total_out
  BY DEF Holding

\* Configuration binds a budget and opens schedules; it pays nothing.
LEMMA ConfigurationFlow ==
  ASSUME StorageOK, Accounted, NEW caller \in Addr, Configuration(caller)
  PROVE  FundsOK' /\ QueueOK' /\ ScheduleOK' /\ Accounted'
<1> USE TreasuryAssumption
<1>0. /\ FundsOK /\ QueueOK /\ ScheduleOK
      /\ queue \in Seq(PendingWithdrawal) /\ schedule \in Seq(MilestoneDisbursement)
      /\ holding \in [Asset -> Holding]
  BY DEF StorageOK, QueueOK, ScheduleOK, FundsOK
<1>1. UNCHANGED <<balance, custody, consumed, received, queue, direct>>
  BY ConfigurationFrame
<1>2. QueueOK'
  BY <1>0, <1>1 DEF QueueOK
<1>3. CASE UNCHANGED <<holding, schedule>>
  BY <1>0, <1>1, <1>2, <1>3, PaidParts
     DEF FundsOK, ScheduleOK, Accounted, BooksMatchCustody, PaidOnce
<1>4. ASSUME NEW asset \in Asset, AllocateBudget(caller, asset)
      PROVE  FundsOK' /\ ScheduleOK' /\ Accounted'
  <2>1. PICK h : h = [holding[asset] EXCEPT !.bound = TRUE]
    OBVIOUS
  <2>2. /\ h \in Holding /\ h.total_in = holding[asset].total_in
        /\ h.total_out = holding[asset].total_out
    BY <1>0, <2>1, BoundFacts
  <2>3. holding' = [holding EXCEPT ![asset] = h] /\ schedule' = schedule
    BY <1>4, <2>1 DEF AllocateBudget
  <2>4. /\ holding' \in [Asset -> Holding]
        /\ \A a \in Asset : /\ holding'[a].total_in = holding[a].total_in
                            /\ holding'[a].total_out = holding[a].total_out
    BY <1>0, <2>2, <2>3
  <2>5. FundsOK' /\ ScheduleOK'
    BY <1>0, <1>1, <2>3, <2>4 DEF FundsOK, ScheduleOK
  <2> QED
    BY <1>1, <2>3, <2>4, <2>5, PaidParts DEF Accounted, BooksMatchCustody, PaidOnce
<1>5. ASSUME NEW asset \in Asset, NEW to \in Recipient, NEW x \in Schedules,
             InitMilestoneDisbursement(caller, asset, to, x)
      PROVE  FundsOK' /\ ScheduleOK' /\ Accounted'
  <2>1. x.total \in Nat /\ x.milestones \in Nat /\ x.milestones # 0
    BY <1>5 DEF InitMilestoneDisbursement
  <2>2. PICK n \in Nat : n = x.total \div x.milestones /\ n * x.milestones <= x.total
    BY <2>1, DivisionFacts
  <2>3. PICK d : d = [total_amount |-> x.total, milestones |-> x.milestones, disbursed |-> 0,
                      amount_per_milestone |-> n, asset |-> asset, to |-> to]
    OBVIOUS
  <2>4. schedule' = Append(schedule, d) /\ holding' = holding
    BY <1>5, <2>2, <2>3 DEF InitMilestoneDisbursement, books
  <2>5. d \in MilestoneDisbursement
    BY <1>5, <2>1, <2>2, <2>3 DEF MilestoneDisbursement
  <2>6. Divided(d)
    BY <2>1, <2>2, <2>3 DEF Divided
  <2>7. MilestonesPaid(d) = 0
    <3>1. n * 0 = 0
      BY <2>2
    <3> QED
      BY <2>1, <2>3, <3>1 DEF MilestonesPaid
  <2>8. /\ schedule' \in Seq(MilestoneDisbursement)
        /\ \A i \in DOMAIN schedule' : schedule'[i] = d \/ \E j \in DOMAIN schedule : schedule'[i] = schedule[j]
    BY <1>0, <2>4, <2>5
  <2>9. FundsOK' /\ ScheduleOK'
    BY <1>0, <1>1, <2>4, <2>6, <2>8 DEF FundsOK, ScheduleOK
  <2>10. \A a : Released(schedule', a) = Released(schedule, a)
    BY <1>0, <2>4, <2>5, <2>7, ReleasedAppend
  <2> QED
    BY <1>1, <2>4, <2>9, <2>10, PaidParts DEF Accounted, BooksMatchCustody, PaidOnce
<1>6. \/ UNCHANGED <<holding, schedule>>
      \/ \E asset \in Asset :
           \/ AllocateBudget(caller, asset)
           \/ \E to \in Recipient, x \in Schedules :
                InitMilestoneDisbursement(caller, asset, to, x)
  BY DEF Configuration, Initialize, SetRegistry, SetPolicy, SetBudget, SetMultisig,
         SetGuardian, Configure, SetWithdrawalTimeLock, AddApprovedAsset,
         RemoveApprovedAsset, SetAllowance, RemoveAllowance, books
<1> QED
  BY <1>2, <1>3, <1>4, <1>5, <1>6

-----------------------------------------------------------------------------
(* The safety theorems                                                      *)

Inv == StorageOK /\ Accounted

\* The contract starts empty.
LEMMA InvInit == Init => Inv
<1> USE TreasuryAssumption
<1> SUFFICES ASSUME Init PROVE Inv
  OBVIOUS
<1>1. ControlOK /\ LockOK
  <2>1. ControlOK
    <3>1. now \in 0..MaxTime /\ settings \in 0..MaxSettings
      BY DEF Init
    <3>2. treasury \in TreasuryRecord \cup {Unset} /\ frozen \in BOOLEAN
      BY DEF Init
    <3> QED
      BY <3>1, <3>2 DEF ControlOK
  <2>2. lock = [delay |-> 0, threshold |-> 0]
    BY DEF Init, Disabled
  <2>3. LockOK
    BY <2>2 DEF LockOK
  <2> QED
    BY <2>1, <2>3
<1>2. WhitelistOK
  <2>1. Range(<<>>) = {}
    BY DEF Range
  <2> QED
    BY <2>1 DEF Init, WhitelistOK
<1>3. FundsOK /\ AllowanceOK
  BY DEF Init, FundsOK, AllowanceOK, Holding
<1>4. QueueOK /\ ScheduleOK
  BY DEF Init, QueueOK, ScheduleOK
<1>5. BooksMatchCustody
  BY DEF Init, BooksMatchCustody
<1>6. PaidOnce
  <2> SUFFICES ASSUME NEW a \in Asset
               PROVE  holding[a].total_out = direct[a] + QueuePaid(a) + SchedulePaid(a)
    BY DEF PaidOnce
  <2>1. holding[a].total_out = 0 /\ direct[a] = 0 /\ queue = <<>> /\ schedule = <<>>
    BY DEF Init
  <2> DEFINE S == {i \in DOMAIN queue : queue[i].asset = a /\ queue[i].executed}
             T == {i \in DOMAIN schedule : schedule[i].asset = a}
             f == [i \in DOMAIN queue |-> queue[i].amount]
             g == [i \in DOMAIN schedule |-> MilestonesPaid(schedule[i])]
  <2>2. S = {} /\ T = {}
    BY <2>1
  <2>3. QueuePaid(a) = SumFunctionOnSet(f, S) /\ SchedulePaid(a) = SumFunctionOnSet(g, T)
    BY DEF QueuePaid, SchedulePaid
  <2> HIDE DEF S, T, f, g
  <2>4. QueuePaid(a) = 0 /\ SchedulePaid(a) = 0
    BY <2>2, <2>3, SumEmpty
  <2> QED
    BY <2>1, <2>4
<1> QED
  BY <1>1, <1>2, <1>3, <1>4, <1>5, <1>6 DEF Inv, StorageOK, Accounted

\* Every step preserves the invariant.
LEMMA InvStep == Inv /\ [Next]_vars => Inv'
<1> SUFFICES ASSUME StorageOK, Accounted, [Next]_vars
             PROVE  FundsOK' /\ QueueOK' /\ ScheduleOK' /\ Accounted'
  BY ControlStep, WhitelistStep, AllowanceStep, LockStep DEF Inv, StorageOK
<1>0. FundsOK /\ QueueOK /\ ScheduleOK
  BY DEF StorageOK
<1>1. CASE UNCHANGED <<books, queue, schedule, direct>>
  <2>1. FundsOK' /\ QueueOK' /\ ScheduleOK'
    BY <1>0, <1>1 DEF books, FundsOK, QueueOK, ScheduleOK
  <2> QED
    BY <1>1, <2>1, PaidParts DEF books, Accounted, BooksMatchCustody, PaidOnce
<1>2. ASSUME NEW caller \in Addr, Movement(caller)
      PROVE  FundsOK' /\ QueueOK' /\ ScheduleOK' /\ Accounted'
  BY <1>2, MovementFlows, DirectFlow, QueueFlow, MilestoneFlow, RequestFlow DEF Flow
<1>3. UNCHANGED vars \/ Tick => UNCHANGED <<books, queue, schedule, direct>>
  BY DEF vars, Tick
<1> QED
  BY <1>1, <1>2, <1>3, BreakersFrame, ConfigurationFlow DEF Next

\* The inductive invariant of the treasury: well-formed storage, accounted for.
LEMMA InvHolds == Spec => []Inv
<1> QED
  BY InvInit, InvStep, PTL DEF Spec

\* Every storage entry of the treasury keeps its type, the flags, the list
\* and the count of approved assets agree after any sequence of
\* add_approved_asset and remove_approved_asset, and no allowance is overspent.
THEOREM TreasuryTypeCorrect == Spec => []TypeOK
<1>1. Inv => TypeOK
  BY StorageTyped DEF Inv
<1> QED
  BY <1>1, InvHolds, PTL

\* The holdings, the balance entry and the tokens in custody agree, for any
\* number of assets and any interleaving of deposits and payouts.
THEOREM BooksAreCustody == Spec => []BooksMatchCustody
<1>1. Inv => BooksMatchCustody
  BY DEF Inv, Accounted
<1> QED
  BY <1>1, InvHolds, PTL

\* What left of an asset is what was paid directly, what executed requests
\* asked for and what schedules have released: no request pays twice, and a
\* schedule's remainder is paid with its last milestone.
THEOREM EverythingIsPaidOnce == Spec => []PaidOnce
<1>1. Inv => PaidOnce
  BY DEF Inv, Accounted
<1> QED
  BY <1>1, InvHolds, PTL

-----------------------------------------------------------------------------
(* Every path out is gated                                                  *)

\* Books and charges are numbers.
LEMMA HoldingTyped ==
  ASSUME FundsOK
  PROVE  \A a \in Asset : /\ holding[a].total_in \in Int /\ holding[a].total_out \in Int
                          /\ consumed[a] \in Int
<1>1. \A a \in Asset : holding[a] \in Holding /\ consumed[a] \in Nat
  BY DEF FundsOK
<1> QED
  BY <1>1 DEF Holding

\* What left in a payout is its amount, and the budget is charged with it.
LEMMA PaidByPayout ==
  ASSUME FundsOK, NEW asset \in Asset, NEW n \in Nat, Payout(asset, n)
  PROVE  /\ \A a \in Asset : Paid(a) = (IF a = asset THEN n ELSE 0)
         /\ BudgetCharged
<1> SUFFICES ASSUME NEW a \in Asset
             PROVE  /\ Paid(a) = (IF a = asset THEN n ELSE 0)
                    /\ treasury.budget /\ holding[a].bound => consumed'[a] - consumed[a] = Paid(a)
  BY DEF BudgetCharged
<1>1. holding[a].total_out \in Int /\ consumed[a] \in Int
  BY HoldingTyped
<1>2. CASE a = asset
  <2>1. /\ holding'[a].total_out = holding[a].total_out + n
        /\ treasury.budget /\ holding[a].bound => consumed'[a] = consumed[a] + n
    BY <1>2, PayoutFacts
  <2> QED
    BY <1>1, <1>2, <2>1 DEF Paid
<1>3. CASE a # asset
  <2>1. holding'[a] = holding[a] /\ consumed'[a] = consumed[a]
    BY <1>3, PayoutFacts
  <2> QED
    BY <1>1, <1>3, <2>1 DEF Paid
<1> QED
  BY <1>2, <1>3

\* A step in which no payout happens.
Idle ==
  /\ \A a \in Asset : Paid(a) = 0
  /\ consumed' = consumed /\ received' = received

\* Steps that are no payouts pay nothing.
LEMMA IdleSteps ==
  ASSUME FundsOK,
         \/ UNCHANGED vars \/ Tick
         \/ \E caller \in Addr : Configuration(caller) \/ Breakers(caller)
         \/ \E asset \in Asset, n \in Nat : TakesIn(asset, n)
         \/ \E p : Requests(p)
         \/ \E id \in DOMAIN queue : Cancels(id)
  PROVE  Idle
<1>0. holding \in [Asset -> Holding] /\ \A a \in Asset : holding[a].total_out \in Int
  BY HoldingTyped DEF FundsOK
<1>1. CASE UNCHANGED books
  BY <1>0, <1>1 DEF books, Idle, Paid
<1>2. ASSUME NEW asset \in Asset, NEW n \in Nat, TakesIn(asset, n) PROVE Idle
  <2>1. PICK h \in Holding : h = [holding[asset] EXCEPT !.total_in = @ + n]
    BY <1>0, CreditFacts
  <2>2. h.total_out = holding[asset].total_out
    BY <1>0, <2>1, CreditFacts
  <2>3. holding' = [holding EXCEPT ![asset] = h] /\ consumed' = consumed /\ received' = received
    BY <1>0, <1>2, <2>1 DEF TakesIn
  <2> QED
    BY <1>0, <2>2, <2>3 DEF Idle, Paid
<1>3. ASSUME NEW caller \in Addr, NEW asset \in Asset, AllocateBudget(caller, asset)
      PROVE  \A a \in Asset : holding'[a].total_out = holding[a].total_out
  <2>1. PICK h : h = [holding[asset] EXCEPT !.bound = TRUE]
    OBVIOUS
  <2>2. h.total_out = holding[asset].total_out
    BY <1>0, <2>1, BoundFacts
  <2>3. holding' = [holding EXCEPT ![asset] = h]
    BY <1>3, <2>1 DEF AllocateBudget
  <2> QED
    BY <1>0, <2>2, <2>3
<1>4. ASSUME NEW caller \in Addr, Configuration(caller) PROVE Idle
  <2>1. consumed' = consumed /\ received' = received
    BY <1>4, ConfigurationFrame
  <2>2. UNCHANGED holding \/ \E asset \in Asset : AllocateBudget(caller, asset)
    BY <1>4 DEF Configuration, Initialize, SetRegistry, SetPolicy, SetBudget, SetMultisig,
                SetGuardian, Configure, SetWithdrawalTimeLock, AddApprovedAsset,
                RemoveApprovedAsset, SetAllowance, RemoveAllowance,
                InitMilestoneDisbursement, books
  <2>3. \A a \in Asset : holding'[a].total_out = holding[a].total_out
    BY <1>3, <2>2
  <2> QED
    BY <1>0, <2>1, <2>3 DEF Idle, Paid
<1>5. ASSUME \/ UNCHANGED vars \/ Tick \/ \E caller \in Addr : Breakers(caller)
             \/ \E p : Requests(p) \/ \E id \in DOMAIN queue : Cancels(id)
      PROVE  UNCHANGED books
  BY <1>5, BreakersFrame DEF vars, Tick, Requests, Cancels
<1> QED
  BY <1>1, <1>2, <1>4, <1>5

\* A step that pays nothing passes no gate unasked.
LEMMA IdleGated ==
  ASSUME FundsOK, Idle
  PROVE  PausedMovesNothing /\ PolicyHonoured /\ BudgetCharged
<1>1. BudgetCharged
  BY HoldingTyped DEF Idle, BudgetCharged
<1> QED
  BY <1>1 DEF Idle, PausedMovesNothing, PolicyHonoured

\* Every step is idle or one of the three ways out.
LEMMA StepsPay ==
  ASSUME Inv, [Next]_vars
  PROVE  \/ Idle
         \/ \E asset \in Asset, n \in Nat : PaysDirectly(asset, n)
         \/ \E id \in DOMAIN queue : PaysQueued(id)
         \/ \E id \in DOMAIN schedule : PaysMilestone(id)
<1>1. FundsOK /\ StorageOK
  BY DEF Inv, StorageOK
<1>2. ASSUME NEW caller \in Addr, Movement(caller) PROVE Flow
  BY <1>1, <1>2, MovementFlows
<1> QED
  BY <1>1, <1>2, IdleSteps DEF Next, Flow

\* A milestone payout is recognized as one.
LEMMA ReleaseIsMilestone ==
  ASSUME Inv, NEW id \in DOMAIN schedule, PaysMilestone(id)
  PROVE  /\ MilestoneStep
         /\ schedule[id].asset \in Asset /\ MilestoneAmount(schedule[id]) \in Nat
<1>1. /\ schedule \in Seq(MilestoneDisbursement) /\ schedule[id] \in MilestoneDisbursement
      /\ Divided(schedule[id])
  BY DEF Inv, StorageOK, ScheduleOK
<1>2. schedule[id].asset \in Asset /\ schedule[id].disbursed \in Nat
  BY <1>1 DEF MilestoneDisbursement
<1>3. MilestoneAmount(schedule[id]) \in Nat
  BY <1>1, MilestoneFacts DEF PaysMilestone
<1>4. PICK e : e = [schedule[id] EXCEPT !.disbursed = @ + 1]
  OBVIOUS
<1>5. e.disbursed = schedule[id].disbursed + 1
  BY <1>1, <1>4 DEF MilestoneDisbursement
<1>6. schedule' = [schedule EXCEPT ![id] = e]
  BY <1>4 DEF PaysMilestone
<1>7. schedule'[id].disbursed # schedule[id].disbursed
  BY <1>1, <1>2, <1>5, <1>6
<1> QED
  BY <1>2, <1>3, <1>7 DEF MilestoneStep

\* Every queued request is well formed.
LEMMA QueueRequest ==
  ASSUME Inv, NEW id \in DOMAIN queue
  PROVE  /\ queue[id] \in PendingWithdrawal /\ Sound(queue[id])
         /\ queue[id].asset \in Asset /\ queue[id].amount \in Nat
<1>1. queue[id] \in PendingWithdrawal /\ Sound(queue[id])
  BY DEF Inv, StorageOK, QueueOK
<1> QED
  BY <1>1 DEF PendingWithdrawal

\* A request that is closed as paid was executed, by itself.
LEMMA OnlyExecutionPays ==
  ASSUME Inv, [Next]_vars, NEW i \in DOMAIN queue, queue'[i].executed, ~queue[i].executed
  PROVE  \E caller \in Addr : ExecuteWithdrawal(caller, i)
<1>0. queue \in Seq(PendingWithdrawal)
  BY DEF Inv, StorageOK, QueueOK
<1>1. CASE UNCHANGED queue
  BY <1>1
<1>2. ASSUME NEW p, queue' = Append(queue, p) PROVE FALSE
  <2>1. queue'[i] = queue[i]
    BY <1>0, <1>2
  <2> QED
    BY <2>1
<1>3. ASSUME NEW id \in DOMAIN queue, queue' = [queue EXCEPT ![id].cancelled = TRUE] PROVE FALSE
  <2>1. PICK p : p = [queue[id] EXCEPT !.cancelled = TRUE]
    OBVIOUS
  <2>2. p.executed = queue[id].executed
    BY <2>1, QueueRequest, FlagFacts
  <2>3. queue' = [queue EXCEPT ![id] = p]
    BY <1>3, <2>1
  <2> QED
    BY <1>0, <2>2, <2>3
<1>4. ASSUME NEW caller \in Addr, NEW id \in DOMAIN queue, ExecuteWithdrawal(caller, id)
      PROVE  id = i
  <2>1. queue' = [queue EXCEPT ![id].executed = TRUE]
    BY <1>4 DEF ExecuteWithdrawal
  <2> QED
    BY <1>0, <2>1
<1>5. UNCHANGED vars \/ Tick => UNCHANGED queue
  BY DEF vars, Tick
<1>6. ASSUME NEW caller \in Addr, Configuration(caller) \/ Breakers(caller)
      PROVE  UNCHANGED queue
  BY <1>6, ConfigurationFrame, BreakersFrame
<1>7. ASSUME NEW caller \in Addr, Movement(caller)
      PROVE  \/ UNCHANGED queue
             \/ \E p : queue' = Append(queue, p)
             \/ \E id \in DOMAIN queue :
                  \/ queue' = [queue EXCEPT ![id].cancelled = TRUE]
                  \/ ExecuteWithdrawal(caller, id)
  BY <1>7, ZenonT(60)
     DEF Movement, Deposit, Withdraw, QueueWithdrawal, BatchTransfer, QueueBatchTransfer,
         OpenPending, CancelWithdrawal, ReleaseNextMilestone
<1>8. ASSUME NEW caller \in Addr, Movement(caller)
      PROVE  \E c \in Addr : ExecuteWithdrawal(c, i)
  BY <1>1, <1>2, <1>3, <1>4, <1>7, <1>8
<1> QED
  BY <1>1, <1>5, <1>6, <1>8 DEF Next

\* A single request draws on the allowance in force when it settles.
LEMMA AllowanceDrawn ==
  ASSUME Inv, [Next]_vars
  PROVE  AllowanceObeyed
<1> SUFFICES ASSUME NEW i \in DOMAIN queue, NEW x,
                    x = <<treasury.admin, queue[i].to, queue[i].asset>>,
                    queue'[i].executed, ~queue[i].executed, queue[i].payments = <<>>,
                    allowance[x] # Unset
             PROVE  /\ allowance[x].expires_at # 0 => now < allowance[x].expires_at
                    /\ allowance'[x].spent = allowance[x].spent + queue[i].amount
                    /\ allowance'[x].spent <= allowance[x].limit
  BY DEF AllowanceObeyed
<1>1. PICK caller \in Addr : ExecuteWithdrawal(caller, i)
  BY OnlyExecutionPays
<1>2. /\ caller = treasury.admin
      /\ SpendAllowance(caller, queue[i].to, queue[i].asset, queue[i].amount)
  BY <1>1 DEF ExecuteWithdrawal, SettleWithdrawal, RequireAdmin
<1>3. queue[i].to \in Recipient /\ queue[i].asset \in Asset /\ queue[i].amount \in Nat
  BY QueueRequest DEF PendingWithdrawal
<1>4. x \in Addr \X Recipient \X Asset /\ x \in DOMAIN allowance
  BY <1>2, <1>3 DEF Inv, StorageOK, AllowanceOK
<1>5. allowance[x] \in Allowance
  BY <1>4 DEF Inv, StorageOK, AllowanceOK
<1>6. allowance[x].limit \in Nat /\ allowance[x].spent \in Nat
  BY <1>5 DEF Allowance
<1>7. /\ allowance[x].expires_at # 0 => now < allowance[x].expires_at
      /\ queue[i].amount <= allowance[x].limit - allowance[x].spent
      /\ allowance' = [allowance EXCEPT ![x].spent = @ + queue[i].amount]
  BY <1>2 DEF SpendAllowance
<1>8. allowance'[x] = [allowance[x] EXCEPT !.spent = @ + queue[i].amount]
  BY <1>4, <1>7
<1>9. allowance'[x].spent = allowance[x].spent + queue[i].amount
  BY <1>5, <1>8 DEF Allowance
<1> QED
  BY <1>3, <1>6, <1>7, <1>9

\* Every step asks the breaker, the policy and the budget.
LEMMA GatedStep ==
  ASSUME Inv, [Next]_vars
  PROVE  PausedMovesNothing /\ PolicyHonoured /\ BudgetCharged
<1>0. FundsOK
  BY DEF Inv, StorageOK
<1>1. CASE Idle
  BY <1>0, <1>1, IdleGated
<1>2. ASSUME NEW asset \in Asset, NEW n \in Nat, Payout(asset, n), RequireNotPaused,
             Delivered \/ MilestoneStep
      PROVE  PausedMovesNothing /\ PolicyHonoured /\ BudgetCharged
  <2>1. BudgetCharged
    BY <1>0, <1>2, PaidByPayout
  <2>2. PausedMovesNothing
    BY <1>2 DEF RequireNotPaused, PausedMovesNothing
  <2>3. PolicyHonoured
    BY <1>2 DEF Delivered, PolicyHonoured
  <2> QED
    BY <2>1, <2>2, <2>3
<1>3. ASSUME NEW asset \in Asset, NEW n \in Nat, PaysDirectly(asset, n)
      PROVE  PausedMovesNothing /\ PolicyHonoured /\ BudgetCharged
  BY <1>2, <1>3 DEF PaysDirectly
<1>4. ASSUME NEW id \in DOMAIN queue, PaysQueued(id)
      PROVE  PausedMovesNothing /\ PolicyHonoured /\ BudgetCharged
  BY <1>2, <1>4, QueueRequest DEF PaysQueued
<1>5. ASSUME NEW id \in DOMAIN schedule, PaysMilestone(id)
      PROVE  PausedMovesNothing /\ PolicyHonoured /\ BudgetCharged
  BY <1>2, <1>5, ReleaseIsMilestone DEF PaysMilestone
<1> QED
  BY <1>1, <1>3, <1>4, <1>5, StepsPay

\* Single payouts, batches, queued requests and milestones all stop while the
\* breaker is engaged and charge the budget what they move; all but the
\* milestones obey the policy, leg by leg; and a queued single request draws
\* on the allowance in force when it settles, in time and within its limit.
THEOREM PathsAreGated == Spec => EveryPathGated
<1>1. Inv /\ [Next]_vars
        => [PausedMovesNothing /\ PolicyHonoured /\ BudgetCharged /\ AllowanceObeyed]_vars
  BY GatedStep, AllowanceDrawn
<1> QED
  BY <1>1, InvHolds, PTL DEF Spec, EveryPathGated

\* What a step that pays a high amount has to show.
Waited ==
  \A a \in Asset :
    Paid(a) > 0 /\ Applies(Paid(a)) /\ ~MilestoneStep =>
      \E i \in DOMAIN queue :
        /\ queue'[i].executed /\ IsPending(queue[i])
        /\ now >= queue[i].requested_at + MinDelay
        /\ now < queue[i].expires_at

\* Every high-value payout is of a request that waited.
LEMMA WaitedStep ==
  ASSUME Inv, [Next]_vars
  PROVE  Waited
<1>0. FundsOK /\ queue \in Seq(PendingWithdrawal) /\ now \in Nat /\ MinDelay \in Nat
  BY TreasuryAssumption DEF Inv, StorageOK, QueueOK, ControlOK
<1>1. CASE Idle
  BY <1>1 DEF Idle, Waited
<1>2. ASSUME NEW asset \in Asset, NEW n \in Nat, PaysDirectly(asset, n) PROVE Waited
  <2>1. ~Applies(n) /\ \A a \in Asset : Paid(a) = (IF a = asset THEN n ELSE 0)
    BY <1>0, <1>2, PaidByPayout DEF PaysDirectly
  <2> SUFFICES ASSUME NEW a \in Asset, Paid(a) > 0, Applies(Paid(a)) PROVE FALSE
    BY DEF Waited
  <2>2. Paid(a) = n
    BY <2>1
  <2> QED
    BY <2>1, <2>2 DEF Applies
<1>3. ASSUME NEW id \in DOMAIN queue, PaysQueued(id) PROVE Waited
  <2>1. /\ IsPending(queue[id]) /\ now < queue[id].expires_at /\ now >= queue[id].execute_after
        /\ queue' = [queue EXCEPT ![id].executed = TRUE]
    BY <1>3 DEF PaysQueued
  <2>2. queue[id] \in PendingWithdrawal /\ Sound(queue[id])
    BY QueueRequest
  <2>3. queue[id].execute_after \in Nat /\ queue[id].requested_at \in Nat
    BY <2>2 DEF PendingWithdrawal
  <2>4. now >= queue[id].requested_at + MinDelay
    BY <1>0, <2>1, <2>2, <2>3 DEF Sound
  <2>5. PICK p : p = [queue[id] EXCEPT !.executed = TRUE]
    OBVIOUS
  <2>6. queue'[id] = p /\ p.executed
    BY <1>0, <2>1, <2>2, <2>5, FlagFacts
  <2> QED
    BY <2>1, <2>4, <2>6 DEF Waited
<1>4. ASSUME NEW id \in DOMAIN schedule, PaysMilestone(id) PROVE Waited
  BY <1>4, ReleaseIsMilestone DEF Waited
<1> QED
  BY <1>1, <1>2, <1>3, <1>4, StepsPay

\* While the time lock is on, only a request that has waited the minimum
\* delay since it was queued, and has not expired, pays an amount that
\* reaches the threshold, also when the lock was reconfigured in between and
\* when the amount is the sum of a batch.
THEOREM HighValueWaits == Spec => HighValueWaited
<1>1. Inv /\ [Next]_vars => [Waited]_vars
  BY WaitedStep
<1>2. [][Waited]_vars => HighValueWaited
  BY PTL DEF Waited, HighValueWaited
<1> QED
  BY <1>1, <1>2, InvHolds, PTL DEF Spec
=============================================================================
