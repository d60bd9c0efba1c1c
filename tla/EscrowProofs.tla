---------------------------- MODULE EscrowProofs ----------------------------
(* Machine-checked proofs about Escrow, for every value of its constants.   *)
EXTENDS EscrowVault, SumProofs

-----------------------------------------------------------------------------
(* Asset lists                                                              *)

\* The total of an asset list is a number, at least each amount in it; it is
\* the amount of the only asset when nothing else is listed.
LEMMA Totals ==
  ASSUME NEW d \in [Token -> Nat]
  PROVE  /\ TotalAmount(d) \in Nat
         /\ \A t \in Token : d[t] <= TotalAmount(d)
         /\ \A t \in Token : (\A u \in Token \ {t} : d[u] = 0) => TotalAmount(d) = d[t]
<1> USE DepositsAssumption
<1>1. TotalAmount(d) = SumFunctionOnSet(d, Token)
  BY DEF TotalAmount, SumFunction
<1>2. SumFunctionOnSet(d, Token) \in Nat
  BY SumNat
<1>3. ASSUME NEW t \in Token
      PROVE  /\ SumFunctionOnSet(d, Token) = d[t] + SumFunctionOnSet(d, Token \ {t})
             /\ SumFunctionOnSet(d, Token \ {t}) \in Nat
             /\ (\A u \in Token \ {t} : d[u] = 0) => SumFunctionOnSet(d, Token \ {t}) = 0
  <2>1. IsFiniteSet(Token \ {t})
    BY FS_RemoveElement
  <2>2. SumFunctionOnSet(d, Token) = d[t] + SumFunctionOnSet(d, Token \ {t})
    BY SumWithout
  <2>3. SumFunctionOnSet(d, Token \ {t}) \in Nat
    BY <2>1, SumNat
  <2>4. (\A u \in Token \ {t} : d[u] = 0) => SumFunctionOnSet(d, Token \ {t}) = 0
    BY <2>1, SumZero
  <2> QED
    BY <2>2, <2>3, <2>4
<1> DEFINE n == TotalAmount(d)
           rest(t) == SumFunctionOnSet(d, Token \ {t})
<1>4. n \in Nat
  BY <1>1, <1>2
<1>5. \A t \in Token : /\ n = d[t] + rest(t) /\ rest(t) \in Nat
                       /\ (\A u \in Token \ {t} : d[u] = 0) => rest(t) = 0
  BY <1>1, <1>3
<1> HIDE DEF n, rest
<1>6. \A t \in Token : d[t] <= n /\ ((\A u \in Token \ {t} : d[u] = 0) => n = d[t])
  BY <1>4, <1>5
<1> QED
  BY <1>4, <1>6 DEF n

-----------------------------------------------------------------------------
(* Type correctness                                                         *)

\* Fund stores the sum of a list that was checked when the escrow was
\* initialized, possibly much earlier: the list is still one of Deposits.
CreatedIsOffered ==
  \A id \in 1..count : escrow[id].state = "Created" => escrow[id].assets \in Deposits

\* Every stored escrow lists an asset.
ListsAnAsset == \A id \in 1..count : \E t \in Token : escrow[id].assets[t] > 0

TypeInv == TypeOK /\ CreatedIsOffered /\ ListsAnAsset

\* A record built by a creation entrypoint is well typed.
LEMMA NewEscrowType ==
  ASSUME NEW s \in Addr, NEW r \in Addr, NEW a \in Addr, NEW d \in [Token -> Nat],
         NEW state \in EscrowState, NEW deadline \in Nat, NEW grace \in Nat,
         NEW window \in Nat, NEW funded \in Nat,
         NEW schedule \in [release_type: {"None", "Cliff", "Linear"},
                           start_time: Nat, cliff_time: Nat, end_time: Nat],
         NEW o \in [signers: SUBSET Key, threshold: Nat]
  PROVE  NewEscrow(s, r, a, d, state, deadline, grace, window, funded, schedule, o)
           \in EscrowRecord
  BY DEF NewEscrow, EscrowRecord

\* Storing a well-typed record under the next id preserves the invariant.
LEMMA StoreType ==
  ASSUME TypeInv, NEW e \in EscrowRecord, NEW cond \in ReleaseCondition,
         NEW set \in MilestoneSet, Store(e, cond, set),
         e.state = "Created" => e.assets \in Deposits,
         \E t \in Token : e.assets[t] > 0,
         custody' \in [Token -> Nat]
  PROVE  TypeInv'
<1>1. count' = count + 1 /\ count' \in Nat
  BY DEF Store, TypeInv, TypeOK
<1>2. Nothing \in [Token -> Nat]
  BY DEF Nothing
<1>3. /\ escrow' \in [1..count' -> EscrowRecord]
      /\ condition' \in [1..count' -> ReleaseCondition]
      /\ milestones' \in [1..count' -> MilestoneSet]
      /\ toRecipient' \in [1..count' -> [Token -> Nat]]
      /\ toSender' \in [1..count' -> [Token -> Nat]]
  BY <1>1, <1>2 DEF Store, TypeInv, TypeOK, Extend
<1>4. CreatedIsOffered'
  BY <1>1 DEF Store, TypeInv, TypeOK, CreatedIsOffered, Extend
<1>5. ListsAnAsset'
  <2> SUFFICES ASSUME NEW id \in 1..(count + 1)
               PROVE  \E t \in Token : escrow'[id].assets[t] > 0
    BY <1>1 DEF ListsAnAsset
  <2>1. count \in Nat /\ escrow'[id] = IF id <= count THEN escrow[id] ELSE e
    BY DEF Store, Extend, TypeInv, TypeOK
  <2> QED
    BY <2>1 DEF TypeInv, ListsAnAsset
<1> QED
  BY <1>1, <1>3, <1>4, <1>5 DEF Store, TypeInv, TypeOK

\* Every creation entrypoint stores a well-typed record.
LEMMA CreationType == TypeInv /\ Creation => TypeInv'
<1> SUFFICES ASSUME TypeInv, Creation PROVE TypeInv'
  OBVIOUS
<1> USE DepositsAssumption, ClockAssumption, InputsAssumption
<1> PICK p \in Parties, deadline \in Deadlines :
      LET s == p.sender
          r == p.recipient
          a == p.arbiter
      IN
      \/ \E d \in Deposits, grace \in GracePeriods, window \in RefundWindows, o \in Overrides :
           \/ Create(s, r, a, d, deadline, grace, window, o)
           \/ \E c \in Conditions :
                CreateWithReleaseCondition(s, r, a, d, deadline, grace, window, o, c)
      \/ \E d \in Deposits : CreateTimelock(s, r, a, d, deadline)
      \/ \E d \in Deposits, schedule \in Schedules :
           CreateScheduled(s, r, a, d, schedule, deadline)
      \/ \E d \in Deposits, grace \in GracePeriods :
           InitializeTimelock(s, r, a, d, deadline, grace)
      \/ \E t \in Token, amount \in Amounts, weights \in MilestoneSpecs :
           DepositWithMilestones(s, r, a, t, amount, deadline, weights)
  BY DEF Creation
<1> DEFINE s == p.sender
           r == p.recipient
           a == p.arbiter
<1>1. s \in Addr /\ r \in Addr /\ a \in Addr /\ deadline \in Nat /\ now \in Nat
  BY DEF TypeInv, TypeOK
<1>2. /\ NoCondition \in ReleaseCondition
      /\ NoMilestones \in MilestoneSet
      /\ NoOverride \in [signers: SUBSET Key, threshold: Nat]
      /\ NoSchedule \in [release_type: {"None", "Cliff", "Linear"},
                         start_time: Nat, cliff_time: Nat, end_time: Nat]
  <2>1. <<>> \in Seq(Milestone)
    OBVIOUS
  <2> QED
    BY <2>1 DEF NoCondition, ReleaseCondition, NoMilestones, MilestoneSet,
                NoOverride, NoSchedule
<1> \A d \in Deposits : TotalAmount(d) \in Nat
  BY Totals
<1>3. ASSUME NEW d \in [Token -> Nat], Pull(d) PROVE custody' \in [Token -> Nat]
  BY <1>3 DEF Pull, TypeInv, TypeOK
<1>4. ASSUME NEW d \in Deposits, NEW grace \in GracePeriods, NEW window \in RefundWindows,
             NEW o \in Overrides, NEW cond \in ReleaseCondition,
             CreateWithRefundWindow(s, r, a, d, deadline, grace, window, o, cond)
      PROVE  TypeInv'
  <2> DEFINE e == NewEscrow(s, r, a, d, "Funded", deadline, grace, window,
                            TotalAmount(d), NoSchedule, o)
  <2>1. e \in EscrowRecord
    BY <1>1, <1>2, NewEscrowType DEF EscrowState
  <2>2. e.state = "Funded" /\ \E t \in Token : e.assets[t] > 0
    BY <1>4 DEF NewEscrow, CreateWithRefundWindow, ValidateAssets, Listed
  <2>3. custody' \in [Token -> Nat] /\ Store(e, cond, NoMilestones)
    BY <1>3, <1>4 DEF CreateWithRefundWindow
  <2> QED
    BY <1>2, <2>1, <2>2, <2>3, StoreType
<1>5. ASSUME NEW d \in Deposits, NEW grace \in GracePeriods, NEW window \in RefundWindows,
             NEW o \in Overrides,
             \/ Create(s, r, a, d, deadline, grace, window, o)
             \/ \E c \in Conditions :
                  CreateWithReleaseCondition(s, r, a, d, deadline, grace, window, o, c)
      PROVE  TypeInv'
  <2>1. CASE Create(s, r, a, d, deadline, grace, window, o)
    BY <1>2, <1>4, <2>1 DEF Create
  <2>2. ASSUME NEW c \in Conditions,
               CreateWithReleaseCondition(s, r, a, d, deadline, grace, window, o, c)
        PROVE  TypeInv'
    <3> DEFINE cond == [participants |-> c.participants, threshold |-> c.threshold,
                        approvals |-> 0, by |-> {}]
    <3>1. cond \in ReleaseCondition
      BY DEF ReleaseCondition
    <3>2. CreateWithRefundWindow(s, r, a, d, deadline, grace, window, o, cond)
      BY <2>2 DEF CreateWithReleaseCondition
    <3> QED
      BY <1>4, <3>1, <3>2
  <2> QED
    BY <1>5, <2>1, <2>2
<1>6. ASSUME NEW d \in Deposits, CreateTimelock(s, r, a, d, deadline)
      PROVE  TypeInv'
  <2> DEFINE e == NewEscrow(s, r, a, d, "Funded", deadline, 0, 0, TotalAmount(d),
                            BulletAt(now, deadline), NoOverride)
  <2>1. e \in EscrowRecord
    <3>1. BulletAt(now, deadline) \in [release_type: {"None", "Cliff", "Linear"},
                                       start_time: Nat, cliff_time: Nat, end_time: Nat]
      BY <1>1 DEF BulletAt
    <3> QED
      BY <1>1, <1>2, <3>1, NewEscrowType DEF EscrowState
  <2>2. e.state = "Funded" /\ \E t \in Token : e.assets[t] > 0
    BY <1>6 DEF NewEscrow, CreateTimelock, ValidateAssets, Listed
  <2>3. custody' \in [Token -> Nat] /\ Store(e, NoCondition, NoMilestones)
    BY <1>3, <1>6 DEF CreateTimelock
  <2> QED
    BY <1>2, <2>1, <2>2, <2>3, StoreType
<1>7. ASSUME NEW d \in Deposits, NEW schedule \in Schedules,
             CreateScheduled(s, r, a, d, schedule, deadline)
      PROVE  TypeInv'
  <2> DEFINE eff == IF deadline = 0 THEN schedule.end_time ELSE deadline
             e == NewEscrow(s, r, a, d, "Funded", eff, 0, 0, TotalAmount(d),
                            schedule, NoOverride)
  <2>1. e \in EscrowRecord
    <3>1. eff \in Nat
      BY <1>1
    <3> QED
      BY <1>1, <1>2, <3>1, NewEscrowType DEF EscrowState
  <2>2. e.state = "Funded" /\ \E t \in Token : e.assets[t] > 0
    BY <1>7 DEF NewEscrow, CreateScheduled, ValidateAssets, Listed
  <2>3. custody' \in [Token -> Nat] /\ Store(e, NoCondition, NoMilestones)
    BY <1>3, <1>7 DEF CreateScheduled
  <2> QED
    BY <1>2, <2>1, <2>2, <2>3, StoreType
<1>8. ASSUME NEW d \in Deposits, NEW grace \in GracePeriods,
             InitializeTimelock(s, r, a, d, deadline, grace)
      PROVE  TypeInv'
  <2> DEFINE e == NewEscrow(s, r, a, d, "Created", deadline, grace, 0, 0,
                            BulletAt(now, deadline), NoOverride)
  <2>1. e \in EscrowRecord
    <3>1. BulletAt(now, deadline) \in [release_type: {"None", "Cliff", "Linear"},
                                       start_time: Nat, cliff_time: Nat, end_time: Nat]
      BY <1>1 DEF BulletAt
    <3> QED
      BY <1>1, <1>2, <3>1, NewEscrowType DEF EscrowState
  <2>2. e.assets \in Deposits /\ \E t \in Token : e.assets[t] > 0
    BY <1>8 DEF NewEscrow, InitializeTimelock, ValidateAssets, Listed
  <2>3. custody' \in [Token -> Nat] /\ Store(e, NoCondition, NoMilestones)
    BY <1>8 DEF InitializeTimelock, TypeInv, TypeOK
  <2> QED
    BY <1>2, <2>1, <2>2, <2>3, StoreType
<1>9. ASSUME NEW t \in Token, NEW amount \in Amounts, NEW weights \in MilestoneSpecs,
             DepositWithMilestones(s, r, a, t, amount, deadline, weights)
      PROVE  TypeInv'
  <2> DEFINE d == [Nothing EXCEPT ![t] = amount]
             item(bps) == [release_bps |-> bps, status |-> "Pending"]
             e == NewEscrow(s, r, a, d, "Funded", deadline, 0, 0, amount,
                            NoSchedule, NoOverride)
             set == [items |-> [i \in 1..Len(weights) |-> item(weights[i])],
                     released_amount |-> 0, cancelled |-> FALSE]
  <2>1. amount \in Nat /\ d \in [Token -> Nat]
    BY <1>9 DEF DepositWithMilestones, Nothing
  <2>2. e \in EscrowRecord
    BY <1>1, <1>2, <2>1, NewEscrowType DEF EscrowState
  <2>3. e.state = "Funded" /\ e.assets[t] > 0
    BY <1>9 DEF NewEscrow, DepositWithMilestones, Nothing
  <2>4. set \in MilestoneSet
    <3>1. weights \in Seq(Nat)
      OBVIOUS
    <3>2. [i \in 1..Len(weights) |-> item(weights[i])]
            \in Seq(Milestone)
      BY <3>1 DEF MilestoneStatus, Milestone
    <3> QED
      BY <3>2 DEF MilestoneSet
  <2>5. custody' \in [Token -> Nat] /\ Store(e, NoCondition, set)
    BY <1>3, <1>9, <2>1 DEF DepositWithMilestones
  <2> QED
    BY <1>2, <2>2, <2>3, <2>4, <2>5, StoreType
<1> QED
  BY <1>5, <1>6, <1>7, <1>8, <1>9

\* Moving a record or a milestone to another state keeps its type.
LEMMA StateUpdate ==
  ASSUME NEW e \in EscrowRecord, NEW st \in EscrowState
  PROVE  /\ [e EXCEPT !.state = st] \in EscrowRecord
         /\ [e EXCEPT !.state = st].assets = e.assets
         /\ [e EXCEPT !.state = st].state = st
  BY DEF EscrowRecord

\* Changing a milestone's status keeps its type.
LEMMA StatusUpdate ==
  ASSUME NEW m \in Milestone, NEW st \in MilestoneStatus
  PROVE  [m EXCEPT !.status = st] \in Milestone
  BY DEF Milestone

\* Replacing the list of milestones keeps a milestone set's type.
LEMMA ItemsUpdate ==
  ASSUME NEW set \in MilestoneSet, NEW items \in Seq(Milestone)
  PROVE  [set EXCEPT !.items = items] \in MilestoneSet
  BY DEF MilestoneSet

\* Freezing a milestone set keeps its type.
LEMMA CancelledUpdate ==
  ASSUME NEW set \in MilestoneSet
  PROVE  [set EXCEPT !.cancelled = TRUE] \in MilestoneSet
  BY DEF MilestoneSet

\* Counting a payout on a milestone set keeps its type.
LEMMA PayoutUpdate ==
  ASSUME NEW set \in MilestoneSet, NEW n \in Nat
  PROVE  [set EXCEPT !.released_amount = @ + n] \in MilestoneSet
<1>1. set.released_amount + n \in Nat
  BY DEF MilestoneSet
<1> QED
  BY <1>1 DEF MilestoneSet

\* Recording a sign-off keeps a release condition's type.
LEMMA ApprovalUpdate ==
  ASSUME NEW c \in ReleaseCondition, NEW who \in Addr
  PROVE  [c EXCEPT !.approvals = @ + 1, !.by = @ \cup {who}] \in ReleaseCondition
<1>1. c.approvals + 1 \in Nat /\ c.by \cup {who} \in SUBSET Addr
  BY DEF ReleaseCondition
<1> QED
  BY <1>1 DEF ReleaseCondition

\* Recording an override nonce keeps a record's type and its assets.
LEMMA NonceUpdate ==
  ASSUME NEW e \in EscrowRecord, NEW nonce \in Nat
  PROVE  /\ [e EXCEPT !.override_nonce = nonce] \in EscrowRecord
         /\ [e EXCEPT !.override_nonce = nonce].assets = e.assets
  BY DEF EscrowRecord

\* Rewriting one record leaves the others as they are.
LEMMA Rewriting ==
  ASSUME escrow \in [1..count -> EscrowRecord], NEW id \in 1..count, NEW f \in EscrowRecord,
         f.assets = escrow[id].assets, f.state # "Created",
         escrow' = [escrow EXCEPT ![id] = f]
  PROVE  /\ escrow' \in [1..count -> EscrowRecord]
         /\ \A j \in 1..count :
              /\ escrow'[j].assets = escrow[j].assets
              /\ escrow'[j].state = "Created" => escrow[j].state = "Created"
  OBVIOUS

\* What is claimable is a number, whatever the schedule.
LEMMA ClaimableInt ==
  ASSUME NEW e \in EscrowRecord, NEW time \in Nat
  PROVE  ClaimableAmount(e, time) \in Int
<1>1. VestedAmount(e.funded_amount, e.schedule, time) \in Int
  BY DEF VestedAmount, EscrowRecord
<1> QED
  BY <1>1 DEF ClaimableAmount, EscrowRecord

\* A payout the contract can cover leaves well-typed balances.
LEMMA PayType ==
  ASSUME TypeInv, NEW id \in 1..count, NEW amounts,
         PayRecipient(id, amounts) \/ PaySender(id, amounts)
  PROVE  /\ custody' \in [Token -> Nat]
         /\ toRecipient' \in [1..count -> [Token -> Nat]]
         /\ toSender' \in [1..count -> [Token -> Nat]]
<1>1. custody \in [Token -> Nat]
  BY DEF TypeInv, TypeOK
<1>2. \A t \in Token : amounts[t] \in 0..custody[t]
  BY DEF PayRecipient, PaySender
<1>3. \A t \in Token : amounts[t] \in Nat /\ custody[t] - amounts[t] \in Nat
  BY <1>1, <1>2
<1>4. CASE PayRecipient(id, amounts)
  <2>1. toRecipient[id] \in [Token -> Nat] /\ toRecipient \in [1..count -> [Token -> Nat]]
    BY DEF TypeInv, TypeOK
  <2>2. [t \in Token |-> toRecipient[id][t] + amounts[t]] \in [Token -> Nat]
    BY <1>3, <2>1
  <2> QED
    BY <1>3, <1>4, <2>1, <2>2 DEF PayRecipient, TypeInv, TypeOK
<1>5. CASE PaySender(id, amounts)
  <2>1. toSender[id] \in [Token -> Nat] /\ toSender \in [1..count -> [Token -> Nat]]
    BY DEF TypeInv, TypeOK
  <2>2. [t \in Token |-> toSender[id][t] + amounts[t]] \in [Token -> Nat]
    BY <1>3, <2>1
  <2> QED
    BY <1>3, <1>5, <2>1, <2>2 DEF PaySender, TypeInv, TypeOK
<1> QED
  BY <1>4, <1>5

\* A step that keeps every escrow it touches well typed and leaves no new
\* escrow Created preserves the invariant.
LEMMA UpdateType ==
  ASSUME TypeInv, UNCHANGED registry,
         escrow' \in [1..count -> EscrowRecord],
         \A id \in 1..count :
           /\ escrow'[id].assets = escrow[id].assets
           /\ escrow'[id].state = "Created" => escrow[id].state = "Created",
         condition' \in [1..count -> ReleaseCondition],
         milestones' \in [1..count -> MilestoneSet],
         custody' \in [Token -> Nat],
         toRecipient' \in [1..count -> [Token -> Nat]],
         toSender' \in [1..count -> [Token -> Nat]]
  PROVE  TypeInv'
  BY DEF TypeInv, TypeOK, CreatedIsOffered, ListsAnAsset, registry

\* Every operation on an existing escrow preserves the invariant.
LEMMA OperationType ==
  ASSUME TypeInv, NEW id \in 1..count, Operation(id)
  PROVE  TypeInv'
<1> USE DepositsAssumption, ClockAssumption, InputsAssumption
<1> DEFINE e == escrow[id]
<1>1. /\ escrow \in [1..count -> EscrowRecord]
      /\ condition \in [1..count -> ReleaseCondition]
      /\ milestones \in [1..count -> MilestoneSet]
      /\ custody \in [Token -> Nat]
      /\ toRecipient \in [1..count -> [Token -> Nat]]
      /\ toSender \in [1..count -> [Token -> Nat]]
      /\ e \in EscrowRecord
      /\ now \in Nat
  BY DEF TypeInv, TypeOK
<1>2. ASSUME NEW st \in EscrowState \ {"Created"}, escrow' = [escrow EXCEPT ![id].state = st]
      PROVE  /\ escrow' \in [1..count -> EscrowRecord]
             /\ \A j \in 1..count :
                  /\ escrow'[j].assets = escrow[j].assets
                  /\ escrow'[j].state = "Created" => escrow[j].state = "Created"
  <2> DEFINE f == [e EXCEPT !.state = st]
  <2>1. f \in EscrowRecord /\ f.assets = e.assets /\ f.state = st
    BY <1>1, StateUpdate
  <2>2. escrow' = [escrow EXCEPT ![id] = f]
    BY <1>2
  <2> HIDE DEF f
  <2> QED
    BY <1>1, <2>1, <2>2
<1>3. ASSUME ReturnRemaining(id), UNCHANGED milestones PROVE TypeInv'
  BY <1>1, <1>2, <1>3, PayType, UpdateType DEF ReturnRemaining, EscrowState
<1>4. ASSUME NEW amount \in Int, amount > 0, PayVested(id, amount),
             UNCHANGED <<registry, condition, milestones>>
      PROVE  TypeInv'
  <2>1. e.released_amount + amount \in Nat
    BY <1>1, <1>4 DEF EscrowRecord
  <2>2. /\ escrow' \in [1..count -> EscrowRecord]
        /\ \A j \in 1..count :
             /\ escrow'[j].assets = escrow[j].assets
             /\ escrow'[j].state = "Created" => escrow[j].state = "Created"
    <3>1. PICK n \in Nat, st \in EscrowState :
            /\ n = e.released_amount + amount
            /\ st = IF e.released_amount + amount = e.funded_amount THEN "Released" ELSE "Funded"
      BY <2>1 DEF EscrowState
    <3> DEFINE f == [[e EXCEPT !.released_amount = n] EXCEPT !.state = st]
    <3>2. f \in EscrowRecord /\ f.assets = e.assets /\ f.state = st
      BY <1>1 DEF EscrowRecord
    <3>3. escrow' = [escrow EXCEPT ![id] = f]
      BY <1>1, <1>4, <3>1, <3>2 DEF PayVested
    <3> HIDE DEF f
    <3>4. f.state # "Created"
      BY <3>1, <3>2
    <3> QED
      BY <1>1, <3>2, <3>3, <3>4, Rewriting
  <2> QED
    BY <1>1, <1>4, <2>2, PayType, UpdateType DEF PayVested
<1>5. CASE Expire(id)
  BY <1>1, <1>2, <1>5, UpdateType DEF Expire, EscrowState, ledger
<1>6. ASSUME NEW nonce \in Nonces, NEW signed \in SUBSET Key, OverrideRelease(id, nonce, signed)
      PROVE  TypeInv'
  <2>1. /\ escrow' \in [1..count -> EscrowRecord]
        /\ \A j \in 1..count :
             /\ escrow'[j].assets = escrow[j].assets
             /\ escrow'[j].state = "Created" => escrow[j].state = "Created"
    <3> DEFINE f == [e EXCEPT !.override_nonce = nonce]
               g == [f EXCEPT !.state = "Released"]
    <3>1. nonce \in Nat
      OBVIOUS
    <3>2. f \in EscrowRecord /\ f.assets = e.assets
      BY <1>1, <3>1, NonceUpdate
    <3>3. g \in EscrowRecord /\ g.assets = e.assets /\ g.state = "Released"
      <4> HIDE DEF f
      <4> QED
        BY <3>2, StateUpdate DEF EscrowState
    <3>4. escrow' = [escrow EXCEPT ![id] = g]
      BY <1>6 DEF OverrideRelease, CanOverride
    <3> HIDE DEF g
    <3> QED
      BY <1>1, <3>3, <3>4
  <2> QED
    BY <1>1, <1>6, <2>1, PayType, UpdateType DEF OverrideRelease, CanOverride
<1>7. ASSUME NEW caller \in Addr, Fund(caller, id) PROVE TypeInv'
  <2>1. e.assets \in Deposits /\ TotalAmount(e.assets) \in Nat
    BY <1>7, Totals DEF Fund, TypeInv, CreatedIsOffered
  <2>2. /\ escrow' \in [1..count -> EscrowRecord]
        /\ \A j \in 1..count :
             /\ escrow'[j].assets = escrow[j].assets
             /\ escrow'[j].state = "Created" => escrow[j].state = "Created"
    <3>1. PICK n \in Nat, st \in EscrowState : n = TotalAmount(e.assets) /\ st = "Funded"
      BY <2>1 DEF EscrowState
    <3> DEFINE f == [[e EXCEPT !.state = st] EXCEPT !.funded_amount = n]
    <3>2. f \in EscrowRecord /\ f.assets = e.assets /\ f.state = st
      BY <1>1 DEF EscrowRecord
    <3>3. escrow' = [escrow EXCEPT ![id] = f]
      BY <1>1, <1>7, <3>1, <3>2 DEF Fund
    <3> HIDE DEF f
    <3>4. f.state # "Created"
      BY <3>1, <3>2
    <3> QED
      BY <1>1, <3>2, <3>3, <3>4, Rewriting
  <2>3. custody' \in [Token -> Nat]
    BY <1>1, <1>7, <2>1 DEF Fund, Pull
  <2> QED
    BY <1>1, <1>7, <2>2, <2>3, UpdateType DEF Fund
<1>8. ASSUME NEW caller \in Addr, ApproveRelease(caller, id) PROVE TypeInv'
  <2>1. condition' \in [1..count -> ReleaseCondition]
    <3> DEFINE c == [condition[id] EXCEPT !.approvals = @ + 1, !.by = @ \cup {caller}]
    <3>1. condition[id] \in ReleaseCondition
      BY <1>1
    <3>2. c \in ReleaseCondition
      BY <3>1, ApprovalUpdate
    <3>3. condition' = [condition EXCEPT ![id] = c]
      BY <1>8 DEF ApproveRelease
    <3> HIDE DEF c
    <3> QED
      BY <1>1, <3>2, <3>3
  <2> QED
    BY <1>1, <1>8, <2>1, UpdateType DEF ApproveRelease, ledger
<1>9. ASSUME NEW caller \in Addr, NEW amount \in Amounts, Withdraw(caller, id, amount)
      PROVE  TypeInv'
  BY <1>4, <1>9 DEF Withdraw, CanWithdraw
<1>10. ASSUME NEW caller \in Addr, Claim(caller, id) PROVE TypeInv'
  <2>1. CASE ClaimFunded(caller, id)
    <3> DEFINE claimable == IF Scheduled(e.schedule) THEN ClaimableAmount(e, now) ELSE Remaining(e)
    <3>1. claimable > 0 /\ PayVested(id, claimable) /\ UNCHANGED <<registry, condition, milestones>>
      BY <2>1 DEF ClaimFunded, CanClaimFunded, Claimable
    <3>2. claimable \in Int
      <4>1. ClaimableAmount(e, now) \in Int
        BY <1>1, ClaimableInt
      <4>2. Remaining(e) \in Int
        BY <1>1 DEF Remaining, EscrowRecord
      <4> QED
        BY <4>1, <4>2
    <3> QED
      BY <1>4, <3>1, <3>2
  <2>2. CASE ClaimCreated(caller, id)
    BY <1>1, <1>2, <2>2, PayType, UpdateType DEF ClaimCreated, CanClaimCreated, EscrowState
  <2> QED
    BY <1>10, <2>1, <2>2 DEF Claim
<1>11. ASSUME NEW caller \in Addr, NEW amount \in Amounts, Release(caller, id, amount)
       PROVE  TypeInv'
  <2>1. /\ escrow' \in [1..count -> EscrowRecord]
        /\ \A j \in 1..count :
             /\ escrow'[j].assets = escrow[j].assets
             /\ escrow'[j].state = "Created" => escrow[j].state = "Created"
    <3>1. PICK n \in Nat, st \in EscrowState : n = e.funded_amount /\ st = "Released"
      BY <1>1 DEF EscrowState, EscrowRecord
    <3> DEFINE f == [[e EXCEPT !.released_amount = n] EXCEPT !.state = st]
    <3>2. f \in EscrowRecord /\ f.assets = e.assets /\ f.state = st
      BY <1>1 DEF EscrowRecord
    <3>3. escrow' = [escrow EXCEPT ![id] = f]
      BY <1>1, <1>11, <3>1, <3>2 DEF Release, CanRelease
    <3> HIDE DEF f
    <3>4. f.state # "Created"
      BY <3>1, <3>2
    <3> QED
      BY <1>1, <3>2, <3>3, <3>4, Rewriting
  <2> QED
    BY <1>1, <1>11, <2>1, PayType, UpdateType DEF Release, CanRelease
<1>12. ASSUME NEW caller \in Addr,
              Refund(caller, id) \/ RefundTimelock(caller, id) \/ Reclaim(caller, id)
       PROVE  TypeInv'
  BY <1>3, <1>12 DEF Refund, CanRefund, RefundTimelock, CanRefundTimelock, Reclaim
<1>13. ASSUME NEW caller \in Addr, Cancel(caller, id) PROVE TypeInv'
  <2>1. CASE CancelPlain(caller, id)
    BY <1>3, <2>1 DEF CancelPlain, CanCancel
  <2>2. CASE CancelRemainingMilestones(caller, id)
    <3>1. milestones' \in [1..count -> MilestoneSet]
      <4> DEFINE set == milestones[id]
                 frozen(m) == IF m.status = "Pending" THEN [m EXCEPT !.status = "Disputed"] ELSE m
                 items == [i \in 1..Len(set.items) |-> frozen(set.items[i])]
      <4>1. set.items \in Seq(Milestone)
        BY <1>1 DEF MilestoneSet
      <4>2. \A i \in 1..Len(set.items) :
              frozen(set.items[i]) \in Milestone
        <5> SUFFICES ASSUME NEW i \in 1..Len(set.items)
                     PROVE  frozen(set.items[i]) \in Milestone
          OBVIOUS
        <5>1. set.items[i] \in Milestone
          BY <4>1
        <5>2. [set.items[i] EXCEPT !.status = "Disputed"]
                \in Milestone
          BY <5>1, StatusUpdate DEF MilestoneStatus
        <5> QED
          BY <5>1, <5>2
      <4>3. items \in Seq(Milestone)
        <5> HIDE DEF frozen
        <5> QED
          BY <4>1, <4>2
      <4>4. [set EXCEPT !.cancelled = TRUE, !.items = items] \in MilestoneSet
        <5> HIDE DEF items
        <5> QED
          BY <1>1, <4>3, CancelledUpdate, ItemsUpdate
      <4>5. milestones' = [milestones EXCEPT
                ![id] = [set EXCEPT !.cancelled = TRUE, !.items = items]]
        BY <2>2 DEF CancelRemainingMilestones, CanCancelMilestones
      <4> QED
        BY <1>1, <4>4, <4>5
    <3> QED
      BY <1>1, <1>2, <2>2, <3>1, PayType, UpdateType DEF CancelRemainingMilestones, CanCancelMilestones, EscrowState
  <2> QED
    BY <1>13, <2>1, <2>2 DEF Cancel
<1>14. ASSUME NEW caller \in Addr, Close(caller, id) PROVE TypeInv'
  BY <1>1, <1>2, <1>14, UpdateType DEF Close, EscrowState, ledger
<1>15. ASSUME NEW i \in 1..Len(milestones[id].items), NEW st \in MilestoneStatus
       PROVE  SetStatus(milestones[id], i, st) \in MilestoneSet
  <2>1. milestones[id].items \in Seq(Milestone)
    BY <1>1 DEF MilestoneSet
  <2> DEFINE m == [milestones[id].items[i] EXCEPT !.status = st]
             items == [milestones[id].items EXCEPT ![i] = m]
  <2>2. m \in Milestone
    <3>1. milestones[id].items[i] \in Milestone
      BY <2>1
    <3> QED
      BY <3>1, StatusUpdate
  <2>3. items \in Seq(Milestone)
    <3> HIDE DEF m
    <3> QED
      BY <2>1, <2>2
  <2>4. SetStatus(milestones[id], i, st) = [milestones[id] EXCEPT !.items = items]
    BY DEF SetStatus
  <2>5. milestones[id] \in MilestoneSet
    BY <1>1
  <2> HIDE DEF items
  <2> QED
    BY <2>3, <2>4, <2>5, ItemsUpdate
<1>16. ASSUME NEW caller \in Addr, NEW i \in 1..Len(milestones[id].items),
              DisputeMilestone(caller, id, i) \/ ResolveMilestone(caller, id, i)
       PROVE  TypeInv'
  <2>1. milestones' \in [1..count -> MilestoneSet]
    BY <1>1, <1>15, <1>16 DEF DisputeMilestone, ResolveMilestone, MilestoneStatus
  <2> QED
    BY <1>1, <1>16, <2>1, UpdateType DEF DisputeMilestone, ResolveMilestone, ledger
<1>17. ASSUME NEW caller \in Addr, NEW i \in 1..Len(milestones[id].items),
              ReleaseMilestone(caller, id, i)
       PROVE  TypeInv'
  <2> DEFINE payout == MilestonePayout(id, i)
             done == SetStatus(milestones[id], i, "Completed")
             set == [done EXCEPT !.released_amount = @ + payout]
             asset == CHOOSE t \in Token : escrow[id].assets[t] > 0
             pay == [Nothing EXCEPT ![asset] = payout]
  <2>1. /\ PayRecipient(id, pay)
        /\ UNCHANGED <<registry, condition>>
        /\ milestones' = [milestones EXCEPT ![id] = set]
        /\ escrow' = IF Unreleased(set) = {}
                       THEN [escrow EXCEPT ![id].released_amount = set.released_amount,
                                           ![id].state = "Released"]
                       ELSE escrow
    BY <1>17 DEF ReleaseMilestone, MilestoneLegs
  <2>2. asset \in Token
    BY DEF TypeInv, ListsAnAsset
  <2>3. payout \in Nat
    <3>1. pay[asset] = payout
      BY <2>2 DEF Nothing
    <3>2. pay[asset] \in 0..custody[asset]
      BY <2>1, <2>2 DEF PayRecipient
    <3> QED
      BY <1>1, <2>2, <3>1, <3>2
  <2>4. done \in MilestoneSet
    BY <1>15 DEF MilestoneStatus
  <2>5. set \in MilestoneSet
    <3> HIDE DEF done, payout
    <3> QED
      BY <2>3, <2>4, PayoutUpdate
  <2>6. /\ escrow' \in [1..count -> EscrowRecord]
        /\ \A j \in 1..count :
             /\ escrow'[j].assets = escrow[j].assets
             /\ escrow'[j].state = "Created" => escrow[j].state = "Created"
    <3>1. set.released_amount \in Nat
      BY <2>5 DEF MilestoneSet
    <3>2. PICK n \in Nat : n = set.released_amount
      BY <3>1
    <3>3. PICK st \in EscrowState : st = "Released"
      BY DEF EscrowState
    <3> DEFINE f == [[e EXCEPT !.released_amount = n] EXCEPT !.state = st]
    <3>4. f \in EscrowRecord /\ f.assets = e.assets /\ f.state = st
      BY <1>1 DEF EscrowRecord
    <3>5. escrow' = [escrow EXCEPT ![id] = f] \/ escrow' = escrow
      <4> HIDE DEF set
      <4> QED
        BY <1>1, <2>1, <3>2, <3>3, <3>4
    <3> HIDE DEF f
    <3>6. CASE escrow' = [escrow EXCEPT ![id] = f]
      BY <1>1, <3>3, <3>4, <3>6, Rewriting
    <3>7. CASE escrow' = escrow
      BY <1>1, <3>7
    <3> QED
      BY <3>5, <3>6, <3>7
  <2>7. milestones' \in [1..count -> MilestoneSet]
    BY <1>1, <2>1, <2>5
  <2> QED
    BY <1>1, <2>1, <2>6, <2>7, PayType, UpdateType
<1> QED
  BY <1>5, <1>6, <1>7, <1>8, <1>9, <1>10, <1>11, <1>12, <1>13, <1>14, <1>16, <1>17
  DEF Operation

\* A freshly deployed contract satisfies the invariant.
LEMMA TypeInit == Init => TypeInv
<1> SUFFICES ASSUME Init PROVE TypeInv
  OBVIOUS
<1>1. 1..count = {}
  BY DEF Init
<1>2. \A S : <<>> \in [1..count -> S]
  BY <1>1
<1> QED
  BY <1>1, <1>2, Zenon DEF Init, TypeInv, TypeOK, CreatedIsOffered, ListsAnAsset, Nothing

\* Every step of the contract, and a stuttering step, preserves it.
LEMMA TypeStep == TypeInv /\ [Next]_vars => TypeInv'
<1> SUFFICES ASSUME TypeInv, [Next]_vars PROVE TypeInv'
  OBVIOUS
<1> USE InputsAssumption
<1>1. CASE Tick
  <2>1. now' \in Nat
    BY <1>1 DEF Tick, TypeInv, TypeOK
  <2>2. UNCHANGED <<admin, approved, count, escrow, condition, milestones,
                    custody, toRecipient, toSender>>
    BY <1>1 DEF Tick, ledger
  <2>3. TypeOK'
    BY <2>1, <2>2 DEF TypeInv, TypeOK
  <2>4. CreatedIsOffered' /\ ListsAnAsset'
    BY <2>2 DEF TypeInv, CreatedIsOffered, ListsAnAsset
  <2> QED
    BY <2>3, <2>4 DEF TypeInv
<1>2. ASSUME NEW a \in Admins, Initialize(a) PROVE TypeInv'
  BY <1>2 DEF Initialize, TypeInv, TypeOK, CreatedIsOffered, ListsAnAsset, ledger
<1>3. ASSUME NEW caller \in Addr, NEW t \in Token,
             ApproveToken(caller, t) \/ RevokeToken(caller, t)
      PROVE  TypeInv'
  BY <1>3 DEF ApproveToken, RevokeToken, TypeInv, TypeOK, CreatedIsOffered, ListsAnAsset, ledger
<1>4. CASE Creation
  BY <1>4, CreationType
<1>5. ASSUME NEW id \in 1..count, Operation(id) PROVE TypeInv'
  BY <1>5, OperationType
<1>6. CASE UNCHANGED vars
  BY <1>6 DEF vars, TypeInv, TypeOK, CreatedIsOffered, ListsAnAsset
<1> QED
  BY <1>1, <1>2, <1>3, <1>4, <1>5, <1>6 DEF Next

\* Every reachable state is well typed: balances and histories never go
\* negative, and whatever order of calls leads there, fund still finds the
\* asset list that was validated when the escrow was initialized.
THEOREM TypeCorrect == Spec => []TypeOK
<1>1. Spec => []TypeInv
  BY TypeInit, TypeStep, PTL DEF Spec
<1>2. TypeInv => TypeOK
  BY DEF TypeInv
<1> QED
  BY <1>1, <1>2, PTL

-----------------------------------------------------------------------------
(* What holds of every escrow                                               *)

\* The states in which an escrow can still pay either side.
Live == {"Funded", "Expired"}

\* An escrow is funded in full or not at all; while it can pay it is funded.
Funding(e) ==
  /\ TotalAmount(e.assets) > 0
  /\ e.funded_amount \in {0, TotalAmount(e.assets)}
  /\ e.released_amount <= e.funded_amount
  /\ e.state = "Created" => e.funded_amount = 0
  /\ e.state \in Live => e.funded_amount > 0

\* Token by token, the payouts of an escrow without milestones stay within the
\* share of the deposit that released_amount stands for, although every leg is
\* rounded down by itself; of a deposit in one token nothing is left behind.
Plain(e, r, s) ==
  \A t \in Token :
    /\ e.funded_amount = 0 => r[t] = 0 /\ s[t] = 0
    /\ e.state \in Live =>
         /\ s[t] = 0
         /\ r[t] * e.funded_amount <= e.assets[t] * e.released_amount
         /\ e.assets[t] = e.funded_amount => r[t] = e.released_amount
    /\ e.funded_amount > 0 /\ e.state \in Settled =>
         /\ r[t] + s[t] <= e.assets[t]
         /\ e.assets[t] = e.funded_amount => r[t] + s[t] = e.assets[t]

Done(items) == {i \in 1..Len(items) : items[i].status = "Completed"}
Weights(items) == [i \in 1..Len(items) |-> items[i].release_bps]

\* A milestone escrow holds one token and follows its schedule: it has paid at
\* most the weight of the completed milestones until all of them are, then all.
Phased(e, m, r, s) ==
  /\ e.funded_amount > 0
  /\ SumFunction(Weights(m.items)) = BPS
  /\ IF Done(m.items) = 1..Len(m.items)
       THEN m.released_amount = e.funded_amount /\ e.state \in Settled
       ELSE m.released_amount * BPS
              <= e.funded_amount * SumFunctionOnSet(Weights(m.items), Done(m.items))
  /\ \E a \in Token :
       /\ e.assets[a] = e.funded_amount
       /\ r[a] = m.released_amount
       /\ s[a] = IF e.state \in Live THEN 0 ELSE e.funded_amount - m.released_amount
       /\ \A t \in Token \ {a} : e.assets[t] = 0 /\ r[t] = 0 /\ s[t] = 0

\* Sign-offs are counted once per participant, and come before any payout.
Signed(c, m, r) ==
  /\ IsFiniteSet(c.by)
  /\ c.by \subseteq c.participants
  /\ c.approvals = Cardinality(c.by)
  /\ m.items # <<>> => c.threshold = 0
  /\ (\E t \in Token : r[t] > 0) => c.approvals >= c.threshold

\* Stored schedules are ordered, and an open escrow has released what vested.
Vesting(e, time) ==
  Scheduled(e.schedule) =>
    /\ e.schedule.start_time <= e.schedule.cliff_time
    /\ e.schedule.cliff_time <= e.schedule.end_time
    /\ e.schedule.release_type = "Linear" => e.schedule.start_time < e.schedule.end_time
    /\ e.state = "Funded" =>
         e.released_amount <= VestedAmount(e.funded_amount, e.schedule, time)

Sound(e, c, m, r, s, time) ==
  /\ Funding(e)
  /\ m.items = <<>> => Plain(e, r, s)
  /\ m.items # <<>> => Phased(e, m, r, s)
  /\ Signed(c, m, r)
  /\ Vesting(e, time)

EscrowsSound ==
  \A id \in 1..count :
    Sound(escrow[id], condition[id], milestones[id], toRecipient[id], toSender[id], now)

\* The inductive invariant: every escrow is sound on its own, and custody is
\* the sum of what they hold.
Inv == TypeInv /\ EscrowsSound /\ CustodyExact

-----------------------------------------------------------------------------
(* Arithmetic of the payouts                                                *)

\* One rounded-down leg of a payout of x out of n.
LEMMA Leg ==
  ASSUME NEW a \in Nat, NEW x \in Nat, NEW n \in Nat \ {0}
  PROVE  /\ (a * x) \div n \in Nat
         /\ ((a * x) \div n) * n <= a * x
         /\ a = n => (a * x) \div n = x
<1>1. a * x \in Nat
  OBVIOUS
<1>2. (a * x) \div n \in Nat /\ ((a * x) \div n) * n <= a * x
  BY <1>1, Quotient
<1>3. ASSUME a = n PROVE (a * x) \div n = x
  <2>1. PICK y \in Nat : y = a * x
    BY <1>1
  <2>2. x * n <= y /\ y < (x + 1) * n
    <3>1. (x + 1) * n = x * n + n /\ a * x = x * n
      BY <1>3
    <3> QED
      BY <2>1, <3>1
  <2>3. y \div n = x
    BY <2>2, QuotientIs
  <2> QED
    BY <2>1, <2>3
<1> QED
  BY <1>2, <1>3

\* Legs add up: p stands for at most the share of y, q for at most the share
\* of x, so p + q for at most the share of y + x, and for no more than a.
LEMMA Shares ==
  ASSUME NEW a \in Nat, NEW x \in Nat, NEW y \in Nat, NEW p \in Nat, NEW q \in Nat,
         NEW n \in Nat \ {0}, p * n <= a * y, q * n <= a * x, y + x <= n
  PROVE  (p + q) * n <= a * (y + x) /\ p + q <= a
<1>1. (p + q) * n = p * n + q * n /\ a * (y + x) = a * y + a * x
  BY SMT
<1>2. p * n \in Nat /\ q * n \in Nat /\ a * y \in Nat /\ a * x \in Nat
  OBVIOUS
<1>3. (p + q) * n <= a * (y + x)
  BY <1>1, <1>2
<1>4. a * (y + x) <= a * n
  BY ProductMonotonic
<1>5. p + q <= a
  <2> SUFFICES ASSUME p + q > a PROVE FALSE
    OBVIOUS
  <2>1. PICK b \in Nat : p + q = a + (b + 1)
    OBVIOUS
  <2>2. (a + (b + 1)) * n = a * n + (b * n + n) /\ a * n \in Nat /\ b * n \in Nat
    BY SMT
  <2>3. PICK u \in Nat, v \in Nat, w \in Nat, z \in Nat :
          u = (p + q) * n /\ v = a * (y + x) /\ w = a * n /\ z = b * n
    BY <2>2
  <2> QED
    BY <1>3, <1>4, <2>1, <2>2, <2>3
<1> QED
  BY <1>3, <1>5

\* What has vested is a number, never more than the whole, and never shrinks.
LEMMA Vested ==
  ASSUME NEW n \in Nat, NEW s \in [release_type: {"None", "Cliff", "Linear"},
                                    start_time: Nat, cliff_time: Nat, end_time: Nat],
         s.release_type = "Linear" => s.start_time < s.end_time, NEW time \in Nat
  PROVE  /\ VestedAmount(n, s, time) \in Nat
         /\ VestedAmount(n, s, time) <= n
         /\ VestedAmount(n, s, time) <= VestedAmount(n, s, time + 1)
<1> DEFINE part(u) == (n * (u - s.start_time)) \div (s.end_time - s.start_time)
<1>1. ASSUME NEW u \in Nat, s.release_type = "Linear", u >= s.start_time, u < s.end_time
      PROVE  part(u) \in Nat /\ part(u) <= n
  <2>1. PICK x \in Nat, m \in Nat \ {0} : x = u - s.start_time /\ m = s.end_time - s.start_time
    BY <1>1
  <2>2. x <= m
    BY <1>1, <2>1
  <2>3. n * x \in Nat /\ n * m \in Nat /\ n * x <= n * m
    BY <2>2, ProductMonotonic
  <2>4. (n * x) \div m \in Nat /\ (n * x) \div m <= (n * m) \div m
    BY <2>3, Quotient, QuotientMonotonic
  <2>5. (n * m) \div m = n
    <3>1. m * n = n * m
      BY SMT
    <3>2. (m * n) \div m = n
      BY Leg
    <3> QED
      BY <3>1, <3>2
  <2> QED
    BY <2>1, <2>4, <2>5
<1>2. ASSUME NEW u \in Nat, s.release_type = "Linear", u >= s.start_time, u + 1 < s.end_time
      PROVE  part(u) <= part(u + 1)
  <2>1. PICK x \in Nat, y \in Nat, m \in Nat \ {0} :
          x = u - s.start_time /\ y = (u + 1) - s.start_time /\ m = s.end_time - s.start_time
    BY <1>2
  <2>2. x <= y
    BY <2>1
  <2>3. n * x \in Nat /\ n * y \in Nat /\ n * x <= n * y
    BY <2>2, ProductMonotonic
  <2>4. (n * x) \div m <= (n * y) \div m
    BY <2>3, QuotientMonotonic
  <2> QED
    BY <2>1, <2>4
<1> HIDE DEF part
<1>3. ASSUME NEW u \in Nat
      PROVE  VestedAmount(n, s, u) =
               IF ~Scheduled(s) \/ u < s.cliff_time \/ u < s.start_time THEN 0
               ELSE IF u >= s.end_time THEN n
               ELSE IF s.release_type = "Cliff" THEN 0
               ELSE part(u)
  BY DEF VestedAmount, part
<1>4. Scheduled(s) => s.release_type \in {"Cliff", "Linear"}
  BY DEF Scheduled
<1>5. VestedAmount(n, s, time) \in Nat /\ VestedAmount(n, s, time) <= n
  BY <1>1, <1>3, <1>4
<1>6. VestedAmount(n, s, time) <= VestedAmount(n, s, time + 1)
  <2>1. VestedAmount(n, s, time + 1) \in Nat
    BY <1>1, <1>3, <1>4
  <2>2. CASE s.release_type = "Linear" /\ Scheduled(s) /\ time >= s.cliff_time
             /\ time >= s.start_time /\ time + 1 < s.end_time
    BY <1>2, <1>3, <2>2
  <2>3. CASE ~ (s.release_type = "Linear" /\ Scheduled(s) /\ time >= s.cliff_time
                /\ time >= s.start_time /\ time + 1 < s.end_time)
    BY <1>3, <1>4, <1>5, <2>1, <2>3
  <2> QED
    BY <2>2, <2>3
<1> QED
  BY <1>5, <1>6

-----------------------------------------------------------------------------
(* The kinds of step an escrow takes                                        *)

Balances == [Token -> Nat]

\* f is e after a call: the terms stay, the state and the counter may change.
Becomes(e, f, state, released) ==
  /\ f.assets = e.assets
  /\ f.schedule = e.schedule
  /\ f.funded_amount = e.funded_amount
  /\ f.state = state
  /\ f.released_amount = released

\* The account r grows to p by the amounts paid.
Pays(r, p, amounts) == \A t \in Token : p[t] = r[t] + amounts[t]

\* A pro-rata payout of x on top of what an escrow without milestones has paid.
LEMMA Payout ==
  ASSUME NEW e \in EscrowRecord, NEW r \in Balances, NEW s \in Balances,
         Funding(e), Plain(e, r, s), e.state \in Live,
         NEW x \in Nat, e.released_amount + x <= e.funded_amount, NEW t \in Token
  PROVE  /\ ProRata(e, x)[t] \in Nat
         /\ (r[t] + ProRata(e, x)[t]) * e.funded_amount
              <= e.assets[t] * (e.released_amount + x)
         /\ r[t] + ProRata(e, x)[t] <= e.assets[t]
         /\ e.assets[t] = e.funded_amount =>
              r[t] + ProRata(e, x)[t] = e.released_amount + x
<1>1. PICK a \in Nat, n \in Nat \ {0}, y \in Nat, p \in Nat :
        a = e.assets[t] /\ n = e.funded_amount /\ y = e.released_amount /\ p = r[t]
  BY DEF EscrowRecord, Funding, Balances
<1>2. p * n <= a * y /\ (a = n => p = y)
  BY <1>1 DEF Plain
<1>3. PICK q \in Nat : q = ProRata(e, x)[t] /\ q * n <= a * x /\ (a = n => q = x)
  <2>1. DOMAIN e.assets = Token
    BY DEF EscrowRecord
  <2>2. ProRata(e, x)[t] = IF x = 0 THEN 0 ELSE (a * x) \div n
    BY <1>1, <2>1 DEF ProRata
  <2>3. CASE x = 0
    <3>1. 0 * n = 0 /\ a * x = 0
      BY <2>3
    <3> QED
      BY <2>2, <2>3, <3>1
  <2>4. CASE x # 0
    BY <2>2, <2>4, Leg
  <2> QED
    BY <2>3, <2>4
<1>4. (p + q) * n <= a * (y + x) /\ p + q <= a
  BY <1>1, <1>2, <1>3, Shares
<1> QED
  BY <1>1, <1>2, <1>3, <1>4

\* The weights of a list of milestones and of the completed ones.
LEMMA DoneWeight ==
  ASSUME NEW items \in Seq(Milestone), SumFunction(Weights(items)) = BPS
  PROVE  /\ SumFunctionOnSet(Weights(items), Done(items)) \in Nat
         /\ SumFunctionOnSet(Weights(items), Done(items)) <= BPS
<1>1. Len(items) \in Nat /\ IsFiniteSet(1..Len(items)) /\ Done(items) \subseteq 1..Len(items)
  BY FS_Interval DEF Done
<1>2. \A i \in 1..Len(items) : Weights(items)[i] \in Nat
  <2>1. \A i \in 1..Len(items) : items[i] \in Milestone
    OBVIOUS
  <2> QED
    BY <2>1 DEF Weights, Milestone
<1>3. DOMAIN Weights(items) = 1..Len(items)
  BY DEF Weights
<1>4. SumFunctionOnSet(Weights(items), 1..Len(items)) = BPS
  BY <1>3 DEF SumFunction
<1>5. IsFiniteSet(Done(items))
  BY <1>1, FS_Subset
<1>6. SumFunctionOnSet(Weights(items), Done(items)) \in Nat
  BY <1>1, <1>2, <1>5, SumNat
<1>7. SumFunctionOnSet(Weights(items), Done(items)) <= SumFunctionOnSet(Weights(items), 1..Len(items))
  BY <1>1, <1>2, SumOfPart
<1> QED
  BY <1>4, <1>6, <1>7

\* A milestone schedule has paid out at most the deposit.
LEMMA PhasedPaid ==
  ASSUME NEW e \in EscrowRecord, NEW m \in MilestoneSet, NEW r, NEW s, Phased(e, m, r, s)
  PROVE  m.released_amount <= e.funded_amount
<1> DEFINE items == m.items
           w == SumFunctionOnSet(Weights(items), Done(items))
<1>1. e.funded_amount \in Nat /\ m.released_amount \in Nat /\ items \in Seq(Milestone)
  BY DEF EscrowRecord, MilestoneSet
<1>2. CASE Done(items) = 1..Len(items)
  BY <1>1, <1>2 DEF Phased
<1>3. CASE Done(items) # 1..Len(items)
  <2>1. w \in Nat /\ w <= BPS
    BY <1>1, DoneWeight DEF Phased
  <2>2. PICK n \in Nat, x \in Nat, v \in Nat : n = e.funded_amount /\ x = m.released_amount /\ v = w
    BY <1>1, <2>1
  <2>3. x * BPS <= n * v
    BY <1>3, <2>2 DEF Phased
  <2>4. v <= BPS /\ BPS \in Nat \ {0}
    BY <2>1, <2>2 DEF BPS
  <2>5. n * v <= n * BPS /\ n * v \in Nat /\ x * BPS \in Nat /\ n * BPS \in Nat
    BY <2>4, ProductMonotonic
  <2>6. x <= n
    <3> SUFFICES ASSUME n < x PROVE FALSE
      BY <2>2
    <3>1. n + 1 <= x
      OBVIOUS
    <3>2. (n + 1) * BPS <= x * BPS
      BY <2>4, <3>1, ProductMonotonic
    <3>3. (n + 1) * BPS = n * BPS + BPS
      BY <2>4
    <3> QED
      BY <2>3, <2>4, <2>5, <3>2, <3>3
  <2> QED
    BY <2>2, <2>6
<1> QED
  BY <1>2, <1>3

\* What an escrow still holds of a token.
Holds(e, r, s, t) ==
  (IF e.funded_amount = 0 THEN Nothing ELSE e.assets)[t] - (r[t] + s[t])

\* It is never negative: no payout overdraws.
LEMMA HoldsNat ==
  ASSUME NEW e \in EscrowRecord, NEW c, NEW m \in MilestoneSet, NEW r \in Balances,
         NEW s \in Balances, NEW time, Sound(e, c, m, r, s, time), NEW t \in Token
  PROVE  Holds(e, r, s, t) \in Nat
<1>1. /\ e.assets[t] \in Nat /\ e.funded_amount \in Nat /\ e.released_amount \in Nat
      /\ r[t] \in Nat /\ s[t] \in Nat /\ Nothing[t] = 0 /\ m.released_amount \in Nat
      /\ e.state \in EscrowState
  BY DEF EscrowRecord, Balances, Nothing, MilestoneSet
<1>2. Funding(e)
  BY DEF Sound
<1>3. CASE m.items = <<>>
  <2>1. Plain(e, r, s)
    BY <1>3 DEF Sound
  <2>2. CASE e.funded_amount = 0
    BY <1>1, <2>1, <2>2 DEF Plain, Holds
  <2>3. CASE e.funded_amount # 0 /\ e.state \in Live
    <3>1. /\ ProRata(e, 0)[t] \in Nat
          /\ r[t] + ProRata(e, 0)[t] <= e.assets[t]
      BY <1>1, <1>2, <2>1, <2>3, Payout DEF Funding
    <3>2. s[t] = 0
      BY <2>1, <2>3 DEF Plain
    <3> QED
      BY <1>1, <2>3, <3>1, <3>2 DEF Holds
  <2>4. CASE e.funded_amount # 0 /\ e.state \notin Live
    <3>1. e.state \in Settled
      BY <1>1, <1>2, <2>4 DEF EscrowState, Settled, Live, Funding
    <3> QED
      BY <1>1, <2>1, <2>4, <3>1 DEF Plain, Holds
  <2> QED
    BY <2>2, <2>3, <2>4
<1>4. CASE m.items # <<>>
  <2>1. Phased(e, m, r, s)
    BY <1>4 DEF Sound
  <2>2. m.released_amount <= e.funded_amount
    BY <1>1, <1>4, <2>1, PhasedPaid
  <2>3. PICK a \in Token :
          /\ e.assets[a] = e.funded_amount
          /\ r[a] = m.released_amount
          /\ s[a] = IF e.state \in Live THEN 0 ELSE e.funded_amount - m.released_amount
          /\ \A u \in Token \ {a} : e.assets[u] = 0 /\ r[u] = 0 /\ s[u] = 0
    BY <2>1 DEF Phased
  <2>4. e.funded_amount # 0
    BY <1>1, <2>1 DEF Phased
  <2>5. Holds(e, r, s, t) = e.assets[t] - (r[t] + s[t])
    BY <2>4 DEF Holds
  <2>6. CASE t = a
    BY <1>1, <2>2, <2>3, <2>5, <2>6
  <2>7. CASE t # a
    <3>1. e.assets[t] = 0 /\ r[t] = 0 /\ s[t] = 0
      BY <2>3, <2>7
    <3> QED
      BY <2>5, <3>1
  <2> QED
    BY <2>6, <2>7
<1> QED
  BY <1>3, <1>4

\* withdraw and claim: a partial payout keeps the escrow sound.
LEMMA PartialSound ==
  ASSUME NEW e \in EscrowRecord, NEW f \in EscrowRecord, NEW c \in ReleaseCondition,
         NEW m \in MilestoneSet, NEW r \in Balances, NEW s \in Balances,
         NEW p \in Balances, NEW time \in Nat, NEW x \in Nat,
         Sound(e, c, m, r, s, time), ~ (m.items # <<>>), e.state = "Funded",
         e.released_amount + x <= e.funded_amount,
         Scheduled(e.schedule) =>
           e.released_amount + x <= VestedAmount(e.funded_amount, e.schedule, time),
         c.approvals >= c.threshold,
         Becomes(e, f, IF e.released_amount + x = e.funded_amount THEN "Released" ELSE "Funded",
                 e.released_amount + x),
         Pays(r, p, ProRata(e, x))
  PROVE  Sound(f, c, m, p, s, time)
<1>1. Funding(e) /\ Plain(e, r, s) /\ e.state \in Live
  BY DEF Sound, Live
<1>2. /\ e.released_amount \in Nat /\ e.funded_amount \in Nat /\ e.funded_amount > 0
      /\ f.state \in {"Released", "Funded"}
      /\ f.assets = e.assets /\ f.funded_amount = e.funded_amount /\ f.schedule = e.schedule
      /\ f.released_amount = e.released_amount + x
      /\ f.state = IF e.released_amount + x = e.funded_amount THEN "Released" ELSE "Funded"
  BY <1>1 DEF EscrowRecord, Becomes, Funding
<1>3. Funding(f)
  BY <1>1, <1>2 DEF Funding, Live
<1>4. Plain(f, p, s)
  <2> SUFFICES ASSUME NEW t \in Token
               PROVE  /\ f.funded_amount = 0 => p[t] = 0 /\ s[t] = 0
                      /\ f.state \in Live =>
                           /\ s[t] = 0
                           /\ p[t] * f.funded_amount <= f.assets[t] * f.released_amount
                           /\ f.assets[t] = f.funded_amount => p[t] = f.released_amount
                      /\ f.funded_amount > 0 /\ f.state \in Settled =>
                           /\ p[t] + s[t] <= f.assets[t]
                           /\ f.assets[t] = f.funded_amount => p[t] + s[t] = f.assets[t]
    BY DEF Plain
  <2>1. /\ p[t] * e.funded_amount <= e.assets[t] * (e.released_amount + x)
        /\ p[t] <= e.assets[t]
        /\ e.assets[t] = e.funded_amount => p[t] = e.released_amount + x
    BY <1>1, Payout DEF Pays
  <2>2. s[t] = 0
    BY <1>1 DEF Plain
  <2>3. p[t] \in Nat /\ p[t] + s[t] = p[t]
    BY <2>2 DEF Balances
  <2>4. f.state = "Released" => e.released_amount + x = e.funded_amount
    BY <1>2
  <2>5. f.funded_amount > 0
    BY <1>2
  <2> QED
    BY <1>2, <2>1, <2>2, <2>3, <2>4, <2>5 DEF Live, Settled
<1>5. Signed(c, m, p)
  BY DEF Sound, Signed
<1>6. Vesting(f, time)
  BY <1>2 DEF Sound, Vesting
<1> QED
  BY <1>3, <1>4, <1>5, <1>6 DEF Sound

\* release, override_release and the claim of an escrow nobody funded: paying
\* all that remains to the recipient keeps the escrow sound.
LEMMA FinalSound ==
  ASSUME NEW e \in EscrowRecord, NEW f \in EscrowRecord, NEW c \in ReleaseCondition,
         NEW m \in MilestoneSet, NEW r \in Balances, NEW s \in Balances,
         NEW p \in Balances, NEW time \in Nat,
         Sound(e, c, m, r, s, time), ~ (m.items # <<>>), e.state \in {"Created", "Funded"},
         c.approvals >= c.threshold,
         NEW g \in {e.released_amount, e.funded_amount}, Becomes(e, f, "Released", g),
         Pays(r, p, ProRata(e, Remaining(e)))
  PROVE  Sound(f, c, m, p, s, time)
<1>1. Funding(e) /\ Plain(e, r, s)
  BY DEF Sound
<1>2. /\ e.released_amount \in Nat /\ e.funded_amount \in Nat
      /\ e.released_amount <= e.funded_amount
      /\ f.state = "Released" /\ f.released_amount \in {e.released_amount, e.funded_amount}
      /\ f.assets = e.assets /\ f.funded_amount = e.funded_amount /\ f.schedule = e.schedule
  BY <1>1 DEF EscrowRecord, Becomes, Funding
<1>3. Funding(f)
  BY <1>1, <1>2 DEF Funding, Live
<1>4. PICK x \in Nat : x = Remaining(e) /\ e.released_amount + x = e.funded_amount
  BY <1>2 DEF Remaining
<1>5. Plain(f, p, s)
  <2> SUFFICES ASSUME NEW t \in Token
               PROVE  /\ f.funded_amount = 0 => p[t] = 0 /\ s[t] = 0
                      /\ f.funded_amount > 0 =>
                           /\ p[t] + s[t] <= f.assets[t]
                           /\ f.assets[t] = f.funded_amount => p[t] + s[t] = f.assets[t]
    BY <1>2 DEF Plain, Live
  <2>1. p[t] = r[t] + ProRata(e, x)[t] /\ p[t] \in Nat /\ s[t] \in Nat /\ e.assets[t] \in Nat
    BY <1>4 DEF Pays, Balances, EscrowRecord
  <2>2. CASE e.funded_amount = 0
    <3>1. x = 0 /\ r[t] = 0 /\ s[t] = 0
      BY <1>1, <1>2, <1>4, <2>2 DEF Plain
    <3>2. ProRata(e, x)[t] = 0
      BY <3>1 DEF ProRata, EscrowRecord
    <3> QED
      BY <1>2, <2>1, <2>2, <3>1, <3>2
  <2>3. CASE e.funded_amount # 0
    <3>1. e.state \in Live
      BY <1>1, <2>3 DEF Live, Funding
    <3>2. /\ p[t] <= e.assets[t]
          /\ e.assets[t] = e.funded_amount => p[t] = e.released_amount + x
      BY <1>1, <1>2, <1>4, <2>1, <3>1, Payout
    <3>3. s[t] = 0
      BY <1>1, <3>1 DEF Plain
    <3> QED
      BY <1>2, <1>4, <2>1, <2>3, <3>2, <3>3
  <2> QED
    BY <2>2, <2>3
<1>6. Signed(c, m, p)
  BY DEF Sound, Signed
<1>7. Vesting(f, time)
  BY <1>2 DEF Sound, Vesting
<1> QED
  BY <1>3, <1>5, <1>6, <1>7 DEF Sound

\* refund, refund_timelock, reclaim and cancel: returning all that remains to
\* the sender keeps the escrow sound.
LEMMA ReturnSound ==
  ASSUME NEW e \in EscrowRecord, NEW f \in EscrowRecord, NEW c \in ReleaseCondition,
         NEW m \in MilestoneSet, NEW r \in Balances, NEW s \in Balances,
         NEW q \in Balances, NEW time \in Nat,
         Sound(e, c, m, r, s, time), ~ (m.items # <<>>),
         e.state \in {"Created", "Funded", "Expired"},
         Becomes(e, f, "Refunded", e.released_amount),
         Pays(s, q, ProRata(e, Remaining(e)))
  PROVE  Sound(f, c, m, r, q, time)
<1>1. Funding(e) /\ Plain(e, r, s)
  BY DEF Sound
<1>2. /\ e.released_amount \in Nat /\ e.funded_amount \in Nat
      /\ e.released_amount <= e.funded_amount
      /\ f.state = "Refunded" /\ f.released_amount = e.released_amount
      /\ f.assets = e.assets /\ f.funded_amount = e.funded_amount /\ f.schedule = e.schedule
  BY <1>1 DEF EscrowRecord, Becomes, Funding
<1>3. Funding(f)
  BY <1>1, <1>2 DEF Funding, Live
<1>4. PICK x \in Nat : x = Remaining(e) /\ e.released_amount + x = e.funded_amount
  BY <1>2 DEF Remaining
<1>5. Plain(f, r, q)
  <2> SUFFICES ASSUME NEW t \in Token
               PROVE  /\ f.funded_amount = 0 => r[t] = 0 /\ q[t] = 0
                      /\ f.funded_amount > 0 =>
                           /\ r[t] + q[t] <= f.assets[t]
                           /\ f.assets[t] = f.funded_amount => r[t] + q[t] = f.assets[t]
    BY <1>2 DEF Plain, Live
  <2>1. q[t] = s[t] + ProRata(e, x)[t] /\ q[t] \in Nat /\ r[t] \in Nat /\ e.assets[t] \in Nat
    BY <1>4 DEF Pays, Balances, EscrowRecord
  <2>2. CASE e.funded_amount = 0
    <3>1. x = 0 /\ r[t] = 0 /\ s[t] = 0
      BY <1>1, <1>2, <1>4, <2>2 DEF Plain
    <3>2. ProRata(e, x)[t] = 0
      BY <3>1 DEF ProRata, EscrowRecord
    <3> QED
      BY <1>2, <2>1, <2>2, <3>1, <3>2
  <2>3. CASE e.funded_amount # 0
    <3>1. e.state \in Live
      BY <1>1, <2>3 DEF Live, Funding
    <3>2. /\ ProRata(e, x)[t] \in Nat
          /\ r[t] + ProRata(e, x)[t] <= e.assets[t]
          /\ e.assets[t] = e.funded_amount => r[t] + ProRata(e, x)[t] = e.released_amount + x
      BY <1>1, <1>2, <1>4, <2>1, <3>1, Payout, SMTT(30)
    <3>3. s[t] = 0
      BY <1>1, <3>1 DEF Plain
    <3> QED
      BY <1>2, <1>4, <2>1, <2>3, <3>2, <3>3
  <2> QED
    BY <2>2, <2>3
<1>6. Signed(c, m, r) /\ Vesting(f, time)
  BY <1>2 DEF Sound, Vesting
<1> QED
  BY <1>3, <1>5, <1>6 DEF Sound

\* expire and close move no money and keep the escrow sound.
LEMMA MarkSound ==
  ASSUME NEW e \in EscrowRecord, NEW f \in EscrowRecord, NEW c \in ReleaseCondition,
         NEW m \in MilestoneSet, NEW r \in Balances, NEW s \in Balances, NEW time \in Nat,
         Sound(e, c, m, r, s, time), NEW st, Becomes(e, f, st, e.released_amount),
         \/ e.state = "Funded" /\ st = "Expired"
         \/ e.state \in {"Released", "Refunded"} /\ st = "Closed"
  PROVE  Sound(f, c, m, r, s, time)
<1>1. /\ f.state = st /\ f.released_amount = e.released_amount
      /\ f.assets = e.assets /\ f.funded_amount = e.funded_amount /\ f.schedule = e.schedule
  BY DEF Becomes
<1>2. /\ e.state \in Live <=> f.state \in Live
      /\ e.state \in Settled <=> f.state \in Settled
      /\ f.state # "Created" /\ f.state # "Funded"
  BY <1>1 DEF Live, Settled
<1>3. Funding(f)
  BY <1>1, <1>2 DEF Sound, Funding
<1>4. m.items = <<>> => Plain(f, r, s)
  BY <1>1, <1>2 DEF Sound, Plain
<1>5. m.items # <<>> => Phased(f, m, r, s)
  BY <1>1, <1>2 DEF Sound, Phased
<1>6. Signed(c, m, r) /\ Vesting(f, time)
  BY <1>1, <1>2 DEF Sound, Vesting
<1> QED
  BY <1>3, <1>4, <1>5, <1>6 DEF Sound

\* fund: an initialized escrow becomes one that holds its whole deposit.
LEMMA FundSound ==
  ASSUME NEW e \in EscrowRecord, NEW f \in EscrowRecord, NEW c \in ReleaseCondition,
         NEW m \in MilestoneSet, NEW r \in Balances, NEW s \in Balances, NEW time \in Nat,
         Sound(e, c, m, r, s, time), e.state = "Created",
         f.assets = e.assets, f.schedule = e.schedule, f.state = "Funded",
         f.released_amount = e.released_amount, f.funded_amount = TotalAmount(e.assets)
  PROVE  /\ Sound(f, c, m, r, s, time)
         /\ \A t \in Token : Holds(f, r, s, t) = Holds(e, r, s, t) + e.assets[t]
<1>1. /\ Funding(e) /\ e.funded_amount = 0 /\ e.released_amount = 0
      /\ TotalAmount(e.assets) \in Nat /\ f.funded_amount > 0
  BY Totals, SMTT(30) DEF Sound, Funding, EscrowRecord
<1>2. Funding(f)
  BY <1>1 DEF Funding, Live
<1>3. m.items = <<>> /\ Plain(e, r, s)
  BY <1>1 DEF Sound, Phased
<1>4. ASSUME NEW t \in Token PROVE r[t] = 0 /\ s[t] = 0 /\ e.assets[t] \in Nat
  BY <1>1, <1>3 DEF Plain, EscrowRecord
<1>5. Plain(f, r, s)
  <2>1. \A n \in Nat, a \in Nat : 0 * n <= a * 0
    BY SMT
  <2> QED
    BY <1>1, <1>4, <2>1 DEF Plain, Settled
<1>6. Vesting(f, time)
  <2>1. ASSUME Scheduled(e.schedule)
        PROVE  VestedAmount(f.funded_amount, e.schedule, time) \in Nat
    BY <1>1, <2>1, Vested DEF Sound, Vesting, EscrowRecord
  <2> QED
    BY <1>1, <2>1 DEF Sound, Vesting
<1>7. \A t \in Token : Holds(f, r, s, t) = Holds(e, r, s, t) + e.assets[t]
  BY <1>1, <1>4 DEF Holds, Nothing
<1> QED
  BY <1>2, <1>3, <1>5, <1>6, <1>7 DEF Sound

\* approve_release: one more participant has signed, and is counted once.
LEMMA ApproveSound ==
  ASSUME NEW e \in EscrowRecord, NEW c \in ReleaseCondition, NEW d \in ReleaseCondition,
         NEW m \in MilestoneSet, NEW r \in Balances, NEW s \in Balances, NEW time \in Nat,
         Sound(e, c, m, r, s, time), NEW who \in c.participants, who \notin c.by,
         d.participants = c.participants, d.threshold = c.threshold,
         d.approvals = c.approvals + 1, d.by = c.by \cup {who}
  PROVE  Sound(e, d, m, r, s, time)
<1>1. c.approvals \in Nat /\ c.threshold \in Nat
  BY DEF ReleaseCondition
<1>2. IsFiniteSet(d.by) /\ Cardinality(d.by) = Cardinality(c.by) + 1
  BY FS_AddElement DEF Sound, Signed
<1>3. Signed(d, m, r)
  BY <1>1, <1>2 DEF Sound, Signed
<1> QED
  BY <1>3 DEF Sound

\* Time passes: what has vested does not shrink.
LEMMA TimeSound ==
  ASSUME NEW e \in EscrowRecord, NEW c \in ReleaseCondition,
         NEW m \in MilestoneSet, NEW r \in Balances, NEW s \in Balances, NEW time \in Nat,
         Sound(e, c, m, r, s, time)
  PROVE  Sound(e, c, m, r, s, time + 1)
<1>1. Vesting(e, time + 1)
  <2> SUFFICES ASSUME Scheduled(e.schedule), e.state = "Funded"
               PROVE  e.released_amount <= VestedAmount(e.funded_amount, e.schedule, time + 1)
    BY DEF Sound, Vesting
  <2>1. e.released_amount \in Nat /\ e.funded_amount \in Nat
    BY DEF EscrowRecord
  <2>2. e.released_amount <= VestedAmount(e.funded_amount, e.schedule, time)
    BY DEF Sound, Vesting
  <2>3. /\ VestedAmount(e.funded_amount, e.schedule, time) \in Nat
        /\ VestedAmount(e.funded_amount, e.schedule, time)
             <= VestedAmount(e.funded_amount, e.schedule, time + 1)
    BY <2>1, Vested DEF Sound, Vesting, EscrowRecord
  <2>4. PICK u \in Nat : u = time + 1
    OBVIOUS
  <2>5. VestedAmount(e.funded_amount, e.schedule, u) \in Nat
    BY <2>1, Vested DEF Sound, Vesting, EscrowRecord
  <2> QED
    BY <2>1, <2>2, <2>3, <2>4, <2>5
<1> QED
  BY <1>1 DEF Sound

-----------------------------------------------------------------------------
(* Milestones                                                               *)

\* `others` is `items` with the same weights and the milestones in `more`
\* completed besides those that were.
Advances(items, others, more) ==
  /\ Len(others) = Len(items)
  /\ \A j \in 1..Len(items) :
       /\ others[j].release_bps = items[j].release_bps
       /\ others[j].status = "Completed" <=> j \in more \/ items[j].status = "Completed"

\* Advancing keeps the weights and adds to what is done.
LEMMA Advanced ==
  ASSUME NEW items \in Seq(Milestone), NEW others \in Seq(Milestone), items # <<>>,
         NEW more \in SUBSET (1..Len(items)), Advances(items, others, more)
  PROVE  /\ others # <<>>
         /\ Len(others) = Len(items)
         /\ Weights(others) = Weights(items)
         /\ Done(others) = Done(items) \cup more
<1>1. Len(others) = Len(items) /\ Len(items) \in Nat
  BY DEF Advances
<1>2. Len(items) # 0
  OBVIOUS
<1>3. Weights(others) = Weights(items)
  BY <1>1 DEF Advances, Weights
<1>4. Done(others) = Done(items) \cup more
  BY <1>1 DEF Advances, Done
<1> QED
  BY <1>1, <1>2, <1>3, <1>4

\* dispute_milestone and resolve_milestone complete nothing.
LEMMA RelabelSound ==
  ASSUME NEW e \in EscrowRecord, NEW c \in ReleaseCondition, NEW m \in MilestoneSet,
         NEW n \in MilestoneSet, NEW r \in Balances, NEW s \in Balances, NEW time \in Nat,
         Sound(e, c, m, r, s, time), m.items # <<>>, Advances(m.items, n.items, {}),
         n.released_amount = m.released_amount
  PROVE  Sound(e, c, n, r, s, time)
<1>1. m.items \in Seq(Milestone) /\ n.items \in Seq(Milestone)
  BY DEF MilestoneSet
<1>2. /\ n.items # <<>> /\ Len(n.items) = Len(m.items)
      /\ Weights(n.items) = Weights(m.items) /\ Done(n.items) = Done(m.items) \cup {}
  BY <1>1, Advanced
<1>3. Phased(e, n, r, s)
  BY <1>2 DEF Sound, Phased
<1>4. Signed(c, n, r)
  BY DEF Sound, Signed
<1> QED
  BY <1>2, <1>3, <1>4 DEF Sound

\* The only asset of a milestone escrow takes a whole pro-rata payout.
LEMMA SoleAsset ==
  ASSUME NEW e \in EscrowRecord, e.funded_amount > 0, NEW a \in Token,
         e.assets[a] = e.funded_amount, \A t \in Token \ {a} : e.assets[t] = 0, NEW x \in Nat
  PROVE  /\ ProRata(e, x)[a] = x
         /\ \A t \in Token \ {a} : ProRata(e, x)[t] = 0
<1>1. e.funded_amount \in Nat \ {0} /\ DOMAIN e.assets = Token
  BY DEF EscrowRecord
<1>2. ProRata(e, x)[a] = x
  <2>1. ProRata(e, x)[a] = IF x = 0 THEN 0 ELSE (e.assets[a] * x) \div e.funded_amount
    BY <1>1 DEF ProRata
  <2>2. e.assets[a] \in Nat \ {0}
    BY <1>1
  <2>3. (e.assets[a] * x) \div e.funded_amount = x
    BY <1>1, <2>2, Leg
  <2> QED
    BY <2>1, <2>3
<1>3. ASSUME NEW t \in Token \ {a} PROVE ProRata(e, x)[t] = 0
  <2>1. PICK n \in Nat \ {0} : n = e.funded_amount
    BY <1>1
  <2>2. ProRata(e, x)[t] = IF x = 0 THEN 0 ELSE (0 * x) \div n
    BY <1>1, <2>1 DEF ProRata
  <2>3. 0 * x = 0 /\ 0 \div n = 0
    BY SMT
  <2> QED
    BY <2>2, <2>3
<1> QED
  BY <1>2, <1>3

\* cancel_remaining_milestones: the deposit that no milestone has paid goes
\* back to the sender, to the last unit.
LEMMA CancelSound ==
  ASSUME NEW e \in EscrowRecord, NEW f \in EscrowRecord, NEW c \in ReleaseCondition,
         NEW m \in MilestoneSet, NEW n \in MilestoneSet, NEW r \in Balances,
         NEW s \in Balances, NEW q \in Balances, NEW time \in Nat,
         Sound(e, c, m, r, s, time), m.items # <<>>, e.state \in Live,
         Advances(m.items, n.items, {}), n.released_amount = m.released_amount,
         Becomes(e, f, "Refunded", e.released_amount),
         Pays(s, q, ProRata(e, e.funded_amount - m.released_amount))
  PROVE  Sound(f, c, n, r, q, time)
<1>1. m.items \in Seq(Milestone) /\ n.items \in Seq(Milestone)
  BY DEF MilestoneSet
<1>2. /\ n.items # <<>> /\ Len(n.items) = Len(m.items)
      /\ Weights(n.items) = Weights(m.items) /\ Done(n.items) = Done(m.items)
  <2>1. /\ n.items # <<>> /\ Len(n.items) = Len(m.items)
        /\ Weights(n.items) = Weights(m.items) /\ Done(n.items) = Done(m.items) \cup {}
    BY <1>1, Advanced
  <2> QED
    BY <2>1
<1>3. Funding(e) /\ Phased(e, m, r, s)
  BY DEF Sound
<1>4. /\ f.state = "Refunded" /\ f.released_amount = e.released_amount
      /\ f.assets = e.assets /\ f.funded_amount = e.funded_amount /\ f.schedule = e.schedule
  BY DEF Becomes
<1>5. Funding(f)
  BY <1>3, <1>4 DEF Funding, Live
<1>6. PICK x \in Nat : x = e.funded_amount - m.released_amount
  <2>1. e.funded_amount \in Nat /\ m.released_amount \in Nat
    BY DEF EscrowRecord, MilestoneSet
  <2>2. m.released_amount <= e.funded_amount
    BY <1>3, PhasedPaid
  <2> QED
    BY <2>1, <2>2
<1>7. PICK a \in Token :
        /\ e.assets[a] = e.funded_amount
        /\ r[a] = m.released_amount
        /\ s[a] = IF e.state \in Live THEN 0 ELSE e.funded_amount - m.released_amount
        /\ \A t \in Token \ {a} : e.assets[t] = 0 /\ r[t] = 0 /\ s[t] = 0
  BY <1>3 DEF Phased
<1>8. e.funded_amount > 0
  BY <1>3 DEF Phased
<1>9. ProRata(e, x)[a] = x /\ \A t \in Token \ {a} : ProRata(e, x)[t] = 0
  BY <1>7, <1>8, SoleAsset
<1>10. q[a] = f.funded_amount - n.released_amount /\ \A t \in Token \ {a} : q[t] = 0
  BY <1>4, <1>6, <1>7, <1>9 DEF Pays
<1>11. Phased(f, n, r, q)
  <2>1. Done(n.items) # 1..Len(n.items)
    BY <1>2, <1>3 DEF Phased, Live, Settled
  <2>2. n.released_amount * BPS
          <= f.funded_amount * SumFunctionOnSet(Weights(n.items), Done(n.items))
    BY <1>2, <1>3, <1>4, <2>1 DEF Phased
  <2>3. f.state \notin Live /\ f.funded_amount > 0
    BY <1>4, <1>8 DEF Live
  <2>4. SumFunction(Weights(n.items)) = BPS
    BY <1>2, <1>3 DEF Phased
  <2>5. /\ f.assets[a] = f.funded_amount
        /\ r[a] = n.released_amount
        /\ q[a] = IF f.state \in Live THEN 0 ELSE f.funded_amount - n.released_amount
        /\ \A t \in Token \ {a} : f.assets[t] = 0 /\ r[t] = 0 /\ q[t] = 0
    BY <1>4, <1>7, <1>10, <2>3
  <2> QED
    BY <2>1, <2>2, <2>3, <2>4, <2>5, Zenon DEF Phased
<1>12. Signed(c, n, r)
  BY DEF Sound, Signed
<1>13. Vesting(f, time)
  BY <1>4 DEF Sound, Vesting
<1> QED
  BY <1>2, <1>5, <1>11, <1>12, <1>13 DEF Sound

\* Of a milestone schedule that is still open, the payout of one more
\* milestone: its rounded share, or all that is left for the last one.
LEMMA NextMilestone ==
  ASSUME NEW n \in Nat \ {0}, NEW y \in Nat, NEW items \in Seq(Milestone),
         SumFunction(Weights(items)) = BPS,
         y * BPS <= n * SumFunctionOnSet(Weights(items), Done(items)),
         NEW i \in 1..Len(items), i \notin Done(items)
  PROVE  LET x == MilestoneShare(n, items[i].release_bps) IN
         /\ x \in Nat
         /\ (y + x) * BPS <= n * SumFunctionOnSet(Weights(items), Done(items) \cup {i})
<1>1. PICK b \in Nat : b = items[i].release_bps
  <2>1. items[i] \in Milestone
    OBVIOUS
  <2> QED
    BY <2>1 DEF Milestone
<1>2. PICK w \in Nat : w = SumFunctionOnSet(Weights(items), Done(items))
  BY DoneWeight
<1>3. SumFunctionOnSet(Weights(items), Done(items) \cup {i}) = w + b
  <2>1. IsFiniteSet(Done(items)) /\ Done(items) \subseteq 1..Len(items)
    <3>1. Done(items) \subseteq 1..Len(items) /\ IsFiniteSet(1..Len(items))
      BY FS_Interval DEF Done
    <3> QED
      BY <3>1, FS_Subset
  <2>2. \A j \in 1..Len(items) : Weights(items)[j] \in Int
    <3>1. \A j \in 1..Len(items) : items[j] \in Milestone
      OBVIOUS
    <3> QED
      BY <3>1 DEF Weights, Milestone
  <2>3. Weights(items)[i] = b
    BY <1>1 DEF Weights
  <2>4. SumFunctionOnSet(Weights(items), Done(items) \cup {i})
          = SumFunctionOnSet(Weights(items), Done(items)) + Weights(items)[i]
    BY <2>1, <2>2, SumWith
  <2> QED
    BY <1>2, <2>3, <2>4
<1>4. PICK x \in Nat : x = MilestoneShare(n, b) /\ x * BPS <= n * b
  <2>1. BPS \in Nat \ {0}
    BY DEF BPS
  <2>2. (n * b) \div BPS \in Nat /\ ((n * b) \div BPS) * BPS <= n * b
    BY <2>1, Leg
  <2> QED
    BY <2>2 DEF MilestoneShare
<1>5. (y + x) * BPS <= n * (w + b)
  <2>1. BPS \in Nat
    BY DEF BPS
  <2>2. (y + x) * BPS = y * BPS + x * BPS /\ n * (w + b) = n * w + n * b
    BY <2>1, SMT
  <2>3. y * BPS \in Nat /\ x * BPS \in Nat /\ n * w \in Nat /\ n * b \in Nat
    BY <2>1
  <2>4. y * BPS <= n * w
    BY <1>2
  <2>5. PICK g \in Nat, h \in Nat, u \in Nat, v \in Nat :
          g = y * BPS /\ h = x * BPS /\ u = n * w /\ v = n * b
    BY <2>3
  <2>6. g + h <= u + v
    BY <1>4, <2>4, <2>5, SMTT(30)
  <2> QED
    BY <2>2, <2>5, <2>6
<1> QED
  BY <1>1, <1>3, <1>4, <1>5

\* What milestone i is paid, and what becomes of the escrow.
Owes(e, m, i, x) ==
  x = IF Cardinality(Unreleased(m)) = 1
        THEN TotalAmount(e.assets) - m.released_amount
        ELSE MilestoneShare(TotalAmount(e.assets), m.items[i].release_bps)
Counts(m, n, x) == n.released_amount = m.released_amount + x
PaysOne(r, p, b, x) == Pays(r, p, [Nothing EXCEPT ![b] = x])
Completes(e, f, n) ==
  IF Unreleased(n) = {} THEN Becomes(e, f, "Released", n.released_amount) ELSE f = e

\* release_milestone keeps the escrow sound; the one that completes the
\* schedule settles it with nothing left.
LEMMA MilestoneSound ==
  ASSUME NEW e \in EscrowRecord, NEW f \in EscrowRecord, NEW c \in ReleaseCondition,
         NEW m \in MilestoneSet, NEW n \in MilestoneSet, NEW r \in Balances,
         NEW s \in Balances, NEW p \in Balances, NEW time \in Nat,
         Sound(e, c, m, r, s, time), m.items # <<>>, e.state = "Funded",
         NEW i \in 1..Len(m.items), i \notin Done(m.items),
         Advances(m.items, n.items, {i}),
         NEW x \in Nat,
         Owes(e, m, i, x),
         Counts(m, n, x),
         NEW b \in Token, e.assets[b] > 0, PaysOne(r, p, b, x),
         Completes(e, f, n)
  PROVE  Sound(f, c, n, p, s, time)
<1> DEFINE items == m.items
           done == Done(items)
<1>1. items \in Seq(Milestone) /\ n.items \in Seq(Milestone) /\ m.released_amount \in Nat
      /\ Len(items) \in Nat
  BY DEF MilestoneSet
<1>2. /\ n.items # <<>> /\ Len(n.items) = Len(items)
      /\ Weights(n.items) = Weights(items) /\ Done(n.items) = done \cup {i}
  BY <1>1, Advanced
<1>3. /\ Unreleased(m) = (1..Len(items)) \ done
      /\ Unreleased(n) = (1..Len(items)) \ (done \cup {i})
      /\ done \subseteq 1..Len(items) /\ i \notin done
  BY <1>2 DEF Unreleased, Done
<1>4. Funding(e) /\ Phased(e, m, r, s)
  BY DEF Sound
<1>5. PICK k \in Nat \ {0} : k = e.funded_amount
  <2>1. e.funded_amount \in Nat
    BY DEF EscrowRecord
  <2> QED
    BY <1>4, <2>1 DEF Phased
<1> k > 0 /\ k = TotalAmount(e.assets)
  BY <1>4, <1>5 DEF Funding
<1>6. /\ SumFunction(Weights(items)) = BPS
      /\ m.released_amount * BPS <= k * SumFunctionOnSet(Weights(items), done)
  BY <1>3, <1>4, <1>5 DEF Phased
<1>7. PICK a \in Token :
        /\ e.assets[a] = k
        /\ r[a] = m.released_amount
        /\ s[a] = 0
        /\ \A t \in Token \ {a} : e.assets[t] = 0 /\ r[t] = 0 /\ s[t] = 0
  <2>1. e.state \in Live
    BY DEF Live
  <2> QED
    BY <1>4, <1>5, <2>1 DEF Phased
<1>8. b = a
  BY <1>7
<1>9. p[a] = n.released_amount /\ \A t \in Token \ {a} : p[t] = 0
  BY <1>7, <1>8 DEF Pays, PaysOne, Counts, Nothing
<1>10. f.assets = e.assets /\ f.funded_amount = e.funded_amount /\ f.schedule = e.schedule
  BY DEF Becomes, Completes
<1> f.funded_amount = k /\ TotalAmount(f.assets) = k
  BY <1>5, <1>10
<1>11. Signed(c, n, p)
  BY DEF Sound, Signed, ReleaseCondition
<1>12. CASE Unreleased(n) = {}
  <2>1. Unreleased(m) = {i}
    BY <1>3, <1>12
  <2>2. Cardinality(Unreleased(m)) = 1
    BY <2>1, FS_Singleton
  <2>3. n.released_amount = k
    BY <1>1, <1>5, <2>2 DEF Owes, Counts
  <2>4. f.state = "Released" /\ f.released_amount = k
    BY <1>12, <2>3 DEF Becomes, Completes
  <2>5. Done(n.items) = 1..Len(n.items)
    BY <1>2, <1>3, <1>12
  <2>6. f.state \in Settled /\ f.state \notin Live
    BY <2>4 DEF Settled, Live
  <2>7. Funding(f)
    BY <1>4, <1>5, <1>10, <2>4 DEF Funding, Live
  <2>8. /\ f.assets[a] = f.funded_amount
        /\ p[a] = n.released_amount
        /\ s[a] = IF f.state \in Live THEN 0 ELSE f.funded_amount - n.released_amount
        /\ \A t \in Token \ {a} : f.assets[t] = 0 /\ p[t] = 0 /\ s[t] = 0
    BY <1>5, <1>7, <1>9, <1>10, <2>3, <2>6
  <2>9. f.funded_amount > 0 /\ n.released_amount = f.funded_amount
        /\ SumFunction(Weights(n.items)) = BPS
    BY <1>2, <1>5, <1>6, <1>10, <2>3
  <2>10. Phased(f, n, p, s)
    BY <2>5, <2>6, <2>8, <2>9, Zenon DEF Phased
  <2>11. Vesting(f, time)
    BY <1>10, <2>4 DEF Sound, Vesting
  <2> QED
    BY <1>2, <1>11, <2>7, <2>10, <2>11 DEF Sound
<1>13. CASE Unreleased(n) # {}
  <2>1. f = e
    BY <1>13 DEF Completes
  <2>2. Cardinality(Unreleased(m)) # 1
    <3>1. IsFiniteSet(Unreleased(m))
      <4>1. IsFiniteSet(1..Len(items)) /\ Unreleased(m) \subseteq 1..Len(items)
        <5>1. 1 \in Int /\ Len(items) \in Int
          BY <1>1
        <5>2. IsFiniteSet(1..Len(items))
          BY <5>1, FS_Interval
        <5> QED
          BY <1>3, <5>2
      <4> QED
        BY <4>1, FS_Subset
    <3>2. ASSUME NEW z, Unreleased(m) = {z} PROVE FALSE
      BY <1>3, <1>13, <3>2
    <3> QED
      BY <3>1, <3>2, FS_Singleton
  <2>3. x = MilestoneShare(k, items[i].release_bps)
    BY <1>5, <2>2 DEF Owes
  <2>4. n.released_amount * BPS <= k * SumFunctionOnSet(Weights(items), done \cup {i})
    BY <1>1, <1>3, <1>6, <2>3, NextMilestone DEF Counts
  <2>5. Done(n.items) # 1..Len(n.items)
    BY <1>2, <1>3, <1>13
  <2>6. f.state \in Live
    BY <2>1 DEF Live
  <2>7. /\ f.assets[a] = f.funded_amount
        /\ p[a] = n.released_amount
        /\ s[a] = IF f.state \in Live THEN 0 ELSE f.funded_amount - n.released_amount
        /\ \A t \in Token \ {a} : f.assets[t] = 0 /\ p[t] = 0 /\ s[t] = 0
    BY <1>5, <1>7, <1>9, <2>1, <2>6
  <2>8. f.funded_amount > 0 /\ SumFunction(Weights(n.items)) = BPS
        /\ n.released_amount * BPS
             <= f.funded_amount * SumFunctionOnSet(Weights(n.items), Done(n.items))
    BY <1>2, <1>5, <1>6, <2>1, <2>4
  <2>9. Phased(f, n, p, s)
    BY <2>5, <2>7, <2>8, Zenon DEF Phased
  <2> QED
    BY <1>2, <1>11, <2>1, <2>9 DEF Sound
<1> QED
  BY <1>12, <1>13

-----------------------------------------------------------------------------
(* Creation                                                                 *)

\* A stored schedule that releases anything is ordered.
Ordered(s) ==
  Scheduled(s) => /\ s.start_time <= s.cliff_time
                  /\ s.cliff_time <= s.end_time
                  /\ s.release_type = "Linear" => s.start_time < s.end_time

\* A release condition nobody has signed yet.
Unsigned(c) == c.by = {} /\ c.approvals = 0

\* Nothing is a balance, and a number of each token.
LEMMA NothingPaid == Nothing \in Balances /\ \A t \in Token : Nothing[t] = 0
  BY DEF Nothing, Balances

\* A condition nobody signed is sound while nothing has been paid.
LEMMA UnsignedSound ==
  ASSUME NEW c \in ReleaseCondition, Unsigned(c), NEW m,
         ~ (m.items # <<>>) \/ c.threshold = 0
  PROVE  Signed(c, m, Nothing)
<1>1. IsFiniteSet(c.by) /\ Cardinality(c.by) = 0
  BY FS_EmptySet DEF Unsigned
<1>2. ~ \E t \in Token : Nothing[t] > 0
  BY NothingPaid
<1> QED
  BY <1>1, <1>2 DEF Signed, Unsigned

\* A new escrow without milestones, filled at once or awaiting its deposit.
LEMMA NewSound ==
  ASSUME NEW e \in EscrowRecord, NEW c \in ReleaseCondition, NEW m \in MilestoneSet,
         NEW time \in Nat, ~ (m.items # <<>>), Unsigned(c), Ordered(e.schedule),
         e.released_amount = 0, TotalAmount(e.assets) > 0,
         \/ e.state = "Funded" /\ e.funded_amount = TotalAmount(e.assets)
         \/ e.state = "Created" /\ e.funded_amount = 0
  PROVE  Sound(e, c, m, Nothing, Nothing, time)
<1>1. TotalAmount(e.assets) \in Nat /\ e.funded_amount \in Nat /\ e.assets \in [Token -> Nat]
  BY Totals DEF EscrowRecord
<1>2. Funding(e)
  BY <1>1 DEF Funding, Live
<1>3. Plain(e, Nothing, Nothing)
  <2>1. \A n \in Nat, a \in Nat : 0 * n <= a * 0
    BY SMT
  <2> QED
    BY <1>1, <2>1, NothingPaid DEF Plain, Live, Settled
<1>4. Signed(c, m, Nothing)
  BY UnsignedSound
<1>5. Vesting(e, time)
  <2>1. ASSUME Scheduled(e.schedule)
        PROVE  VestedAmount(e.funded_amount, e.schedule, time) \in Nat
    BY <1>1, <2>1, Vested DEF Ordered, EscrowRecord
  <2> QED
    BY <2>1 DEF Vesting, Ordered
<1> QED
  BY <1>2, <1>3, <1>4, <1>5 DEF Sound

\* A new milestone escrow: one token, weights of 100%, nothing completed.
LEMMA NewPhasedSound ==
  ASSUME NEW e \in EscrowRecord, NEW c \in ReleaseCondition, NEW m \in MilestoneSet,
         NEW time \in Nat, m.items # <<>>, Unsigned(c), c.threshold = 0,
         ~ Scheduled(e.schedule), e.released_amount = 0, e.state = "Funded",
         NEW a \in Token, e.assets[a] > 0, e.funded_amount = e.assets[a],
         \A t \in Token \ {a} : e.assets[t] = 0,
         m.released_amount = 0, SumFunction(Weights(m.items)) = BPS,
         \A i \in 1..Len(m.items) : m.items[i].status = "Pending"
  PROVE  Sound(e, c, m, Nothing, Nothing, time)
<1>1. e.assets \in [Token -> Nat] /\ e.funded_amount \in Nat /\ e.funded_amount > 0
      /\ e.state \in Live
  BY DEF EscrowRecord, Live
<1>2. TotalAmount(e.assets) = e.funded_amount
  BY <1>1, Totals
<1>3. Funding(e)
  BY <1>1, <1>2 DEF Funding
<1>4. Done(m.items) = {}
  BY DEF Done
<1>5. Done(m.items) # 1..Len(m.items)
  <2>1. m.items \in Seq(Milestone)
    BY DEF MilestoneSet
  <2>2. Len(m.items) \in Nat /\ Len(m.items) # 0
    BY <2>1
  <2>3. 1 \in 1..Len(m.items)
    BY <2>2
  <2> QED
    BY <1>4, <2>3
<1>6. m.released_amount * BPS
        <= e.funded_amount * SumFunctionOnSet(Weights(m.items), Done(m.items))
  <2>1. SumFunctionOnSet(Weights(m.items), Done(m.items)) = 0
    BY <1>4, SumEmpty
  <2>2. 0 * BPS = 0 /\ \A n \in Nat : n * 0 = 0
    BY SMT DEF BPS
  <2> QED
    BY <1>1, <2>1, <2>2
<1>7. Phased(e, m, Nothing, Nothing)
  <2>1. /\ e.assets[a] = e.funded_amount
        /\ Nothing[a] = m.released_amount
        /\ Nothing[a] = IF e.state \in Live THEN 0 ELSE e.funded_amount - m.released_amount
        /\ \A t \in Token \ {a} : e.assets[t] = 0 /\ Nothing[t] = 0 /\ Nothing[t] = 0
    BY <1>1, NothingPaid
  <2> QED
    BY <1>1, <1>5, <1>6, <2>1, Zenon DEF Phased
<1>8. Signed(c, m, Nothing)
  BY UnsignedSound
<1>9. Vesting(e, time)
  BY DEF Vesting
<1> QED
  BY <1>3, <1>7, <1>8, <1>9 DEF Sound

-----------------------------------------------------------------------------
(* Custody                                                                  *)

\* One more escrow adds what it holds.
LEMMA SumStored ==
  ASSUME NEW k \in Nat, NEW f, NEW g, DOMAIN f = 1..k, DOMAIN g = 1..(k + 1),
         \A i \in 1..k : f[i] \in Int /\ g[i] = f[i], g[k + 1] \in Int
  PROVE  SumFunction(g) = SumFunction(f) + g[k + 1]
<1>1. IsFiniteSet(1..k) /\ k + 1 \notin 1..k /\ 1..(k + 1) = (1..k) \cup {k + 1}
  <2>1. 1 \in Int /\ k \in Int
    OBVIOUS
  <2>2. IsFiniteSet(1..k)
    BY <2>1, FS_Interval
  <2>3. k + 1 \notin 1..k /\ 1..(k + 1) = (1..k) \cup {k + 1}
    OBVIOUS
  <2> QED
    BY <2>2, <2>3
<1>2. SumFunctionOnSet(g, (1..k) \cup {k + 1}) = SumFunctionOnSet(g, 1..k) + g[k + 1]
  <2>1. PICK S, e : S = 1..k /\ e = k + 1
    OBVIOUS
  <2>2. IsFiniteSet(S) /\ e \notin S /\ \A x \in S : g[x] \in Int
    BY <1>1, <2>1
  <2>3. g[e] \in Int
    BY <2>1
  <2>4. SumFunctionOnSet(g, S \cup {e}) = SumFunctionOnSet(g, S) + g[e]
    BY <2>2, <2>3, SumWith
  <2> QED
    BY <2>1, <2>4
<1>3. SumFunctionOnSet(g, 1..k) = SumFunctionOnSet(f, 1..k)
  BY <1>1, SumSame
<1> QED
  BY <1>1, <1>2, <1>3 DEF SumFunction

\* One escrow that moves changes the sum by what it gains.
LEMMA SumMoved ==
  ASSUME NEW k \in Nat, NEW f, NEW g, DOMAIN f = 1..k, DOMAIN g = 1..k, NEW id,
         AgreeBut(f, g, 1..k, id)
  PROVE  SumFunction(g) = SumFunction(f) + g[id] - f[id]
<1>1. IsFiniteSet(1..k)
  BY FS_Interval
<1>2. SumFunctionOnSet(g, 1..k) = SumFunctionOnSet(f, 1..k) + g[id] - f[id]
  BY <1>1, SumAgreeing
<1> QED
  BY <1>2 DEF SumFunction

-----------------------------------------------------------------------------
(* One operation                                                            *)

\* Nothing of escrow j changes.
Same(j) ==
  /\ escrow'[j] = escrow[j]
  /\ condition'[j] = condition[j]
  /\ milestones'[j] = milestones[j]
  /\ toRecipient'[j] = toRecipient[j]
  /\ toSender'[j] = toSender[j]

\* Only escrow id changes, at one instant.
Alone(id) ==
  /\ count' = count
  /\ now' = now
  /\ \A j \in (1..count) \ {id} : Same(j)

\* The escrows that follow are sound as well.
SoundAfter(id) ==
  Sound(escrow'[id], condition'[id], milestones'[id], toRecipient'[id], toSender'[id], now)

HeldNow(id, t) == Holds(escrow[id], toRecipient[id], toSender[id], t)
HeldNext(id, t) == Holds(escrow'[id], toRecipient'[id], toSender'[id], t)

\* Custody moves with the escrow, and the escrow moves forward: it is funded,
\* it pays, it is given up unfunded, or it is settled and keeps still.
Moves(id) ==
  /\ \A t \in Token : custody'[t] = custody[t] + HeldNext(id, t) - HeldNow(id, t)
  /\ \/ escrow[id].state = "Created" /\ escrow'[id].state = "Funded"
     \/ /\ escrow[id].state \in Live
        /\ escrow'[id].state \in Live \cup Settled
        /\ \A t \in Token : HeldNext(id, t) <= HeldNow(id, t)
     \/ /\ escrow[id].state = "Created"
        /\ escrow'[id].state \in Settled
        /\ \A t \in Token : HeldNext(id, t) = HeldNow(id, t)
     \/ /\ escrow[id].state \in Settled
        /\ escrow'[id].state \in {escrow[id].state, "Closed"}
        /\ toRecipient'[id] = toRecipient[id]
        /\ toSender'[id] = toSender[id]
        /\ \A t \in Token : HeldNext(id, t) = HeldNow(id, t)

\* The sender of an escrow without milestones is paid before the deadline or
\* once the clock says that the grace period is over.
Shields(id) ==
  toSender'[id] # toSender[id] /\ ~HasMilestones(id) =>
    now < escrow[id].deadline \/ GraceOver(escrow[id])

Effect(id) == Alone(id) /\ SoundAfter(id) /\ Moves(id) /\ Shields(id)

\* What a payout does to the books.
LEMMA Paying ==
  ASSUME TypeInv, NEW id \in 1..count, NEW amounts
  PROVE  /\ PayRecipient(id, amounts) =>
              /\ Pays(toRecipient[id], toRecipient'[id], amounts)
              /\ toSender' = toSender
              /\ \A j \in (1..count) \ {id} : toRecipient'[j] = toRecipient[j]
              /\ \A t \in Token : amounts[t] \in Nat /\ custody'[t] = custody[t] - amounts[t]
         /\ PaySender(id, amounts) =>
              /\ Pays(toSender[id], toSender'[id], amounts)
              /\ toRecipient' = toRecipient
              /\ \A j \in (1..count) \ {id} : toSender'[j] = toSender[j]
              /\ \A t \in Token : amounts[t] \in Nat /\ custody'[t] = custody[t] - amounts[t]
<1>1. custody \in [Token -> Nat]
  BY DEF TypeInv, TypeOK
<1>2. /\ toRecipient \in [1..count -> [Token -> Nat]]
      /\ toSender \in [1..count -> [Token -> Nat]]
  BY DEF TypeInv, TypeOK
<1>3. ASSUME \A t \in Token : amounts[t] \in 0..custody[t]
      PROVE  \A t \in Token : amounts[t] \in Nat
  BY <1>1, <1>3
<1>4. ASSUME PayRecipient(id, amounts)
      PROVE  /\ Pays(toRecipient[id], toRecipient'[id], amounts)
             /\ toSender' = toSender
             /\ \A j \in (1..count) \ {id} : toRecipient'[j] = toRecipient[j]
             /\ \A t \in Token : amounts[t] \in Nat /\ custody'[t] = custody[t] - amounts[t]
  BY <1>2, <1>3, <1>4 DEF PayRecipient, Pays
<1>5. ASSUME PaySender(id, amounts)
      PROVE  /\ Pays(toSender[id], toSender'[id], amounts)
             /\ toRecipient' = toRecipient
             /\ \A j \in (1..count) \ {id} : toSender'[j] = toSender[j]
             /\ \A t \in Token : amounts[t] \in Nat /\ custody'[t] = custody[t] - amounts[t]
  BY <1>2, <1>3, <1>5 DEF PaySender, Pays
<1> QED
  BY <1>4, <1>5

\* The types of one escrow's records, before and after a step.
LEMMA RecordTypes ==
  ASSUME TypeInv, NEW id \in 1..count
  PROVE  /\ escrow[id] \in EscrowRecord
         /\ condition[id] \in ReleaseCondition
         /\ milestones[id] \in MilestoneSet
         /\ toRecipient[id] \in Balances
         /\ toSender[id] \in Balances
         /\ now \in Nat /\ count \in Nat
         /\ custody \in [Token -> Nat]
  BY DEF TypeInv, TypeOK, Balances

\* The same of the next state of a step that creates no escrow.
LEMMA RecordTypesNext ==
  ASSUME TypeInv', count' = count, NEW id \in 1..count
  PROVE  /\ escrow'[id] \in EscrowRecord
         /\ condition'[id] \in ReleaseCondition
         /\ milestones'[id] \in MilestoneSet
         /\ toRecipient'[id] \in Balances
         /\ toSender'[id] \in Balances
  BY DEF TypeInv, TypeOK, Balances

\* A payout of an escrow moves custody with it.
LEMMA PaymentMoves ==
  ASSUME TypeInv, TypeInv', count' = count, NEW id \in 1..count, NEW amounts,
         PayRecipient(id, amounts) \/ PaySender(id, amounts),
         NEW st, NEW released, Becomes(escrow[id], escrow'[id], st, released),
         \/ escrow[id].state \in Live /\ st \in Live \cup Settled
         \/ /\ escrow[id].state = "Created" /\ st \in Settled
            /\ \A t \in Token : amounts[t] = 0
  PROVE  Moves(id)
<1> DEFINE e == escrow[id]
           f == escrow'[id]
<1>1. /\ e \in EscrowRecord /\ toRecipient[id] \in Balances /\ toSender[id] \in Balances
      /\ custody \in [Token -> Nat]
  BY RecordTypes
<1>2. toRecipient'[id] \in Balances /\ toSender'[id] \in Balances
  BY RecordTypesNext
<1>3. \A t \in Token : amounts[t] \in Nat /\ custody'[t] = custody[t] - amounts[t]
  BY Paying
<1>4. f.assets = e.assets /\ f.funded_amount = e.funded_amount /\ f.state = st
  BY DEF Becomes
<1>5. ASSUME NEW t \in Token
      PROVE  /\ HeldNext(id, t) = HeldNow(id, t) - amounts[t]
             /\ HeldNow(id, t) \in Int
  <2>1. PICK a \in Nat : a = (IF e.funded_amount = 0 THEN Nothing ELSE e.assets)[t]
    BY <1>1, NothingPaid DEF EscrowRecord, Balances
  <2>2. /\ toRecipient[id][t] \in Nat /\ toSender[id][t] \in Nat
        /\ toRecipient'[id][t] \in Nat /\ toSender'[id][t] \in Nat
    BY <1>1, <1>2 DEF Balances
  <2>3. /\ HeldNow(id, t) = a - (toRecipient[id][t] + toSender[id][t])
        /\ HeldNext(id, t) = a - (toRecipient'[id][t] + toSender'[id][t])
    BY <1>4, <2>1 DEF HeldNow, HeldNext, Holds
  <2>4. \/ /\ toRecipient'[id][t] = toRecipient[id][t] + amounts[t]
           /\ toSender'[id][t] = toSender[id][t]
        \/ /\ toSender'[id][t] = toSender[id][t] + amounts[t]
           /\ toRecipient'[id][t] = toRecipient[id][t]
    BY Paying DEF Pays
  <2>5. amounts[t] \in Nat
    BY <1>3
  <2> QED
    BY <2>2, <2>3, <2>4, <2>5
<1>6. \A t \in Token : custody'[t] = custody[t] + HeldNext(id, t) - HeldNow(id, t)
  BY <1>1, <1>3, <1>5
<1>7. \A t \in Token : HeldNext(id, t) <= HeldNow(id, t)
  BY <1>3, <1>5
<1>8. CASE e.state \in Live /\ st \in Live \cup Settled
  BY <1>4, <1>6, <1>7, <1>8 DEF Moves
<1>9. CASE e.state = "Created" /\ st \in Settled /\ \A t \in Token : amounts[t] = 0
  <2>1. \A t \in Token : HeldNext(id, t) = HeldNow(id, t)
    BY <1>5, <1>9
  <2> QED
    BY <1>4, <1>6, <1>9, <2>1 DEF Moves
<1> QED
  BY <1>8, <1>9

\* The record of escrow id is replaced by another.
Replaces(f, id) == \E v : f' = [f EXCEPT ![id] = v]

\* A step that leaves the registry alone, and replaces only the records of
\* escrow id, leaves the others as they are.
LEMMA OthersSame ==
  ASSUME TypeInv, NEW id \in 1..count, UNCHANGED registry,
         Replaces(escrow, id) \/ escrow' = escrow,
         condition' = condition \/ Replaces(condition, id),
         milestones' = milestones \/ Replaces(milestones, id),
         \A j \in (1..count) \ {id} :
           toRecipient'[j] = toRecipient[j] /\ toSender'[j] = toSender[j]
  PROVE  Alone(id)
<1>1. DOMAIN escrow = 1..count /\ DOMAIN condition = 1..count /\ DOMAIN milestones = 1..count
  BY DEF TypeInv, TypeOK
<1>2. \A j \in (1..count) \ {id} : escrow'[j] = escrow[j]
  BY <1>1 DEF Replaces
<1>3. \A j \in (1..count) \ {id} : condition'[j] = condition[j]
  BY <1>1 DEF Replaces
<1>4. \A j \in (1..count) \ {id} : milestones'[j] = milestones[j]
  BY <1>1 DEF Replaces
<1> QED
  BY <1>2, <1>3, <1>4 DEF Alone, Same, registry

\* withdraw and claim.
LEMMA PayVestedEffect ==
  ASSUME Inv, TypeInv', NEW id \in 1..count, NEW amount \in Nat,
         PayVested(id, amount), UNCHANGED <<registry, condition, milestones>>,
         ~HasMilestones(id), escrow[id].state = "Funded", ReleaseApprovalsMet(id),
         escrow[id].released_amount + amount <= escrow[id].funded_amount,
         Scheduled(escrow[id].schedule) =>
           escrow[id].released_amount + amount
             <= VestedAmount(escrow[id].funded_amount, escrow[id].schedule, now)
  PROVE  Effect(id)
<1> DEFINE e == escrow[id]
           st == IF e.released_amount + amount = e.funded_amount THEN "Released" ELSE "Funded"
<1>1. TypeInv /\ count' = count /\ UNCHANGED registry
  BY DEF Inv, registry
<1>2. /\ e \in EscrowRecord /\ condition[id] \in ReleaseCondition
      /\ milestones[id] \in MilestoneSet /\ toRecipient[id] \in Balances
      /\ toSender[id] \in Balances /\ now \in Nat
  BY <1>1, RecordTypes
<1>3. escrow'[id] \in EscrowRecord /\ toRecipient'[id] \in Balances
  BY <1>1, RecordTypesNext
<1>4. PayRecipient(id, ProRata(e, amount))
  BY DEF PayVested
<1>5. Becomes(e, escrow'[id], st, e.released_amount + amount) /\ Replaces(escrow, id)
  <2>1. escrow \in [1..count -> EscrowRecord]
    BY <1>1 DEF TypeInv, TypeOK
  <2>2. PICK v \in Int : v = e.released_amount + amount
    BY <1>2 DEF EscrowRecord
  <2>3. PICK w : w = st
    OBVIOUS
  <2>4. escrow' = [escrow EXCEPT ![id] =
           [[e EXCEPT !.released_amount = v] EXCEPT !.state = w]]
    BY <2>1, <2>2, <2>3 DEF PayVested
  <2>5. Becomes(e, escrow'[id], w, v)
    BY <1>2, <2>1, <2>4 DEF Becomes, EscrowRecord
  <2> QED
    BY <2>2, <2>3, <2>4, <2>5, Zenon DEF Replaces
<1>6. /\ Pays(toRecipient[id], toRecipient'[id], ProRata(e, amount))
      /\ toSender' = toSender
      /\ \A j \in (1..count) \ {id} : toRecipient'[j] = toRecipient[j]
  BY <1>1, <1>4, Paying
<1>7. Alone(id)
  BY <1>1, <1>5, <1>6, OthersSame
<1>8. SoundAfter(id)
  <2>1. Sound(e, condition[id], milestones[id], toRecipient[id], toSender[id], now)
    BY DEF Inv, EscrowsSound
  <2>2. condition[id].approvals >= condition[id].threshold /\ ~ (milestones[id].items # <<>>)
    BY DEF ReleaseApprovalsMet, HasMilestones
  <2>3. Sound(escrow'[id], condition[id], milestones[id], toRecipient'[id], toSender[id], now)
    BY <1>2, <1>3, <1>5, <1>6, <2>1, <2>2, PartialSound
  <2> QED
    BY <1>6, <2>3 DEF SoundAfter
<1>9. Moves(id)
  <2>1. e.state \in Live /\ st \in Live \cup Settled
    BY DEF Live, Settled
  <2> HIDE DEF st
  <2> QED
    BY <1>1, <1>4, <1>5, <2>1, PaymentMoves
<1>10. Shields(id)
  BY <1>6 DEF Shields
<1> QED
  BY <1>7, <1>8, <1>9, <1>10 DEF Effect

\* Claimable amounts are what has vested and was not released.
LEMMA ClaimableVests ==
  ASSUME NEW e \in EscrowRecord, NEW time \in Nat, Vesting(e, time), Funding(e),
         NEW x \in Int, x > 0, x <= ClaimableAmount(e, time)
  PROVE  /\ Scheduled(e.schedule)
         /\ x \in Nat
         /\ e.released_amount + x <= VestedAmount(e.funded_amount, e.schedule, time)
         /\ e.released_amount + x <= e.funded_amount
<1>1. e.released_amount \in Nat /\ e.funded_amount \in Nat
  BY DEF EscrowRecord
<1>2. CASE ~Scheduled(e.schedule)
  BY <1>2 DEF ClaimableAmount
<1>3. CASE Scheduled(e.schedule)
  <2>1. PICK v \in Nat : v = VestedAmount(e.funded_amount, e.schedule, time) /\ v <= e.funded_amount
    BY <1>1, <1>3, Vested DEF Vesting, EscrowRecord
  <2>2. x <= v - e.released_amount
    BY <1>1, <1>3, <2>1 DEF ClaimableAmount
  <2> QED
    BY <1>1, <1>3, <2>1, <2>2
<1> QED
  BY <1>2, <1>3

\* Withdrawing what is claimable.
LEMMA WithdrawEffect ==
  ASSUME Inv, TypeInv', NEW id \in 1..count, NEW caller, NEW amount \in Int,
         Withdraw(caller, id, amount)
  PROVE  Effect(id)
<1> DEFINE e == escrow[id]
<1>1. /\ amount > 0 /\ ~HasMilestones(id) /\ e.state = "Funded"
      /\ amount <= ClaimableAmount(e, now) /\ ReleaseApprovalsMet(id)
      /\ PayVested(id, amount) /\ UNCHANGED <<registry, condition, milestones>>
  BY DEF Withdraw, CanWithdraw
<1>2. e \in EscrowRecord /\ now \in Nat
  BY RecordTypes DEF Inv
<1>3. Funding(e) /\ Vesting(e, now)
  BY DEF Inv, EscrowsSound, Sound
<1>4. /\ amount \in Nat
      /\ e.released_amount + amount <= VestedAmount(e.funded_amount, e.schedule, now)
      /\ e.released_amount + amount <= e.funded_amount
  BY <1>1, <1>2, <1>3, ClaimableVests
<1> QED
  BY <1>1, <1>4, PayVestedEffect

\* Claiming what is claimable, or after the grace period all that remains.
LEMMA ClaimFundedEffect ==
  ASSUME Inv, TypeInv', NEW id \in 1..count, NEW caller, ClaimFunded(caller, id)
  PROVE  Effect(id)
<1> DEFINE e == escrow[id]
<1>1. PICK x : x = IF Scheduled(e.schedule) THEN ClaimableAmount(e, now) ELSE Remaining(e)
  OBVIOUS
<1>2. /\ x > 0 /\ ~HasMilestones(id) /\ e.state = "Funded" /\ ReleaseApprovalsMet(id)
      /\ PayVested(id, x) /\ UNCHANGED <<registry, condition, milestones>>
  BY <1>1 DEF ClaimFunded, CanClaimFunded, Claimable
<1>3. e \in EscrowRecord /\ now \in Nat
  BY RecordTypes DEF Inv
<1>4. Funding(e) /\ Vesting(e, now) /\ e.released_amount \in Nat /\ e.funded_amount \in Nat
  BY <1>3 DEF Inv, EscrowsSound, Sound, EscrowRecord
<1>5. CASE Scheduled(e.schedule)
  <2>1. x \in Int /\ x <= ClaimableAmount(e, now)
    BY <1>1, <1>3, <1>5, ClaimableInt
  <2>2. /\ x \in Nat
        /\ e.released_amount + x <= VestedAmount(e.funded_amount, e.schedule, now)
        /\ e.released_amount + x <= e.funded_amount
    BY <1>2, <1>3, <1>4, <2>1, ClaimableVests
  <2> QED
    BY <1>2, <2>2, PayVestedEffect
<1>6. CASE ~Scheduled(e.schedule)
  <2>1. x \in Nat /\ e.released_amount + x <= e.funded_amount
    BY <1>1, <1>2, <1>4, <1>6 DEF Remaining
  <2> QED
    BY <1>2, <1>6, <2>1, PayVestedEffect
<1> QED
  BY <1>5, <1>6

\* Only the state of escrow id is rewritten.
LEMMA Restated ==
  ASSUME TypeInv, NEW id \in 1..count, NEW st, escrow' = [escrow EXCEPT ![id].state = st]
  PROVE  /\ Becomes(escrow[id], escrow'[id], st, escrow[id].released_amount)
         /\ Replaces(escrow, id)
<1>1. escrow \in [1..count -> EscrowRecord] /\ escrow[id] \in EscrowRecord
  BY DEF TypeInv, TypeOK
<1>2. escrow'[id] = [escrow[id] EXCEPT !.state = st]
  BY <1>1
<1>3. Becomes(escrow[id], escrow'[id], st, escrow[id].released_amount)
  BY <1>1, <1>2 DEF Becomes, EscrowRecord
<1>4. Replaces(escrow, id)
  BY Zenon DEF Replaces
<1> QED
  BY <1>3, <1>4

\* Nothing is paid out of an escrow nobody funded.
LEMMA Unfunded ==
  ASSUME NEW e \in EscrowRecord, NEW c, NEW m, NEW r, NEW s, NEW time,
         Sound(e, c, m, r, s, time), e.state = "Created"
  PROVE  \A t \in Token : ProRata(e, Remaining(e))[t] = 0
<1>1. e.funded_amount = 0 /\ e.released_amount <= 0 /\ e.released_amount \in Nat
  BY DEF Sound, Funding, EscrowRecord
<1>2. Remaining(e) = 0
  BY <1>1 DEF Remaining
<1>3. DOMAIN e.assets = Token
  BY DEF EscrowRecord
<1> QED
  BY <1>2, <1>3 DEF ProRata

\* release, override_release and a claim on an escrow nobody funded.
LEMMA FinalEffect ==
  ASSUME Inv, TypeInv', NEW id \in 1..count,
         ~HasMilestones(id), escrow[id].state \in {"Created", "Funded"},
         ReleaseApprovalsMet(id), UNCHANGED <<registry, condition, milestones>>,
         PayRecipient(id, ProRata(escrow[id], Remaining(escrow[id]))),
         NEW g \in {escrow[id].released_amount, escrow[id].funded_amount},
         Becomes(escrow[id], escrow'[id], "Released", g), Replaces(escrow, id)
  PROVE  Effect(id)
<1> DEFINE e == escrow[id]
<1>1. TypeInv /\ count' = count /\ UNCHANGED registry
  BY DEF Inv, registry
<1>2. /\ e \in EscrowRecord /\ condition[id] \in ReleaseCondition
      /\ milestones[id] \in MilestoneSet /\ toRecipient[id] \in Balances
      /\ toSender[id] \in Balances /\ now \in Nat
  BY <1>1, RecordTypes
<1>3. escrow'[id] \in EscrowRecord /\ toRecipient'[id] \in Balances
  BY <1>1, RecordTypesNext
<1>4. /\ Pays(toRecipient[id], toRecipient'[id], ProRata(e, Remaining(e)))
      /\ toSender' = toSender
      /\ \A j \in (1..count) \ {id} : toRecipient'[j] = toRecipient[j]
  BY <1>1, Paying
<1>5. Alone(id)
  BY <1>1, <1>4, OthersSame
<1>6. Sound(e, condition[id], milestones[id], toRecipient[id], toSender[id], now)
  BY DEF Inv, EscrowsSound
<1>7. SoundAfter(id)
  <2>1. condition[id].approvals >= condition[id].threshold /\ ~ (milestones[id].items # <<>>)
    BY DEF ReleaseApprovalsMet, HasMilestones
  <2>2. Sound(escrow'[id], condition[id], milestones[id], toRecipient'[id], toSender[id], now)
    BY <1>2, <1>3, <1>4, <1>6, <2>1, FinalSound
  <2> QED
    BY <1>4, <2>2 DEF SoundAfter
<1>8. Moves(id)
  <2>1. "Released" \in Settled
    BY DEF Settled
  <2>2. CASE e.state = "Funded"
    BY <1>1, <2>1, <2>2, PaymentMoves DEF Live
  <2>3. CASE e.state = "Created"
    <3>1. \A t \in Token : ProRata(e, Remaining(e))[t] = 0
      BY <1>2, <1>6, <2>3, Unfunded
    <3> QED
      BY <1>1, <2>1, <2>3, <3>1, PaymentMoves
  <2> QED
    BY <2>2, <2>3
<1>9. Shields(id)
  BY <1>4 DEF Shields
<1> QED
  BY <1>5, <1>7, <1>8, <1>9 DEF Effect

\* refund, refund_timelock, reclaim and cancel of an escrow without milestones.
LEMMA ReturnEffect ==
  ASSUME Inv, TypeInv', NEW id \in 1..count,
         ~HasMilestones(id), escrow[id].state \in {"Created", "Funded", "Expired"},
         now < escrow[id].deadline \/ GraceOver(escrow[id]),
         ReturnRemaining(id), UNCHANGED milestones
  PROVE  Effect(id)
<1> DEFINE e == escrow[id]
<1>1. TypeInv /\ count' = count /\ UNCHANGED registry /\ condition' = condition
  BY DEF Inv, registry, ReturnRemaining
<1>2. /\ e \in EscrowRecord /\ condition[id] \in ReleaseCondition
      /\ milestones[id] \in MilestoneSet /\ toRecipient[id] \in Balances
      /\ toSender[id] \in Balances /\ now \in Nat
  BY <1>1, RecordTypes
<1>3. escrow'[id] \in EscrowRecord /\ toSender'[id] \in Balances
  BY <1>1, RecordTypesNext
<1>4. PaySender(id, ProRata(e, Remaining(e)))
  BY DEF ReturnRemaining
<1>5. Becomes(e, escrow'[id], "Refunded", e.released_amount) /\ Replaces(escrow, id)
  <2>1. escrow' = [escrow EXCEPT ![id].state = "Refunded"]
    BY DEF ReturnRemaining
  <2> QED
    BY <1>1, <2>1, Restated
<1>6. /\ Pays(toSender[id], toSender'[id], ProRata(e, Remaining(e)))
      /\ toRecipient' = toRecipient
      /\ \A j \in (1..count) \ {id} : toSender'[j] = toSender[j]
  BY <1>1, <1>4, Paying
<1>7. Alone(id)
  BY <1>1, <1>5, <1>6, OthersSame
<1>8. Sound(e, condition[id], milestones[id], toRecipient[id], toSender[id], now)
  BY DEF Inv, EscrowsSound
<1>9. SoundAfter(id)
  <2>1. ~ (milestones[id].items # <<>>)
    BY DEF HasMilestones
  <2>2. Sound(escrow'[id], condition[id], milestones[id], toRecipient[id], toSender'[id], now)
    BY <1>2, <1>3, <1>5, <1>6, <1>8, <2>1, ReturnSound
  <2> QED
    BY <1>1, <1>6, <2>2 DEF SoundAfter
<1>10. Moves(id)
  <2>1. "Refunded" \in Settled
    BY DEF Settled
  <2>2. CASE e.state \in Live
    BY <1>1, <1>4, <1>5, <2>1, <2>2, PaymentMoves
  <2>3. CASE e.state = "Created"
    <3>1. \A t \in Token : ProRata(e, Remaining(e))[t] = 0
      BY <1>2, <1>8, <2>3, Unfunded
    <3> QED
      BY <1>1, <1>4, <1>5, <2>1, <2>3, <3>1, PaymentMoves
  <2> QED
    BY <2>2, <2>3 DEF Live
<1>11. Shields(id)
  BY DEF Shields
<1> QED
  BY <1>7, <1>9, <1>10, <1>11 DEF Effect

\* expire and close.
LEMMA MarkEffect ==
  ASSUME Inv, TypeInv', NEW id \in 1..count, NEW st,
         \/ escrow[id].state = "Funded" /\ st = "Expired"
         \/ escrow[id].state \in {"Released", "Refunded"} /\ st = "Closed",
         escrow' = [escrow EXCEPT ![id].state = st],
         UNCHANGED <<registry, condition, milestones, ledger>>
  PROVE  Effect(id)
<1> DEFINE e == escrow[id]
<1>1. /\ TypeInv /\ count' = count /\ UNCHANGED registry /\ condition' = condition
      /\ milestones' = milestones /\ custody' = custody
      /\ toRecipient' = toRecipient /\ toSender' = toSender
  BY DEF Inv, registry, ledger
<1>2. /\ e \in EscrowRecord /\ condition[id] \in ReleaseCondition
      /\ milestones[id] \in MilestoneSet /\ toRecipient[id] \in Balances
      /\ toSender[id] \in Balances /\ now \in Nat /\ custody \in [Token -> Nat]
  BY <1>1, RecordTypes
<1>3. escrow'[id] \in EscrowRecord
  BY <1>1, RecordTypesNext
<1>4. Becomes(e, escrow'[id], st, e.released_amount) /\ Replaces(escrow, id)
  BY <1>1, Restated
<1>5. Alone(id)
  BY <1>1, <1>4, OthersSame
<1>6. Sound(e, condition[id], milestones[id], toRecipient[id], toSender[id], now)
  BY DEF Inv, EscrowsSound
<1>7. Sound(escrow'[id], condition[id], milestones[id], toRecipient[id], toSender[id], now)
  BY <1>2, <1>3, <1>4, <1>6, MarkSound
<1>8. SoundAfter(id)
  BY <1>1, <1>7 DEF SoundAfter
<1>9. Moves(id)
  <2>1. ASSUME NEW t \in Token PROVE HeldNext(id, t) = HeldNow(id, t) /\ HeldNow(id, t) \in Nat
    <3>1. HeldNow(id, t) \in Nat
      BY <1>2, <1>6, HoldsNat DEF HeldNow
    <3> QED
      BY <1>1, <1>4, <3>1 DEF HeldNow, HeldNext, Holds, Becomes
  <2>2. escrow'[id].state = st
    BY <1>4 DEF Becomes
  <2>3. \A t \in Token : custody'[t] = custody[t] + HeldNext(id, t) - HeldNow(id, t)
    BY <1>1, <1>2, <2>1
  <2>4. \A t \in Token : HeldNext(id, t) <= HeldNow(id, t)
    BY <2>1
  <2> QED
    BY <1>1, <2>1, <2>2, <2>3, <2>4 DEF Moves, Live, Settled
<1>10. Shields(id)
  BY <1>1 DEF Shields
<1> QED
  BY <1>5, <1>8, <1>9, <1>10 DEF Effect

\* fund.
LEMMA FundEffect ==
  ASSUME Inv, TypeInv', NEW id \in 1..count, NEW caller, Fund(caller, id)
  PROVE  Effect(id)
<1> DEFINE e == escrow[id]
           f == escrow'[id]
<1>1. /\ TypeInv /\ count' = count /\ UNCHANGED registry /\ condition' = condition
      /\ milestones' = milestones /\ toRecipient' = toRecipient /\ toSender' = toSender
      /\ e.state = "Created"
  BY DEF Inv, registry, Fund
<1>2. /\ e \in EscrowRecord /\ condition[id] \in ReleaseCondition
      /\ milestones[id] \in MilestoneSet /\ toRecipient[id] \in Balances
      /\ toSender[id] \in Balances /\ now \in Nat /\ custody \in [Token -> Nat]
  BY <1>1, RecordTypes
<1>3. f \in EscrowRecord
  BY <1>1, RecordTypesNext
<1>4. /\ f.assets = e.assets /\ f.schedule = e.schedule /\ f.state = "Funded"
      /\ f.released_amount = e.released_amount /\ f.funded_amount = TotalAmount(e.assets)
      /\ Replaces(escrow, id)
  <2>1. escrow \in [1..count -> EscrowRecord]
    BY <1>1 DEF TypeInv, TypeOK
  <2>2. PICK v : v = TotalAmount(e.assets)
    OBVIOUS
  <2>3. escrow' = [escrow EXCEPT ![id] =
           [[e EXCEPT !.state = "Funded"] EXCEPT !.funded_amount = v]]
    BY <2>1, <2>2 DEF Fund
  <2>4. /\ f.assets = e.assets /\ f.schedule = e.schedule /\ f.state = "Funded"
        /\ f.released_amount = e.released_amount /\ f.funded_amount = v
    BY <1>2, <2>1, <2>3 DEF EscrowRecord
  <2>5. Replaces(escrow, id)
    BY <2>3, Zenon DEF Replaces
  <2> QED
    BY <2>2, <2>4, <2>5
<1>5. Alone(id)
  BY <1>1, <1>4, OthersSame
<1>6. Sound(e, condition[id], milestones[id], toRecipient[id], toSender[id], now)
  BY DEF Inv, EscrowsSound
<1>7. /\ Sound(f, condition[id], milestones[id], toRecipient[id], toSender[id], now)
      /\ \A t \in Token : Holds(f, toRecipient[id], toSender[id], t)
                            = Holds(e, toRecipient[id], toSender[id], t) + e.assets[t]
  <2> HIDE DEF f
  <2> QED
    BY <1>1, <1>2, <1>3, <1>4, <1>6, FundSound
<1>8. SoundAfter(id)
  BY <1>1, <1>7 DEF SoundAfter
<1>9. Moves(id)
  <2>1. \A t \in Token : custody'[t] = custody[t] + e.assets[t]
    BY DEF Fund, Pull
  <2>2. ASSUME NEW t \in Token
        PROVE  custody'[t] = custody[t] + HeldNext(id, t) - HeldNow(id, t)
    <3>1. HeldNow(id, t) \in Nat
      BY <1>2, <1>6, HoldsNat DEF HeldNow
    <3>2. HeldNext(id, t) = HeldNow(id, t) + e.assets[t]
      BY <1>1, <1>7 DEF HeldNow, HeldNext
    <3>3. e.assets[t] \in Nat /\ custody[t] \in Nat
      BY <1>2 DEF EscrowRecord
    <3> QED
      BY <2>1, <3>1, <3>2, <3>3
  <2> QED
    BY <1>1, <1>4, <2>2 DEF Moves
<1>10. Shields(id)
  BY <1>1 DEF Shields
<1> QED
  BY <1>5, <1>8, <1>9, <1>10 DEF Effect

\* A step that moves no money and leaves the record as it is.
LEMMA QuietMoves ==
  ASSUME Inv, NEW id \in 1..count, escrow[id].state \in Live,
         UNCHANGED <<escrow, ledger>>
  PROVE  Moves(id) /\ Shields(id)
<1> DEFINE e == escrow[id]
<1>1. escrow' = escrow /\ custody' = custody /\ toRecipient' = toRecipient /\ toSender' = toSender
  BY DEF ledger
<1>2. /\ e \in EscrowRecord /\ condition[id] \in ReleaseCondition
      /\ milestones[id] \in MilestoneSet /\ toRecipient[id] \in Balances
      /\ toSender[id] \in Balances /\ now \in Nat /\ custody \in [Token -> Nat]
  BY RecordTypes DEF Inv
<1>3. Sound(e, condition[id], milestones[id], toRecipient[id], toSender[id], now)
  BY DEF Inv, EscrowsSound
<1>4. ASSUME NEW t \in Token PROVE HeldNext(id, t) = HeldNow(id, t) /\ HeldNow(id, t) \in Nat
  <2>1. HeldNow(id, t) \in Nat
    BY <1>2, <1>3, HoldsNat DEF HeldNow
  <2> QED
    BY <1>1, <2>1 DEF HeldNow, HeldNext
<1>5. /\ \A t \in Token : custody'[t] = custody[t] + HeldNext(id, t) - HeldNow(id, t)
      /\ \A t \in Token : HeldNext(id, t) <= HeldNow(id, t)
  BY <1>1, <1>2, <1>4
<1> QED
  BY <1>1, <1>5 DEF Moves, Shields

\* approve_release.
LEMMA ApproveEffect ==
  ASSUME Inv, TypeInv', NEW id \in 1..count, NEW caller, ApproveRelease(caller, id)
  PROVE  Effect(id)
<1> DEFINE e == escrow[id]
           c == condition[id]
           d == condition'[id]
<1>1. /\ TypeInv /\ count' = count /\ UNCHANGED registry /\ escrow' = escrow
      /\ milestones' = milestones /\ toRecipient' = toRecipient /\ toSender' = toSender
      /\ UNCHANGED <<escrow, ledger>> /\ e.state = "Funded"
      /\ caller \in c.participants /\ caller \notin c.by
  BY DEF Inv, registry, ledger, ApproveRelease
<1>2. /\ e \in EscrowRecord /\ c \in ReleaseCondition
      /\ milestones[id] \in MilestoneSet /\ toRecipient[id] \in Balances
      /\ toSender[id] \in Balances /\ now \in Nat /\ custody \in [Token -> Nat]
  BY <1>1, RecordTypes
<1>3. d \in ReleaseCondition
  BY <1>1, RecordTypesNext
<1>4. /\ d.participants = c.participants /\ d.threshold = c.threshold
      /\ d.approvals = c.approvals + 1 /\ d.by = c.by \cup {caller}
      /\ Replaces(condition, id)
  <2>1. condition \in [1..count -> ReleaseCondition]
    BY <1>1 DEF TypeInv, TypeOK
  <2>2. PICK v, w : v = c.approvals + 1 /\ w = c.by \cup {caller}
    OBVIOUS
  <2>3. condition' = [condition EXCEPT ![id] =
           [[c EXCEPT !.approvals = v] EXCEPT !.by = w]]
    BY <2>1, <2>2, <1>2 DEF ApproveRelease, ReleaseCondition
  <2>4. /\ d.participants = c.participants /\ d.threshold = c.threshold
        /\ d.approvals = v /\ d.by = w
    BY <1>2, <2>1, <2>3 DEF ReleaseCondition
  <2>5. Replaces(condition, id)
    BY <2>3, Zenon DEF Replaces
  <2> QED
    BY <2>2, <2>4, <2>5
<1>5. Alone(id)
  BY <1>1, <1>4, OthersSame
<1>6. Sound(e, c, milestones[id], toRecipient[id], toSender[id], now)
  BY DEF Inv, EscrowsSound
<1>7. Sound(e, d, milestones[id], toRecipient[id], toSender[id], now)
  <2> HIDE DEF d
  <2> QED
    BY <1>1, <1>2, <1>3, <1>4, <1>6, ApproveSound
<1>8. SoundAfter(id)
  BY <1>1, <1>7 DEF SoundAfter
<1>9. Moves(id) /\ Shields(id)
  <2>1. e.state \in Live
    BY <1>1 DEF Live
  <2> QED
    BY <1>1, <2>1, QuietMoves
<1> QED
  BY <1>5, <1>8, <1>9 DEF Effect

\* Setting the status of milestone i of a well-typed list.
LEMMA StatusSet ==
  ASSUME NEW m \in MilestoneSet, NEW i \in 1..Len(m.items), NEW st \in MilestoneStatus
  PROVE  /\ SetStatus(m, i, st).released_amount = m.released_amount
         /\ Len(SetStatus(m, i, st).items) = Len(m.items)
         /\ \A j \in 1..Len(m.items) :
              /\ SetStatus(m, i, st).items[j].release_bps = m.items[j].release_bps
              /\ SetStatus(m, i, st).items[j].status =
                   IF j = i THEN st ELSE m.items[j].status
         /\ SetStatus(m, i, st) \in MilestoneSet
<1>1. m.items \in Seq(Milestone)
  BY DEF MilestoneSet
<1>2. \A j \in 1..Len(m.items) : m.items[j] \in Milestone
  BY <1>1
<1> DEFINE k == [m.items[i] EXCEPT !.status = st]
           items == [m.items EXCEPT ![i] = k]
<1>3. k \in Milestone /\ k.release_bps = m.items[i].release_bps /\ k.status = st
  BY <1>2 DEF Milestone
<1>4. SetStatus(m, i, st) = [m EXCEPT !.items = items]
  BY DEF SetStatus
<1>5. /\ items \in Seq(Milestone) /\ Len(items) = Len(m.items)
      /\ \A j \in 1..Len(m.items) : items[j] = IF j = i THEN k ELSE m.items[j]
  <2> HIDE DEF k
  <2> QED
    BY <1>1, <1>3
<1> HIDE DEF k, items
<1>6. /\ [m EXCEPT !.items = items].released_amount = m.released_amount
      /\ [m EXCEPT !.items = items].items = items
      /\ [m EXCEPT !.items = items] \in MilestoneSet
  BY <1>5 DEF MilestoneSet
<1>7. \A j \in 1..Len(m.items) :
        /\ items[j].release_bps = m.items[j].release_bps
        /\ items[j].status = IF j = i THEN st ELSE m.items[j].status
  BY <1>3, <1>5
<1> QED
  BY <1>4, <1>5, <1>6, <1>7

\* dispute_milestone and resolve_milestone.
LEMMA DisputeEffect ==
  ASSUME Inv, TypeInv', NEW id \in 1..count, NEW caller, NEW i \in 1..Len(milestones[id].items),
         DisputeMilestone(caller, id, i) \/ ResolveMilestone(caller, id, i)
  PROVE  Effect(id)
<1> DEFINE e == escrow[id]
           m == milestones[id]
           n == milestones'[id]
<1>1. /\ TypeInv /\ count' = count /\ UNCHANGED registry /\ escrow' = escrow
      /\ condition' = condition /\ toRecipient' = toRecipient /\ toSender' = toSender
      /\ UNCHANGED <<escrow, ledger>> /\ e.state = "Funded"
      /\ m.items # <<>> /\ m.items[i].status \in {"Pending", "Disputed"}
  BY DEF Inv, registry, ledger, DisputeMilestone, ResolveMilestone, MilestoneLive, HasMilestones
<1>2. /\ e \in EscrowRecord /\ condition[id] \in ReleaseCondition
      /\ m \in MilestoneSet /\ toRecipient[id] \in Balances
      /\ toSender[id] \in Balances /\ now \in Nat /\ custody \in [Token -> Nat]
  BY <1>1, RecordTypes
<1>3. n \in MilestoneSet
  BY <1>1, RecordTypesNext
<1>4. PICK st \in {"Pending", "Disputed"} :
        milestones' = [milestones EXCEPT ![id] = SetStatus(m, i, st)]
  BY DEF DisputeMilestone, ResolveMilestone
<1>5. n = SetStatus(m, i, st) /\ Replaces(milestones, id)
  <2>1. milestones \in [1..count -> MilestoneSet]
    BY <1>1 DEF TypeInv, TypeOK
  <2>2. n = SetStatus(m, i, st)
    BY <1>4, <2>1
  <2>3. Replaces(milestones, id)
    BY <1>4, Zenon DEF Replaces
  <2> QED
    BY <2>2, <2>3
<1>6. Alone(id)
  BY <1>1, <1>5, OthersSame
<1>7. Sound(e, condition[id], m, toRecipient[id], toSender[id], now)
  BY DEF Inv, EscrowsSound
<1>8. Advances(m.items, n.items, {}) /\ n.released_amount = m.released_amount
  <2>1. st \in MilestoneStatus
    BY DEF MilestoneStatus
  <2>2. /\ n.released_amount = m.released_amount
        /\ Len(n.items) = Len(m.items)
        /\ \A j \in 1..Len(m.items) :
             /\ n.items[j].release_bps = m.items[j].release_bps
             /\ n.items[j].status = IF j = i THEN st ELSE m.items[j].status
    <3>1. PICK k \in MilestoneSet : k = m
      BY <1>2
    <3>2. i \in 1..Len(k.items) /\ n = SetStatus(k, i, st)
      BY <1>5, <3>1
    <3> QED
      BY <2>1, <3>1, <3>2, StatusSet
  <2> HIDE DEF n, m
  <2> QED
    BY <1>1, <2>2 DEF Advances
<1>9. Sound(e, condition[id], n, toRecipient[id], toSender[id], now)
  <2> HIDE DEF n
  <2> QED
    BY <1>1, <1>2, <1>3, <1>7, <1>8, RelabelSound
<1>10. SoundAfter(id)
  BY <1>1, <1>9 DEF SoundAfter
<1>11. Moves(id) /\ Shields(id)
  <2>1. e.state \in Live
    BY <1>1 DEF Live
  <2> QED
    BY <1>1, <2>1, QuietMoves
<1> QED
  BY <1>6, <1>10, <1>11 DEF Effect

\* cancel_remaining_milestones, and cancel of a milestone escrow.
LEMMA CancelMilestonesEffect ==
  ASSUME Inv, TypeInv', NEW id \in 1..count, NEW caller, CancelRemainingMilestones(caller, id)
  PROVE  Effect(id)
<1> DEFINE e == escrow[id]
           m == milestones[id]
           n == milestones'[id]
           frozen(k) == IF k.status = "Pending" THEN [k EXCEPT !.status = "Disputed"] ELSE k
           items == [i \in 1..Len(m.items) |-> frozen(m.items[i])]
           amounts == ProRata(e, e.funded_amount - m.released_amount)
<1>1. /\ TypeInv /\ count' = count /\ UNCHANGED registry /\ condition' = condition
      /\ e.state \in Live /\ m.items # <<>>
      /\ escrow' = [escrow EXCEPT ![id].state = "Refunded"]
      /\ PaySender(id, amounts)
      /\ milestones' = [milestones EXCEPT
           ![id] = [m EXCEPT !.cancelled = TRUE, !.items = items]]
  BY DEF Inv, registry, CancelRemainingMilestones, CanCancelMilestones, HasMilestones, Live
<1>2. /\ e \in EscrowRecord /\ condition[id] \in ReleaseCondition
      /\ m \in MilestoneSet /\ toRecipient[id] \in Balances
      /\ toSender[id] \in Balances /\ now \in Nat
  BY <1>1, RecordTypes
<1>3. escrow'[id] \in EscrowRecord /\ toSender'[id] \in Balances /\ n \in MilestoneSet
  BY <1>1, RecordTypesNext
<1>4. Becomes(e, escrow'[id], "Refunded", e.released_amount) /\ Replaces(escrow, id)
  BY <1>1, Restated
<1>5. Replaces(milestones, id)
  BY <1>1, Zenon DEF Replaces
<1>6. n.items = items /\ n.released_amount = m.released_amount
  <2>1. milestones \in [1..count -> MilestoneSet]
    BY <1>1 DEF TypeInv, TypeOK
  <2> HIDE DEF items
  <2>2. n = [[m EXCEPT !.cancelled = TRUE] EXCEPT !.items = items]
    BY <1>1, <2>1
  <2> QED
    BY <1>2, <2>2 DEF MilestoneSet
<1>7. Advances(m.items, n.items, {})
  <2>1. m.items \in Seq(Milestone)
    BY <1>2 DEF MilestoneSet
  <2>2. ASSUME NEW j \in 1..Len(m.items)
        PROVE  /\ items[j].release_bps = m.items[j].release_bps
               /\ items[j].status = "Completed" <=> m.items[j].status = "Completed"
    <3>1. m.items[j] \in Milestone
      BY <2>1
    <3>2. PICK k \in Milestone : k = m.items[j]
      BY <3>1
    <3>3. /\ frozen(k).release_bps = k.release_bps
          /\ frozen(k).status = "Completed" <=> k.status = "Completed"
      BY DEF Milestone
    <3>4. items[j] = frozen(k)
      BY <3>2
    <3> QED
      BY <3>2, <3>3, <3>4
  <2>3. Len(items) = Len(m.items)
    <3>1. Len(m.items) \in Nat
      BY <2>1
    <3> HIDE DEF frozen
    <3> QED
      BY <3>1
  <2> HIDE DEF items
  <2> QED
    BY <1>6, <2>2, <2>3 DEF Advances
<1>8. /\ Pays(toSender[id], toSender'[id], amounts)
      /\ toRecipient' = toRecipient
      /\ \A j \in (1..count) \ {id} : toSender'[j] = toSender[j]
  <2> HIDE DEF amounts
  <2> QED
    BY <1>1, Paying
<1>9. Alone(id)
  BY <1>1, <1>4, <1>5, <1>8, OthersSame
<1>10. Sound(e, condition[id], m, toRecipient[id], toSender[id], now)
  BY DEF Inv, EscrowsSound
<1>11. SoundAfter(id)
  <2>1. Sound(escrow'[id], condition[id], n, toRecipient[id], toSender'[id], now)
    BY <1>1, <1>2, <1>3, <1>4, <1>6, <1>7, <1>8, <1>10, CancelSound
  <2> QED
    BY <1>1, <1>8, <2>1 DEF SoundAfter
<1>12. Moves(id)
  <2>1. "Refunded" \in Settled
    BY DEF Settled
  <2> HIDE DEF amounts
  <2> QED
    BY <1>1, <1>4, <2>1, PaymentMoves
<1>13. Shields(id)
  BY <1>1 DEF Shields, HasMilestones
<1> QED
  BY <1>9, <1>11, <1>12, <1>13 DEF Effect

\* release_milestone.
LEMMA ReleaseMilestoneEffect ==
  ASSUME Inv, TypeInv', NEW id \in 1..count, NEW caller, NEW i \in 1..Len(milestones[id].items),
         ReleaseMilestone(caller, id, i)
  PROVE  Effect(id)
<1> DEFINE e == escrow[id]
           f == escrow'[id]
           m == milestones[id]
           n == milestones'[id]
           done == SetStatus(m, i, "Completed")
           asset == CHOOSE t \in Token : e.assets[t] > 0
<1>1. PICK x : x = MilestonePayout(id, i)
  OBVIOUS
<1> DEFINE set == [done EXCEPT !.released_amount = @ + x]
           amounts == [Nothing EXCEPT ![asset] = x]
<1>2. /\ TypeInv /\ count' = count /\ UNCHANGED registry /\ condition' = condition
      /\ e.state = "Funded" /\ m.items # <<>> /\ m.items[i].status = "Pending"
  BY DEF Inv, registry, ReleaseMilestone, MilestoneLegs, MilestoneLive, HasMilestones
<1>3. /\ PayRecipient(id, amounts)
      /\ milestones' = [milestones EXCEPT ![id] = set]
      /\ escrow' = IF Unreleased(set) = {}
                     THEN [escrow EXCEPT ![id].released_amount = set.released_amount,
                                         ![id].state = "Released"]
                     ELSE escrow
  BY <1>1 DEF ReleaseMilestone, MilestoneLegs
<1>4. /\ e \in EscrowRecord /\ condition[id] \in ReleaseCondition
      /\ m \in MilestoneSet /\ toRecipient[id] \in Balances
      /\ toSender[id] \in Balances /\ now \in Nat
  BY <1>2, RecordTypes
<1>5. f \in EscrowRecord /\ toRecipient'[id] \in Balances /\ n \in MilestoneSet
  BY <1>2, RecordTypesNext
<1>6. asset \in Token /\ e.assets[asset] > 0
  BY <1>2 DEF TypeInv, ListsAnAsset
<1>7. /\ Pays(toRecipient[id], toRecipient'[id], amounts)
      /\ toSender' = toSender
      /\ \A j \in (1..count) \ {id} : toRecipient'[j] = toRecipient[j]
      /\ \A t \in Token : amounts[t] \in Nat
  <2> HIDE DEF amounts
  <2> QED
    BY <1>2, <1>3, Paying
<1>8. x \in Nat
  BY <1>6, <1>7 DEF Nothing
<1>9. /\ done \in MilestoneSet
      /\ done.released_amount = m.released_amount
      /\ Len(done.items) = Len(m.items)
      /\ \A j \in 1..Len(m.items) :
           /\ done.items[j].release_bps = m.items[j].release_bps
           /\ done.items[j].status = IF j = i THEN "Completed" ELSE m.items[j].status
  BY <1>4, StatusSet DEF MilestoneStatus
<1>10. n = set /\ set.items = done.items /\ set.released_amount = m.released_amount + x
  <2>1. milestones \in [1..count -> MilestoneSet]
    BY <1>2 DEF TypeInv, TypeOK
  <2>2. n = set
    <3> HIDE DEF set
    <3> QED
      BY <1>3, <2>1
  <2> HIDE DEF done
  <2>3. set.items = done.items /\ set.released_amount = done.released_amount + x
    BY <1>9 DEF MilestoneSet
  <2> QED
    BY <1>9, <2>2, <2>3
<1>11. Counts(m, n, x)
  BY <1>10 DEF Counts
<1>12. Advances(m.items, n.items, {i}) /\ i \notin Done(m.items)
  <2>1. i \notin Done(m.items)
    BY <1>2 DEF Done
  <2>2. Advances(m.items, done.items, {i})
    <3> HIDE DEF done, m
    <3> QED
      BY <1>9 DEF Advances
  <2> QED
    BY <1>10, <2>1, <2>2
<1>13. Owes(e, m, i, x)
  BY <1>1 DEF Owes, MilestonePayout
<1>14. Completes(e, f, n) /\ (escrow' = escrow \/ Replaces(escrow, id))
  <2>1. PICK v : v = n.released_amount
    OBVIOUS
  <2>2. escrow \in [1..count -> EscrowRecord]
    BY <1>2 DEF TypeInv, TypeOK
  <2>3. escrow' = IF Unreleased(n) = {}
                    THEN [escrow EXCEPT ![id] =
                            [[e EXCEPT !.released_amount = v] EXCEPT !.state = "Released"]]
                    ELSE escrow
    <3> HIDE DEF set
    <3> QED
      BY <1>3, <1>10, <2>1, <2>2
  <2> HIDE DEF n
  <2>4. CASE Unreleased(n) = {}
    <3>1. escrow' = [escrow EXCEPT ![id] =
                       [[e EXCEPT !.released_amount = v] EXCEPT !.state = "Released"]]
      BY <2>3, <2>4
    <3>2. Becomes(e, f, "Released", v)
      BY <1>4, <2>2, <3>1 DEF Becomes, EscrowRecord
    <3>3. Replaces(escrow, id)
      BY <3>1, Zenon DEF Replaces
    <3> QED
      BY <2>1, <2>4, <3>2, <3>3 DEF Completes
  <2>5. CASE Unreleased(n) # {}
    BY <2>3, <2>5 DEF Completes
  <2> QED
    BY <2>4, <2>5
<1>15. Replaces(milestones, id)
  BY <1>3, Zenon DEF Replaces
<1>16. Alone(id)
  BY <1>2, <1>7, <1>14, <1>15, OthersSame
<1>17. Sound(e, condition[id], m, toRecipient[id], toSender[id], now)
  BY DEF Inv, EscrowsSound
<1>18. PaysOne(toRecipient[id], toRecipient'[id], asset, x)
  BY <1>7 DEF PaysOne
<1>19. Sound(f, condition[id], n, toRecipient'[id], toSender[id], now)
  <2>1. i \in 1..Len(m.items)
    OBVIOUS
  <2> HIDE DEF f, n, m, e, asset
  <2> QED
    BY <2>1, <1>2, <1>4, <1>5, <1>6, <1>8, <1>11, <1>12, <1>13, <1>14, <1>17, <1>18, MilestoneSound
<1>20. SoundAfter(id)
  BY <1>2, <1>7, <1>19 DEF SoundAfter
<1>21. Moves(id)
  <2>1. PICK st, released : Becomes(e, f, st, released) /\ st \in Live \cup Settled
    <3>1. CASE Unreleased(n) = {}
      BY <1>14, <3>1 DEF Completes, Settled
    <3>2. CASE Unreleased(n) # {}
      <4>1. f = e
        BY <1>14, <3>2 DEF Completes
      <4>2. Becomes(e, f, "Funded", e.released_amount) /\ "Funded" \in Live
        BY <1>2, <4>1 DEF Becomes, Live
      <4> QED
        BY <4>2
    <3> QED
      BY <3>1, <3>2
  <2>2. e.state \in Live
    BY <1>2 DEF Live
  <2> HIDE DEF amounts
  <2> QED
    BY <1>2, <1>3, <2>1, <2>2, PaymentMoves
<1>22. Shields(id)
  BY <1>7 DEF Shields
<1> QED
  BY <1>16, <1>20, <1>21, <1>22 DEF Effect

\* Every operation on an existing escrow has such an effect.
LEMMA OperationEffect ==
  ASSUME Inv, TypeInv', NEW id \in 1..count, Operation(id)
  PROVE  Effect(id)
<1> USE InputsAssumption
<1> DEFINE e == escrow[id]
<1>1. /\ TypeInv /\ e \in EscrowRecord
      /\ escrow \in [1..count -> EscrowRecord]
  BY DEF Inv, TypeInv, TypeOK
<1>2. CASE Expire(id)
  BY <1>2, MarkEffect DEF Expire
<1>3. ASSUME NEW nonce \in Nonces, NEW signed \in SUBSET Key, OverrideRelease(id, nonce, signed)
      PROVE  Effect(id)
  <2>1. escrow' = [escrow EXCEPT ![id] =
           [[e EXCEPT !.override_nonce = nonce] EXCEPT !.state = "Released"]]
    BY <1>1, <1>3 DEF OverrideRelease, CanOverride
  <2>2. Becomes(e, escrow'[id], "Released", e.released_amount)
    BY <1>1, <2>1 DEF Becomes, EscrowRecord
  <2>3. Replaces(escrow, id)
    BY <2>1, Zenon DEF Replaces
  <2>4. /\ ~HasMilestones(id) /\ e.state = "Funded" /\ ReleaseApprovalsMet(id)
        /\ UNCHANGED <<registry, condition, milestones>>
        /\ PayRecipient(id, ProRata(e, Remaining(e)))
    BY <1>3 DEF OverrideRelease, CanOverride
  <2> QED
    BY <2>2, <2>3, <2>4, FinalEffect
<1>4. ASSUME NEW caller \in Addr, NEW amount \in Amounts, Release(caller, id, amount)
      PROVE  Effect(id)
  <2>1. PICK g : g = e.funded_amount
    OBVIOUS
  <2>2. escrow' = [escrow EXCEPT ![id] =
           [[e EXCEPT !.released_amount = g] EXCEPT !.state = "Released"]]
    BY <1>1, <1>4, <2>1 DEF Release, CanRelease
  <2>3. Becomes(e, escrow'[id], "Released", g)
    BY <1>1, <2>2 DEF Becomes, EscrowRecord
  <2>4. Replaces(escrow, id)
    BY <2>2, Zenon DEF Replaces
  <2>5. /\ ~HasMilestones(id) /\ e.state = "Funded" /\ ReleaseApprovalsMet(id)
        /\ UNCHANGED <<registry, condition, milestones>>
        /\ PayRecipient(id, ProRata(e, Remaining(e)))
    BY <1>4 DEF Release, CanRelease
  <2> QED
    BY <2>1, <2>3, <2>4, <2>5, FinalEffect
<1>5. ASSUME NEW caller \in Addr, ClaimCreated(caller, id) PROVE Effect(id)
  <2>1. Becomes(e, escrow'[id], "Released", e.released_amount) /\ Replaces(escrow, id)
    BY <1>1, <1>5, Restated DEF ClaimCreated, CanClaimCreated
  <2>2. /\ ~HasMilestones(id) /\ e.state = "Created" /\ ReleaseApprovalsMet(id)
        /\ UNCHANGED <<registry, condition, milestones>>
        /\ PayRecipient(id, ProRata(e, Remaining(e)))
    BY <1>5 DEF ClaimCreated, CanClaimCreated
  <2> QED
    BY <2>1, <2>2, FinalEffect
<1>6. ASSUME NEW caller \in Addr, Claim(caller, id) PROVE Effect(id)
  BY <1>5, <1>6, ClaimFundedEffect DEF Claim
<1>7. ASSUME NEW caller \in Addr, NEW amount \in Amounts, Withdraw(caller, id, amount)
      PROVE  Effect(id)
  BY <1>7, WithdrawEffect
<1>8. ASSUME NEW caller \in Addr,
             \/ Refund(caller, id) \/ RefundTimelock(caller, id)
             \/ Reclaim(caller, id) \/ CancelPlain(caller, id)
      PROVE  Effect(id)
  <2>1. /\ ~HasMilestones(id) /\ e.state \in {"Created", "Funded", "Expired"}
        /\ now < e.deadline \/ GraceOver(e)
        /\ ReturnRemaining(id) /\ UNCHANGED milestones
    BY <1>8 DEF Refund, CanRefund, RefundTimelock, CanRefundTimelock, Reclaim, CancelPlain, CanCancel, Refundable
  <2> QED
    BY <2>1, ReturnEffect
<1>9. ASSUME NEW caller \in Addr, Cancel(caller, id) PROVE Effect(id)
  BY <1>8, <1>9, CancelMilestonesEffect DEF Cancel
<1>10. ASSUME NEW caller \in Addr, Close(caller, id) PROVE Effect(id)
  BY <1>10, MarkEffect DEF Close
<1>11. ASSUME NEW caller \in Addr, Fund(caller, id) \/ ApproveRelease(caller, id) PROVE Effect(id)
  BY <1>11, FundEffect, ApproveEffect
<1>12. ASSUME NEW caller \in Addr, NEW i \in 1..Len(milestones[id].items),
              \/ ReleaseMilestone(caller, id, i)
              \/ DisputeMilestone(caller, id, i) \/ ResolveMilestone(caller, id, i)
       PROVE  Effect(id)
  BY <1>12, ReleaseMilestoneEffect, DisputeEffect
<1> QED
  BY <1>2, <1>3, <1>4, <1>6, <1>7, <1>8, <1>9, <1>10, <1>11, <1>12 DEF Operation

\* Such an effect preserves the invariant.
LEMMA EffectInv ==
  ASSUME Inv, TypeInv', NEW id \in 1..count, Effect(id)
  PROVE  Inv'
<1>1. TypeInv /\ count \in Nat /\ count' = count /\ now' = now
  BY DEF Inv, TypeInv, TypeOK, Effect, Alone
<1>2. EscrowsSound'
  <2> SUFFICES ASSUME NEW j \in 1..count
               PROVE  Sound(escrow'[j], condition'[j], milestones'[j],
                            toRecipient'[j], toSender'[j], now)
    BY <1>1 DEF EscrowsSound
  <2>1. CASE j = id
    BY <2>1 DEF Effect, SoundAfter
  <2>2. CASE j # id
    <3>1. Same(j)
      BY <2>2 DEF Effect, Alone
    <3>2. Sound(escrow[j], condition[j], milestones[j], toRecipient[j], toSender[j], now)
      BY DEF Inv, EscrowsSound
    <3> QED
      BY <3>1, <3>2 DEF Same
  <2> QED
    BY <2>1, <2>2
<1>3. ASSUME NEW t \in Token
      PROVE  custody'[t] = SumFunction([j \in 1..count |-> HeldNext(j, t)])
  <2> DEFINE f == [j \in 1..count |-> HeldNow(j, t)]
             g == [j \in 1..count |-> HeldNext(j, t)]
  <2>1. custody[t] = SumFunction(f)
    BY DEF Inv, CustodyExact, Deposited, Paid, HeldNow, Holds
  <2>2. \A j \in 1..count : HeldNow(j, t) \in Nat /\ HeldNext(j, t) \in Nat
    <3> SUFFICES ASSUME NEW j \in 1..count
                 PROVE  HeldNow(j, t) \in Nat /\ HeldNext(j, t) \in Nat
      OBVIOUS
    <3>1. HeldNow(j, t) \in Nat
      <4>1. /\ escrow[j] \in EscrowRecord /\ milestones[j] \in MilestoneSet
            /\ toRecipient[j] \in Balances /\ toSender[j] \in Balances
        BY <1>1, RecordTypes
      <4>2. Sound(escrow[j], condition[j], milestones[j], toRecipient[j], toSender[j], now)
        BY DEF Inv, EscrowsSound
      <4> QED
        BY <4>1, <4>2, HoldsNat DEF HeldNow
    <3>2. HeldNext(j, t) \in Nat
      <4>1. /\ escrow'[j] \in EscrowRecord /\ milestones'[j] \in MilestoneSet
            /\ toRecipient'[j] \in Balances /\ toSender'[j] \in Balances
        BY <1>1, RecordTypesNext
      <4>2. Sound(escrow'[j], condition'[j], milestones'[j], toRecipient'[j], toSender'[j], now')
        BY <1>1, <1>2 DEF EscrowsSound
      <4> QED
        BY <4>1, <4>2, HoldsNat DEF HeldNext
    <3> QED
      BY <3>1, <3>2
  <2>3. \A j \in (1..count) \ {id} : HeldNext(j, t) = HeldNow(j, t)
    BY DEF Effect, Alone, Same, HeldNow, HeldNext
  <2>4. custody'[t] = custody[t] + HeldNext(id, t) - HeldNow(id, t)
    BY DEF Effect, Moves
  <2>5. /\ DOMAIN f = 1..count /\ DOMAIN g = 1..count
        /\ \A j \in 1..count : f[j] \in Int /\ g[j] \in Int
        /\ \A j \in (1..count) \ {id} : g[j] = f[j]
        /\ f[id] = HeldNow(id, t) /\ g[id] = HeldNext(id, t)
    BY <2>2, <2>3
  <2> HIDE DEF f, g
  <2>6. SumFunction(g) = SumFunction(f) + g[id] - f[id]
    <3>1. AgreeBut(f, g, 1..count, id)
      BY <2>5 DEF AgreeBut
    <3>2. count \in Nat
      BY <1>1 DEF TypeInv, TypeOK
    <3> QED
      BY <2>5, <3>1, <3>2, SumMoved
  <2>7. custody'[t] = SumFunction(g)
    BY <2>1, <2>4, <2>5, <2>6
  <2> QED
    BY <2>7 DEF g
<1>4. CustodyExact'
  BY <1>1, <1>3 DEF CustodyExact, Deposited, Paid, HeldNext, Holds
<1> QED
  BY <1>2, <1>4 DEF Inv

-----------------------------------------------------------------------------
(* One creation                                                             *)

\* A sound escrow is stored under the next id, and custody grows by what it
\* holds.
Opened(e, c, m) ==
  /\ Store(e, c, m)
  /\ Sound(e, c, m, Nothing, Nothing, now)
  /\ e.state \in {"Created", "Funded"}
  /\ \A t \in Token : custody'[t] = custody[t] + Holds(e, Nothing, Nothing, t)

\* What a new escrow holds.
LEMMA NewHolds ==
  ASSUME NEW e \in EscrowRecord
  PROVE  \A t \in Token : Holds(e, Nothing, Nothing, t)
                            = IF e.funded_amount = 0 THEN 0 ELSE e.assets[t]
  BY NothingPaid DEF Holds, EscrowRecord

\* The entrypoints that pull a deposit for an escrow without milestones.
LEMMA FilledOpens ==
  ASSUME TypeInv, NEW e \in EscrowRecord, NEW c \in ReleaseCondition,
         Store(e, c, NoMilestones), Pull(e.assets), \E t \in Token : e.assets[t] > 0,
         Unsigned(c), Ordered(e.schedule), e.released_amount = 0, e.state = "Funded",
         e.funded_amount = TotalAmount(e.assets)
  PROVE  Opened(e, c, NoMilestones)
<1>1. e.assets \in [Token -> Nat] /\ now \in Nat
  BY DEF EscrowRecord, TypeInv, TypeOK
<1>2. TotalAmount(e.assets) \in Nat /\ TotalAmount(e.assets) > 0
  BY <1>1, Totals
<1>3. NoMilestones \in MilestoneSet /\ ~ (NoMilestones.items # <<>>)
  <2>1. <<>> \in Seq(Milestone)
    OBVIOUS
  <2> QED
    BY <2>1 DEF NoMilestones, MilestoneSet
<1>4. Sound(e, c, NoMilestones, Nothing, Nothing, now)
  BY <1>1, <1>2, <1>3, NewSound
<1>5. \A t \in Token : custody'[t] = custody[t] + Holds(e, Nothing, Nothing, t)
  BY <1>2, NewHolds DEF Pull
<1> QED
  BY <1>4, <1>5 DEF Opened

\* Every creation entrypoint opens a sound escrow.
LEMMA CreationOpens ==
  ASSUME TypeInv, Creation
  PROVE  \E e \in EscrowRecord, c \in ReleaseCondition, m \in MilestoneSet : Opened(e, c, m)
<1> DEFINE Goal == \E e \in EscrowRecord, c \in ReleaseCondition, m \in MilestoneSet : Opened(e, c, m)
<1> SUFFICES Goal
  OBVIOUS
<1> HIDE DEF Goal
<1> USE DepositsAssumption, ClockAssumption, InputsAssumption
<1> PICK p \in Parties, deadline \in Deadlines :
      LET s == p.sender
          r == p.recipient
          a == p.arbiter
      IN
      \/ \E d \in Deposits, grace \in GracePeriods, window \in RefundWindows, o \in Overrides :
           \/ Create(s, r, a, d, deadline, grace, window, o)
           \/ \E c \in Conditions :
                CreateWithReleaseCondition(s, r, a, d, deadline, grace, window, o, c)
      \/ \E d \in Deposits : CreateTimelock(s, r, a, d, deadline)
      \/ \E d \in Deposits, schedule \in Schedules :
           CreateScheduled(s, r, a, d, schedule, deadline)
      \/ \E d \in Deposits, grace \in GracePeriods :
           InitializeTimelock(s, r, a, d, deadline, grace)
      \/ \E t \in Token, amount \in Amounts, weights \in MilestoneSpecs :
           DepositWithMilestones(s, r, a, t, amount, deadline, weights)
  BY DEF Creation
<1> DEFINE s == p.sender
           r == p.recipient
           a == p.arbiter
<1>1. s \in Addr /\ r \in Addr /\ a \in Addr /\ deadline \in Nat /\ now \in Nat
  BY DEF TypeInv, TypeOK
<1>2. /\ NoCondition \in ReleaseCondition /\ Unsigned(NoCondition)
      /\ NoMilestones \in MilestoneSet /\ ~ (NoMilestones.items # <<>>)
      /\ NoOverride \in [signers: SUBSET Key, threshold: Nat]
      /\ NoSchedule \in [release_type: {"None", "Cliff", "Linear"},
                         start_time: Nat, cliff_time: Nat, end_time: Nat]
      /\ Ordered(NoSchedule) /\ ~Scheduled(NoSchedule)
  <2>1. <<>> \in Seq(Milestone)
    OBVIOUS
  <2> QED
    BY <2>1 DEF NoCondition, ReleaseCondition, Unsigned, NoMilestones, MilestoneSet,
                NoOverride, NoSchedule, Ordered, Scheduled
<1>3. \A d \in Deposits : d \in [Token -> Nat] /\ TotalAmount(d) \in Nat
  BY Totals
<1>4. ASSUME NEW e \in EscrowRecord, NEW c \in ReleaseCondition, NEW m \in MilestoneSet,
             Opened(e, c, m)
      PROVE  Goal
  BY <1>4 DEF Goal
<1>5. ASSUME NEW d \in Deposits, NEW grace \in GracePeriods, NEW window \in RefundWindows,
             NEW o \in Overrides, NEW cond \in ReleaseCondition, Unsigned(cond),
             CreateWithRefundWindow(s, r, a, d, deadline, grace, window, o, cond)
      PROVE  Goal
  <2> DEFINE e == NewEscrow(s, r, a, d, "Funded", deadline, grace, window,
                            TotalAmount(d), NoSchedule, o)
  <2>1. e \in EscrowRecord
    BY <1>1, <1>2, <1>3, NewEscrowType DEF EscrowState
  <2>2. /\ e.state = "Funded" /\ e.assets = d /\ e.schedule = NoSchedule
        /\ e.released_amount = 0 /\ e.funded_amount = TotalAmount(d)
    BY DEF NewEscrow
  <2>3. /\ \E t \in Token : d[t] > 0
        /\ Pull(d) /\ Store(e, cond, NoMilestones)
    BY <1>3, <1>5 DEF CreateWithRefundWindow, ValidateAssets, Listed
  <2> HIDE DEF e
  <2>4. Opened(e, cond, NoMilestones)
    BY <1>2, <1>5, <2>1, <2>2, <2>3, FilledOpens
  <2> QED
    BY <1>2, <1>4, <2>1, <2>4
<1>6. ASSUME NEW d \in Deposits, NEW grace \in GracePeriods, NEW window \in RefundWindows,
             NEW o \in Overrides,
             \/ Create(s, r, a, d, deadline, grace, window, o)
             \/ \E c \in Conditions :
                  CreateWithReleaseCondition(s, r, a, d, deadline, grace, window, o, c)
      PROVE  Goal
  <2>1. CASE Create(s, r, a, d, deadline, grace, window, o)
    BY <1>2, <1>5, <2>1 DEF Create
  <2>2. ASSUME NEW c \in Conditions,
               CreateWithReleaseCondition(s, r, a, d, deadline, grace, window, o, c)
        PROVE  Goal
    <3> DEFINE cond == [participants |-> c.participants, threshold |-> c.threshold,
                        approvals |-> 0, by |-> {}]
    <3>1. cond \in ReleaseCondition /\ Unsigned(cond)
      BY DEF ReleaseCondition, Unsigned
    <3>2. CreateWithRefundWindow(s, r, a, d, deadline, grace, window, o, cond)
      BY <2>2 DEF CreateWithReleaseCondition
    <3> QED
      BY <1>5, <3>1, <3>2
  <2> QED
    BY <1>6, <2>1, <2>2
<1>7. ASSUME NEW d \in Deposits, CreateTimelock(s, r, a, d, deadline)
      PROVE  Goal
  <2> DEFINE b == BulletAt(now, deadline)
             e == NewEscrow(s, r, a, d, "Funded", deadline, 0, 0, TotalAmount(d), b, NoOverride)
  <2>1. /\ b \in [release_type: {"None", "Cliff", "Linear"},
                  start_time: Nat, cliff_time: Nat, end_time: Nat]
        /\ Ordered(b)
    BY <1>1, <1>7 DEF BulletAt, Ordered, CreateTimelock
  <2>2. e \in EscrowRecord
    <3> HIDE DEF b
    <3> QED
      BY <1>1, <1>2, <1>3, <2>1, NewEscrowType DEF EscrowState
  <2>3. /\ e.state = "Funded" /\ e.assets = d /\ e.schedule = b
        /\ e.released_amount = 0 /\ e.funded_amount = TotalAmount(d)
    BY DEF NewEscrow
  <2>4. /\ \E t \in Token : d[t] > 0
        /\ Pull(d) /\ Store(e, NoCondition, NoMilestones)
    BY <1>3, <1>7 DEF CreateTimelock, ValidateAssets, Listed
  <2> HIDE DEF e, b
  <2>5. Opened(e, NoCondition, NoMilestones)
    BY <1>2, <2>1, <2>2, <2>3, <2>4, FilledOpens
  <2> QED
    BY <1>2, <1>4, <2>2, <2>5
<1>8. ASSUME NEW d \in Deposits, NEW schedule \in Schedules,
             CreateScheduled(s, r, a, d, schedule, deadline)
      PROVE  Goal
  <2> DEFINE eff == IF deadline = 0 THEN schedule.end_time ELSE deadline
             e == NewEscrow(s, r, a, d, "Funded", eff, 0, 0, TotalAmount(d),
                            schedule, NoOverride)
  <2>1. e \in EscrowRecord
    <3>1. eff \in Nat
      BY <1>1
    <3> QED
      BY <1>1, <1>2, <1>3, <3>1, NewEscrowType DEF EscrowState
  <2>2. /\ e.state = "Funded" /\ e.assets = d /\ e.schedule = schedule
        /\ e.released_amount = 0 /\ e.funded_amount = TotalAmount(d)
    BY DEF NewEscrow
  <2>3. /\ \E t \in Token : d[t] > 0
        /\ Pull(d) /\ Store(e, NoCondition, NoMilestones) /\ Ordered(schedule)
    BY <1>3, <1>8 DEF CreateScheduled, ValidateAssets, Listed, ValidSchedule, Ordered
  <2> HIDE DEF e, eff
  <2>4. Opened(e, NoCondition, NoMilestones)
    BY <1>2, <2>1, <2>2, <2>3, FilledOpens
  <2> QED
    BY <1>2, <1>4, <2>1, <2>4
<1>9. ASSUME NEW d \in Deposits, NEW grace \in GracePeriods,
             InitializeTimelock(s, r, a, d, deadline, grace)
      PROVE  Goal
  <2> DEFINE b == BulletAt(now, deadline)
             e == NewEscrow(s, r, a, d, "Created", deadline, grace, 0, 0, b, NoOverride)
  <2>1. /\ b \in [release_type: {"None", "Cliff", "Linear"},
                  start_time: Nat, cliff_time: Nat, end_time: Nat]
        /\ Ordered(b)
    BY <1>1, <1>9 DEF BulletAt, Ordered, InitializeTimelock
  <2>2. e \in EscrowRecord
    <3> HIDE DEF b
    <3> QED
      BY <1>1, <1>2, <1>3, <2>1, NewEscrowType DEF EscrowState
  <2>3. /\ e.state = "Created" /\ e.assets = d /\ e.schedule = b
        /\ e.released_amount = 0 /\ e.funded_amount = 0
    BY DEF NewEscrow
  <2>4. /\ \E t \in Token : d[t] > 0
        /\ custody' = custody /\ Store(e, NoCondition, NoMilestones)
    BY <1>3, <1>9 DEF InitializeTimelock, ValidateAssets, Listed
  <2> HIDE DEF e, b
  <2>5. TotalAmount(e.assets) > 0
    BY <1>3, <2>3, <2>4, Totals
  <2>6. Sound(e, NoCondition, NoMilestones, Nothing, Nothing, now)
    BY <1>1, <1>2, <2>1, <2>2, <2>3, <2>5, NewSound
  <2>7. \A t \in Token : custody'[t] = custody[t] + Holds(e, Nothing, Nothing, t)
    BY <2>2, <2>3, <2>4, NewHolds DEF TypeInv, TypeOK
  <2>8. Opened(e, NoCondition, NoMilestones)
    BY <2>3, <2>4, <2>6, <2>7 DEF Opened
  <2> QED
    BY <1>2, <1>4, <2>2, <2>8
<1>10. ASSUME NEW t \in Token, NEW amount \in Amounts, NEW weights \in MilestoneSpecs,
              DepositWithMilestones(s, r, a, t, amount, deadline, weights)
       PROVE  Goal
  <2> DEFINE d == [Nothing EXCEPT ![t] = amount]
             item(bps) == [release_bps |-> bps, status |-> "Pending"]
             e == NewEscrow(s, r, a, d, "Funded", deadline, 0, 0, amount,
                            NoSchedule, NoOverride)
             items == [i \in 1..Len(weights) |-> item(weights[i])]
             set == [items |-> items, released_amount |-> 0, cancelled |-> FALSE]
  <2>1. /\ amount \in Nat /\ amount > 0 /\ d \in [Token -> Nat]
        /\ d[t] = amount /\ \A u \in Token \ {t} : d[u] = 0
    BY <1>10 DEF DepositWithMilestones, Nothing
  <2>2. e \in EscrowRecord
    BY <1>1, <1>2, <2>1, NewEscrowType DEF EscrowState
  <2>3. /\ e.state = "Funded" /\ e.assets = d /\ e.schedule = NoSchedule
        /\ e.released_amount = 0 /\ e.funded_amount = amount
    BY DEF NewEscrow
  <2>4. /\ weights \in Seq(Nat) /\ weights # <<>> /\ SumFunction(weights) = BPS
        /\ Pull(d) /\ Store(e, NoCondition, set)
    BY <1>10 DEF DepositWithMilestones
  <2>5. /\ items \in Seq(Milestone) /\ items # <<>> /\ Len(items) = Len(weights)
        /\ \A i \in 1..Len(items) :
             items[i].status = "Pending" /\ items[i].release_bps = weights[i]
    <3>1. \A i \in 1..Len(weights) : item(weights[i]) \in Milestone
      <4>1. \A i \in 1..Len(weights) : weights[i] \in Nat
        <5>1. weights \in Seq(Nat)
          BY <2>4
        <5> HIDE DEF d, e, items, set
        <5> QED
          BY <5>1
      <4> QED
        BY <4>1 DEF Milestone, MilestoneStatus
    <3>2. \A i \in 1..Len(weights) : item(weights[i]).status = "Pending"
                                    /\ item(weights[i]).release_bps = weights[i]
      OBVIOUS
    <3>3. Len(weights) \in Nat /\ Len(weights) # 0
      BY <2>4
    <3> HIDE DEF item
    <3>4. items \in Seq(Milestone) /\ Len(items) = Len(weights)
      BY <3>1, <3>3
    <3>5. \A i \in 1..Len(weights) : items[i] = item(weights[i])
      OBVIOUS
    <3> HIDE DEF items
    <3> QED
      BY <3>2, <3>3, <3>4, <3>5
  <2> HIDE DEF e, d, items
  <2>6. /\ set \in MilestoneSet /\ set.items = items /\ set.released_amount = 0
    BY <2>5 DEF MilestoneSet
  <2> HIDE DEF set
  <2>7. Weights(items) = weights
    BY <2>4, <2>5 DEF Weights
  <2>8. NoCondition.threshold = 0
    BY DEF NoCondition
  <2>9. Sound(e, NoCondition, set, Nothing, Nothing, now)
    <3>1. set.items # <<>> /\ SumFunction(Weights(set.items)) = BPS
      BY <2>4, <2>5, <2>6, <2>7
    <3>2. \A i \in 1..Len(set.items) : set.items[i].status = "Pending"
      BY <2>5, <2>6
    <3>3. /\ e.assets[t] > 0 /\ e.funded_amount = e.assets[t]
          /\ \A u \in Token \ {t} : e.assets[u] = 0
      BY <2>1, <2>3
    <3>4. ~Scheduled(e.schedule)
      BY <1>2, <2>3
    <3> QED
      BY <1>1, <1>2, <2>2, <2>3, <2>6, <2>8, <3>1, <3>2, <3>3, <3>4, NewPhasedSound
  <2>10. \A u \in Token : custody'[u] = custody[u] + Holds(e, Nothing, Nothing, u)
    BY <2>1, <2>2, <2>3, <2>4, NewHolds DEF Pull
  <2>11. Opened(e, NoCondition, set)
    BY <2>3, <2>4, <2>9, <2>10 DEF Opened
  <2> QED
    BY <1>2, <1>4, <2>2, <2>6, <2>11
<1> QED
  BY <1>6, <1>7, <1>8, <1>9, <1>10

\* The record stored last, and the ones before it.
LEMMA Extended ==
  ASSUME NEW k \in Nat, count = k, NEW f, NEW v
  PROVE  /\ Extend(f, v)[k + 1] = v
         /\ \A j \in 1..k : Extend(f, v)[j] = f[j]
  BY DEF Extend

\* Storing a sound escrow preserves the invariant.
LEMMA OpenedInv ==
  ASSUME Inv, TypeInv', NEW e \in EscrowRecord, NEW c \in ReleaseCondition,
         NEW m \in MilestoneSet, Opened(e, c, m)
  PROVE  Inv'
<1>1. PICK k \in Nat : k = count
  BY DEF Inv, TypeInv, TypeOK
<1>2. count' = k + 1 /\ now' = now /\ now \in Nat
  BY <1>1 DEF Opened, Store, Inv, TypeInv, TypeOK
<1>3. /\ escrow'[k + 1] = e /\ condition'[k + 1] = c /\ milestones'[k + 1] = m
      /\ toRecipient'[k + 1] = Nothing /\ toSender'[k + 1] = Nothing
  BY <1>1, Extended DEF Opened, Store
<1>4. \A j \in 1..k : Same(j)
  BY <1>1, Extended DEF Opened, Store, Same
<1>5. EscrowsSound'
  <2> SUFFICES ASSUME NEW j \in 1..(k + 1)
               PROVE  Sound(escrow'[j], condition'[j], milestones'[j],
                            toRecipient'[j], toSender'[j], now)
    BY <1>2 DEF EscrowsSound
  <2>1. CASE j = k + 1
    BY <1>3, <2>1 DEF Opened
  <2>2. CASE j \in 1..k
    <3>1. Sound(escrow[j], condition[j], milestones[j], toRecipient[j], toSender[j], now)
      BY <1>1, <2>2 DEF Inv, EscrowsSound
    <3> QED
      BY <1>4, <2>2, <3>1 DEF Same
  <2> QED
    BY <2>1, <2>2
<1>6. ASSUME NEW t \in Token
      PROVE  custody'[t] = SumFunction([j \in 1..(k + 1) |-> HeldNext(j, t)])
  <2> DEFINE f == [j \in 1..k |-> HeldNow(j, t)]
             g == [j \in 1..(k + 1) |-> HeldNext(j, t)]
  <2>1. custody[t] = SumFunction(f)
    BY <1>1 DEF Inv, CustodyExact, Deposited, Paid, HeldNow, Holds
  <2>2. \A j \in 1..k : HeldNow(j, t) \in Nat
    <3> SUFFICES ASSUME NEW j \in 1..k PROVE HeldNow(j, t) \in Nat
      OBVIOUS
    <3>1. /\ escrow[j] \in EscrowRecord /\ milestones[j] \in MilestoneSet
          /\ toRecipient[j] \in Balances /\ toSender[j] \in Balances
      BY <1>1, RecordTypes DEF Inv
    <3>2. Sound(escrow[j], condition[j], milestones[j], toRecipient[j], toSender[j], now)
      BY <1>1 DEF Inv, EscrowsSound
    <3> QED
      BY <3>1, <3>2, HoldsNat DEF HeldNow
  <2>3. \A j \in 1..k : HeldNext(j, t) = HeldNow(j, t)
    BY <1>4 DEF Same, HeldNow, HeldNext
  <2>4. HeldNext(k + 1, t) = Holds(e, Nothing, Nothing, t)
    BY <1>3 DEF HeldNext
  <2>5. Holds(e, Nothing, Nothing, t) \in Nat
    BY NothingPaid, HoldsNat DEF Opened
  <2>6. custody'[t] = custody[t] + Holds(e, Nothing, Nothing, t)
    BY DEF Opened
  <2>7. /\ DOMAIN f = 1..k /\ DOMAIN g = 1..(k + 1)
        /\ \A j \in 1..k : f[j] \in Int /\ g[j] = f[j]
        /\ g[k + 1] = Holds(e, Nothing, Nothing, t)
    BY <2>2, <2>3, <2>4
  <2> HIDE DEF f, g
  <2>8. SumFunction(g) = SumFunction(f) + g[k + 1]
    BY <2>5, <2>7, SumStored
  <2>9. custody'[t] = SumFunction(g)
    BY <2>1, <2>6, <2>7, <2>8
  <2> QED
    BY <2>9 DEF g
<1>7. CustodyExact'
  BY <1>2, <1>6 DEF CustodyExact, Deposited, Paid, HeldNext, Holds
<1> QED
  BY <1>5, <1>7 DEF Inv

\* The contract starts with no escrows and nothing in custody.
LEMMA InvInit == Init => Inv
<1> SUFFICES ASSUME Init PROVE Inv
  OBVIOUS
<1>1. TypeInv
  BY TypeInit
<1>2. 1..count = {}
  BY DEF Init
<1>3. CustodyExact
  <2> SUFFICES ASSUME NEW t \in Token
               PROVE  custody[t] = SumFunction([id \in 1..count |-> Deposited(id)[t] - Paid(id, t)])
    BY DEF CustodyExact
  <2> DEFINE f == [id \in 1..count |-> Deposited(id)[t] - Paid(id, t)]
  <2>1. DOMAIN f = {}
    BY <1>2
  <2> HIDE DEF f
  <2>2. SumFunction(f) = 0
    BY <2>1, SumEmpty DEF SumFunction
  <2> QED
    BY <2>2, NothingPaid DEF f, Init
<1> QED
  BY <1>1, <1>2, <1>3 DEF Inv, EscrowsSound

\* A step changes one escrow, stores one, lets a second pass, or leaves the
\* escrows alone.
LEMMA StepCases ==
  ASSUME Inv, [Next]_vars
  PROVE  /\ TypeInv'
         /\ \/ \E id \in 1..count : Effect(id)
            \/ \E e \in EscrowRecord, c \in ReleaseCondition, m \in MilestoneSet :
                 Opened(e, c, m)
            \/ /\ UNCHANGED <<count, escrow, condition, milestones, ledger>>
               /\ now' \in {now, now + 1}
<1>1. TypeInv /\ TypeInv'
  BY TypeStep DEF Inv
<1>2. CASE Tick
  BY <1>1, <1>2 DEF Tick
<1>3. ASSUME NEW a \in Admins, Initialize(a)
      PROVE  UNCHANGED <<now, count, escrow, condition, milestones, ledger>>
  BY <1>3 DEF Initialize
<1>4. ASSUME NEW caller \in Addr, NEW t \in Token, ApproveToken(caller, t) \/ RevokeToken(caller, t)
      PROVE  UNCHANGED <<now, count, escrow, condition, milestones, ledger>>
  BY <1>4 DEF ApproveToken, RevokeToken
<1>5. CASE Creation
  BY <1>1, <1>5, CreationOpens
<1>6. ASSUME NEW id \in 1..count, Operation(id)
      PROVE  Effect(id)
  BY <1>1, <1>6, OperationEffect
<1>7. CASE UNCHANGED vars
  BY <1>1, <1>7 DEF vars, ledger
<1> QED
  BY <1>1, <1>2, <1>3, <1>4, <1>5, <1>6, <1>7 DEF Next

\* Every step preserves the invariant.
LEMMA InvStep == Inv /\ [Next]_vars => Inv'
<1> SUFFICES ASSUME Inv, [Next]_vars PROVE Inv'
  OBVIOUS
<1>1. TypeInv'
  BY StepCases
<1>2. CASE \E id \in 1..count : Effect(id)
  BY <1>1, <1>2, EffectInv
<1>3. CASE \E e \in EscrowRecord, c \in ReleaseCondition, m \in MilestoneSet : Opened(e, c, m)
  BY <1>1, <1>3, OpenedInv
<1>4. CASE /\ UNCHANGED <<count, escrow, condition, milestones, ledger>>
           /\ now' \in {now, now + 1}
  <2>1. now \in Nat /\ now' \in Nat /\ now <= now'
    BY <1>4 DEF Inv, TypeInv, TypeOK
  <2>2. CustodyExact'
    BY <1>4 DEF Inv, CustodyExact, Deposited, Paid, ledger
  <2>3. EscrowsSound'
    <3> SUFFICES ASSUME NEW j \in 1..count
                 PROVE  Sound(escrow[j], condition[j], milestones[j],
                              toRecipient[j], toSender[j], now')
      BY <1>4 DEF EscrowsSound, ledger
    <3>1. Sound(escrow[j], condition[j], milestones[j], toRecipient[j], toSender[j], now)
      BY DEF Inv, EscrowsSound
    <3>2. /\ escrow[j] \in EscrowRecord /\ condition[j] \in ReleaseCondition
          /\ milestones[j] \in MilestoneSet
          /\ toRecipient[j] \in Balances /\ toSender[j] \in Balances
      BY RecordTypes DEF Inv
    <3>3. Sound(escrow[j], condition[j], milestones[j], toRecipient[j], toSender[j], now + 1)
      BY <2>1, <3>1, <3>2, TimeSound
    <3> QED
      BY <1>4, <3>1, <3>3
  <2> QED
    BY <1>1, <2>2, <2>3 DEF Inv
<1> QED
  BY <1>2, <1>3, <1>4, StepCases

\* The escrow invariant: every record is sound and custody is the sum of what
\* the escrows hold.
THEOREM EscrowInvariant == Spec => []Inv
  BY InvInit, InvStep, PTL DEF Spec

-----------------------------------------------------------------------------
(* What the invariant says of the escrows                                   *)

\* Every record of a state that satisfies the invariant.
LEMMA EachEscrow ==
  ASSUME Inv, NEW id \in 1..count
  PROVE  /\ escrow[id] \in EscrowRecord /\ condition[id] \in ReleaseCondition
         /\ milestones[id] \in MilestoneSet
         /\ toRecipient[id] \in Balances /\ toSender[id] \in Balances
         /\ Sound(escrow[id], condition[id], milestones[id], toRecipient[id], toSender[id], now)
<1>1. Sound(escrow[id], condition[id], milestones[id], toRecipient[id], toSender[id], now)
  BY DEF Inv, EscrowsSound
<1> QED
  BY <1>1, RecordTypes DEF Inv

\* What one escrow holds of a token is part of custody.
LEMMA HeldInCustody ==
  ASSUME Inv, NEW id \in 1..count, NEW t \in Token
  PROVE  /\ HeldNow(id, t) \in Nat
         /\ custody[t] \in Nat
         /\ HeldNow(id, t) <= custody[t]
<1> DEFINE f == [j \in 1..count |-> Deposited(j)[t] - Paid(j, t)]
<1>1. IsFiniteSet(1..count) /\ DOMAIN f = 1..count
  <2>1. count \in Nat
    BY DEF Inv, TypeInv, TypeOK
  <2> QED
    BY <2>1, FS_Interval
<1>2. \A j \in 1..count : f[j] = HeldNow(j, t) /\ f[j] \in Nat
  <2> SUFFICES ASSUME NEW j \in 1..count PROVE f[j] = HeldNow(j, t) /\ f[j] \in Nat
    OBVIOUS
  <2>1. f[j] = HeldNow(j, t)
    BY DEF HeldNow, Holds, Deposited, Paid
  <2>2. HeldNow(j, t) \in Nat
    BY EachEscrow, HoldsNat DEF HeldNow
  <2> QED
    BY <2>1, <2>2
<1>3. custody[t] = SumFunctionOnSet(f, 1..count)
  BY <1>1 DEF Inv, CustodyExact, SumFunction
<1> HIDE DEF f
<1>4. SumFunctionOnSet(f, {id}) = f[id]
  BY <1>2, SumOne
<1>5. SumFunctionOnSet(f, {id}) <= SumFunctionOnSet(f, 1..count)
  <2>1. {id} \in SUBSET (1..count)
    OBVIOUS
  <2> QED
    BY <1>1, <1>2, <2>1, SumOfPart
<1>6. SumFunctionOnSet(f, 1..count) \in Nat
  BY <1>1, <1>2, SumNat
<1> QED
  BY <1>2, <1>3, <1>4, <1>5, <1>6

\* The payout of a milestone that is not completed is at most what is left.
LEMMA MilestoneAffordable ==
  ASSUME NEW e \in EscrowRecord, NEW m \in MilestoneSet, NEW r, NEW s,
         Phased(e, m, r, s), Funding(e), NEW i \in Unreleased(m), NEW x, Owes(e, m, i, x)
  PROVE  x \in Nat /\ m.released_amount + x <= e.funded_amount
<1> DEFINE items == m.items
           given == Done(items) \cup {i}
<1>1. PICK n \in Nat \ {0}, y \in Nat : n = e.funded_amount /\ y = m.released_amount
  BY DEF EscrowRecord, MilestoneSet, Phased
<1>2. items \in Seq(Milestone) /\ SumFunction(Weights(items)) = BPS
  BY DEF MilestoneSet, Phased
<1>3. i \in 1..Len(items) /\ i \notin Done(items)
  BY DEF Unreleased, Done
<1>4. TotalAmount(e.assets) = n
  BY <1>1 DEF Funding
<1>5. y <= n
  BY <1>1, PhasedPaid
<1>6. CASE Cardinality(Unreleased(m)) = 1
  <2>1. x = n - y
    BY <1>1, <1>4, <1>6 DEF Owes
  <2> QED
    BY <1>1, <1>5, <2>1
<1>7. CASE Cardinality(Unreleased(m)) # 1
  <2>1. x = MilestoneShare(n, items[i].release_bps)
    BY <1>4, <1>7 DEF Owes
  <2>2. y * BPS <= n * SumFunctionOnSet(Weights(items), Done(items))
    <3>1. Done(items) # 1..Len(items)
      BY <1>3
    <3> QED
      BY <1>1, <3>1 DEF Phased
  <2>3. /\ x \in Nat
        /\ (y + x) * BPS <= n * SumFunctionOnSet(Weights(items), given)
    BY <1>2, <1>3, <2>1, <2>2, NextMilestone
  <2>4. /\ SumFunctionOnSet(Weights(items), given) \in Nat
        /\ SumFunctionOnSet(Weights(items), given) <= BPS
    <3>1. IsFiniteSet(1..Len(items)) /\ given \in SUBSET (1..Len(items))
      <4>1. Len(items) \in Nat
        BY <1>2
      <4>2. IsFiniteSet(1..Len(items))
        BY <4>1, FS_Interval
      <4>3. given \subseteq 1..Len(items)
        BY <1>3 DEF Done
      <4> QED
        BY <4>2, <4>3
    <3>2. \A j \in 1..Len(items) : Weights(items)[j] \in Nat
      <4>1. \A j \in 1..Len(items) : items[j] \in Milestone
        BY <1>2
      <4> QED
        BY <4>1 DEF Weights, Milestone
    <3>3. SumFunctionOnSet(Weights(items), 1..Len(items)) = BPS
      <4>1. DOMAIN Weights(items) = 1..Len(items)
        BY DEF Weights
      <4> QED
        BY <1>2, <4>1 DEF SumFunction
    <3>4. IsFiniteSet(given)
      BY <3>1, FS_Subset
    <3> HIDE DEF given, items
    <3>5. SumFunctionOnSet(Weights(items), given) \in Nat
      BY <3>1, <3>2, <3>4, SumNat
    <3>6. SumFunctionOnSet(Weights(items), given) <= SumFunctionOnSet(Weights(items), 1..Len(items))
      BY <3>1, <3>2, SumOfPart
    <3> QED
      BY <3>3, <3>5, <3>6
  <2>5. PICK w \in Nat : w = SumFunctionOnSet(Weights(items), given) /\ w <= BPS
    BY <2>4
  <2>6. n * w <= n * BPS /\ n * w \in Nat /\ n * BPS \in Nat /\ (y + x) * BPS \in Nat
    BY <2>3, <2>5, ProductMonotonic DEF BPS
  <2>7. (y + x) * BPS < (n + 1) * BPS
    <3>1. (y + x) * BPS <= n * BPS
      BY <2>3, <2>5, <2>6
    <3>2. (n + 1) * BPS = n * BPS + BPS /\ BPS \in Nat \ {0}
      BY DEF BPS
    <3> QED
      BY <2>6, <3>1, <3>2
  <2>8. y + x < n + 1
    <3>1. BPS \in Nat \ {0} /\ y + x \in Int /\ n + 1 \in Int
      BY <2>3 DEF BPS
    <3> QED
      BY <2>7, <3>1, CancelFactor
  <2> QED
    BY <1>1, <2>3, <2>8
<1> QED
  BY <1>6, <1>7

\* Whatever an escrow without milestones may still pay is in custody.
LEMMA PlainCovered ==
  ASSUME Inv, NEW id \in 1..count, ~HasMilestones(id),
         escrow[id].state \in {"Created", "Funded", "Expired"},
         NEW x \in 0..Remaining(escrow[id]), NEW t \in Token
  PROVE  ProRata(escrow[id], x)[t] \in 0..custody[t]
<1> DEFINE e == escrow[id]
           r == toRecipient[id]
           s == toSender[id]
<1>1. /\ e \in EscrowRecord /\ r \in Balances /\ s \in Balances
      /\ Funding(e) /\ Plain(e, r, s)
  BY EachEscrow DEF Sound, HasMilestones
<1>2. /\ e.funded_amount \in Nat /\ e.released_amount \in Nat
      /\ e.released_amount <= e.funded_amount /\ e.assets[t] \in Nat
      /\ DOMAIN e.assets = Token /\ r[t] \in Nat
  BY <1>1 DEF EscrowRecord, Funding, Balances
<1>3. x \in Nat /\ e.released_amount + x <= e.funded_amount
  BY <1>2 DEF Remaining
<1>4. HeldNow(id, t) <= custody[t] /\ custody[t] \in Nat /\ HeldNow(id, t) \in Nat
  BY HeldInCustody
<1>5. CASE e.state = "Created"
  <2>1. x = 0
    BY <1>1, <1>2, <1>3, <1>5 DEF Funding
  <2> QED
    BY <1>2, <1>4, <2>1 DEF ProRata
<1>6. CASE e.state \in Live
  <2>1. ProRata(e, x)[t] \in Nat /\ r[t] + ProRata(e, x)[t] <= e.assets[t]
    BY <1>1, <1>3, <1>6, Payout
  <2>2. s[t] = 0 /\ e.funded_amount # 0
    BY <1>1, <1>2, <1>6 DEF Plain, Funding
  <2>3. HeldNow(id, t) = e.assets[t] - (r[t] + s[t])
    BY <2>2 DEF HeldNow, Holds
  <2> QED
    BY <1>2, <1>4, <2>1, <2>2, <2>3
<1> QED
  BY <1>5, <1>6 DEF Live

\* An open phased escrow still holds exactly what its milestones did not pay.
LEMMA PhasedHolds ==
  ASSUME Inv, NEW id \in 1..count, HasMilestones(id),
         escrow[id].state \in {"Created", "Funded", "Expired"}
  PROVE  \E a \in Token :
           /\ escrow[id].funded_amount > 0
           /\ escrow[id].assets[a] = escrow[id].funded_amount
           /\ \A t \in Token \ {a} : escrow[id].assets[t] = 0
           /\ escrow[id].funded_amount - milestones[id].released_amount \in 0..custody[a]
<1> DEFINE e == escrow[id]
           m == milestones[id]
           r == toRecipient[id]
           s == toSender[id]
<1>1. /\ e \in EscrowRecord /\ m \in MilestoneSet /\ r \in Balances /\ s \in Balances
      /\ Funding(e) /\ Phased(e, m, r, s)
  BY EachEscrow DEF Sound, HasMilestones
<1>2. e.funded_amount \in Nat \ {0} /\ m.released_amount \in Nat /\ e.state \in Live
  BY <1>1 DEF EscrowRecord, MilestoneSet, Phased, Funding, Live
<1>3. PICK a \in Token :
        /\ e.assets[a] = e.funded_amount
        /\ r[a] = m.released_amount
        /\ s[a] = IF e.state \in Live THEN 0 ELSE e.funded_amount - m.released_amount
        /\ \A t \in Token \ {a} : e.assets[t] = 0 /\ r[t] = 0 /\ s[t] = 0
  BY <1>1 DEF Phased
<1>4. HeldNow(id, a) = e.funded_amount - m.released_amount
  BY <1>2, <1>3 DEF HeldNow, Holds
<1>5. HeldNow(id, a) \in Nat /\ HeldNow(id, a) <= custody[a] /\ custody[a] \in Nat
  BY HeldInCustody
<1> QED
  BY <1>2, <1>3, <1>4, <1>5

\* Whatever a phased escrow may still pay is in custody.
LEMMA PhasedCovered ==
  ASSUME Inv, NEW id \in 1..count, HasMilestones(id),
         escrow[id].state \in {"Created", "Funded", "Expired"}, NEW t \in Token
  PROVE  /\ ProRata(escrow[id], escrow[id].funded_amount - milestones[id].released_amount)[t]
              \in 0..custody[t]
         /\ \A i \in Unreleased(milestones[id]) : MilestoneLegs(id, i)[t] \in 0..custody[t]
<1> DEFINE e == escrow[id]
           m == milestones[id]
<1>1. /\ e \in EscrowRecord /\ m \in MilestoneSet
      /\ Funding(e) /\ Phased(e, m, toRecipient[id], toSender[id])
  BY EachEscrow DEF Sound, HasMilestones
<1>2. PICK a \in Token :
        /\ e.funded_amount > 0
        /\ e.assets[a] = e.funded_amount
        /\ \A u \in Token \ {a} : e.assets[u] = 0
        /\ e.funded_amount - m.released_amount \in 0..custody[a]
  BY PhasedHolds
<1>3. /\ custody[t] \in Nat /\ custody[a] \in Nat
      /\ e.funded_amount \in Nat /\ m.released_amount \in Nat
  BY <1>1, HeldInCustody DEF EscrowRecord, MilestoneSet
<1>4. PICK y \in Nat : y = e.funded_amount - m.released_amount /\ y <= custody[a]
  BY <1>2, <1>3
<1>5. ProRata(e, y)[t] \in 0..custody[t]
  <2>1. ProRata(e, y)[a] = y /\ \A u \in Token \ {a} : ProRata(e, y)[u] = 0
    BY <1>1, <1>2, SoleAsset
  <2> QED
    BY <1>3, <1>4, <2>1
<1>6. ASSUME NEW i \in Unreleased(m) PROVE MilestoneLegs(id, i)[t] \in 0..custody[t]
  <2>1. PICK x : x = MilestonePayout(id, i)
    OBVIOUS
  <2>2. Owes(e, m, i, x)
    BY <2>1 DEF Owes, MilestonePayout
  <2>3. x \in Nat /\ x <= y
    BY <1>1, <1>3, <1>4, <2>2, MilestoneAffordable
  <2>4. (CHOOSE u \in Token : e.assets[u] > 0) = a
    BY <1>2
  <2>5. MilestoneLegs(id, i)[t] = IF t = a THEN x ELSE 0
    BY <2>1, <2>4 DEF MilestoneLegs, Nothing
  <2> QED
    BY <1>3, <1>4, <2>3, <2>5
<1> QED
  BY <1>4, <1>5, <1>6

\* No mix of partial payouts and settlements takes more out of an escrow than
\* its deposit, custody is exactly what the escrows still hold, and a payout
\* that is owed never fails for lack of tokens: the deposits of one contract
\* balance never pay for one another.
THEOREM CustodyIsSound == Spec => []CustodySound
<1>1. Inv => NoOverdraw
  <2> SUFFICES ASSUME Inv, NEW id \in 1..count, NEW t \in Token
               PROVE  Paid(id, t) <= Deposited(id)[t]
    BY DEF NoOverdraw
  <2>1. Holds(escrow[id], toRecipient[id], toSender[id], t) \in Nat
    BY EachEscrow, HoldsNat
  <2>2. escrow[id].assets[t] \in Nat /\ toRecipient[id][t] \in Nat /\ toSender[id][t] \in Nat
        /\ Nothing[t] = 0
    BY EachEscrow, NothingPaid DEF EscrowRecord, Balances
  <2> QED
    BY <2>1, <2>2 DEF Holds, Deposited, Paid
<1>2. Inv => PayoutsCovered
  BY PlainCovered, PhasedCovered DEF PayoutsCovered
<1>3. Inv => CustodySound
  BY <1>1, <1>2 DEF CustodySound, Inv
<1> QED
  BY <1>3, EscrowInvariant, PTL

\* A settled escrow of one asset has paid out its deposit to the last unit:
\* neither pro-rata rounding nor milestone weights leave dust behind.
THEOREM EverythingIsSettled == Spec => []SettledPaysEverything
<1>1. Inv => SettledPaysEverything
  <2> SUFFICES ASSUME Inv, NEW id \in 1..count, escrow[id].state \in Settled,
                      Cardinality(Listed(escrow[id].assets)) = 1, NEW t \in Token
               PROVE  Paid(id, t) = Deposited(id)[t]
    BY DEF SettledPaysEverything
  <2> DEFINE e == escrow[id]
             r == toRecipient[id]
             s == toSender[id]
             m == milestones[id]
  <2>1. /\ e \in EscrowRecord /\ r \in Balances /\ s \in Balances /\ m \in MilestoneSet
        /\ Sound(e, condition[id], m, r, s, now)
    BY EachEscrow
  <2>2. /\ e.assets \in [Token -> Nat] /\ e.funded_amount \in Nat
        /\ m.released_amount \in Nat
        /\ \A u \in Token : r[u] \in Nat /\ s[u] \in Nat /\ e.assets[u] \in Nat
    BY <2>1 DEF EscrowRecord, Balances, MilestoneSet
  <2> HIDE DEF e, r, s, m
  <2>3. PICK a \in Token : \A u \in Token : e.assets[u] > 0 <=> u = a
    <3>1. IsFiniteSet(Listed(e.assets)) /\ Listed(e.assets) = {u \in Token : e.assets[u] > 0}
      <4>1. Listed(e.assets) = {u \in Token : e.assets[u] > 0}
        BY <2>2 DEF Listed
      <4> QED
        BY <4>1, FS_Subset, DepositsAssumption
    <3>2. Cardinality(Listed(e.assets)) = 1
      BY DEF e
    <3>3. PICK x : Listed(e.assets) = {x}
      BY <3>1, <3>2, FS_Singleton
    <3> QED
      BY <3>1, <3>3
  <2>4. \A u \in Token \ {a} : e.assets[u] = 0
    BY <2>2, <2>3
  <2>5. TotalAmount(e.assets) = e.assets[a]
    BY <2>2, <2>4, Totals
  <2>6. Funding(e) /\ e.state \in Settled /\ Settled \cap Live = {}
    BY <2>1 DEF Sound, e, Settled, Live
  <2>7. CASE m.items = <<>>
    <3>1. Plain(e, r, s)
      BY <2>1, <2>7 DEF Sound
    <3>2. CASE e.funded_amount = 0
      <4>1. r[t] = 0 /\ s[t] = 0 /\ Nothing[t] = 0
        BY <3>1, <3>2, NothingPaid DEF Plain
      <4> QED
        BY <3>2, <4>1 DEF Paid, Deposited, e, r, s
    <3>3. CASE e.funded_amount # 0
      <4>1. e.funded_amount = e.assets[a] /\ e.funded_amount > 0
        BY <2>2, <2>5, <2>6, <3>3 DEF Funding
      <4>2. r[t] + s[t] <= e.assets[t] /\ (t = a => r[t] + s[t] = e.assets[t])
        BY <2>6, <3>1, <4>1 DEF Plain
      <4>3. r[t] + s[t] = e.assets[t]
        BY <2>2, <2>4, <4>2
      <4> QED
        BY <3>3, <4>3 DEF Paid, Deposited, e, r, s
    <3> QED
      BY <3>2, <3>3
  <2>8. CASE m.items # <<>>
    <3>1. Phased(e, m, r, s)
      BY <2>1, <2>8 DEF Sound
    <3>2. PICK b \in Token :
             /\ e.assets[b] = e.funded_amount
             /\ r[b] = m.released_amount
             /\ s[b] = IF e.state \in Live THEN 0 ELSE e.funded_amount - m.released_amount
             /\ \A u \in Token \ {b} : e.assets[u] = 0 /\ r[u] = 0 /\ s[u] = 0
      BY <3>1 DEF Phased
    <3>3. r[t] + s[t] = e.assets[t]
      <4>1. s[b] = e.funded_amount - m.released_amount
        BY <2>6, <3>2
      <4> QED
        BY <2>2, <3>2, <4>1
    <3>4. e.funded_amount # 0
      BY <3>1 DEF Phased
    <3> QED
      BY <3>3, <3>4 DEF Paid, Deposited, e, r, s
  <2> QED
    BY <2>7, <2>8
<1> QED
  BY <1>1, EscrowInvariant, PTL

\* A multi-party escrow pays its recipient, on every path, only once as many
\* different participants as its threshold asks for have signed off.
THEOREM ApprovalsComeFirst == Spec => []PaidOnlyWithApprovals
<1>1. Inv => PaidOnlyWithApprovals
  <2> SUFFICES ASSUME Inv, NEW id \in 1..count, \E t \in Token : toRecipient[id][t] > 0
               PROVE  Cardinality(condition[id].by \cap condition[id].participants)
                        >= condition[id].threshold
    BY DEF PaidOnlyWithApprovals
  <2>1. Signed(condition[id], milestones[id], toRecipient[id])
    BY EachEscrow DEF Sound
  <2>2. condition[id].by \cap condition[id].participants = condition[id].by
    BY <2>1 DEF Signed
  <2> QED
    BY <2>1, <2>2 DEF Signed
<1> QED
  BY <1>1, EscrowInvariant, PTL

\* An open escrow has paid its recipient no more than its schedule has vested,
\* or than the weight of its completed milestones.
THEOREM EarningsComeFirst == Spec => []EarnedBeforePaid
<1>1. Inv => OpenWithinVesting
  <2> SUFFICES ASSUME Inv, NEW id \in 1..count, Scheduled(escrow[id].schedule),
                      escrow[id].state = "Funded"
               PROVE  escrow[id].released_amount
                        <= VestedAmount(escrow[id].funded_amount, escrow[id].schedule, now)
    BY DEF OpenWithinVesting
  <2>1. Vesting(escrow[id], now)
    BY EachEscrow DEF Sound
  <2> QED
    BY <2>1 DEF Vesting
<1>2. Inv => MilestonesWithinShare
  <2> SUFFICES ASSUME Inv, NEW id \in 1..count, HasMilestones(id),
                      Done(milestones[id].items) # 1..Len(milestones[id].items),
                      NEW t \in Token
               PROVE  toRecipient[id][t] * BPS
                        <= escrow[id].assets[t]
                             * SumFunctionOnSet(Weights(milestones[id].items),
                                                Done(milestones[id].items))
    BY DEF MilestonesWithinShare, Done, Weights
  <2> DEFINE e == escrow[id]
             r == toRecipient[id]
             m == milestones[id]
             w == SumFunctionOnSet(Weights(m.items), Done(m.items))
  <2>1. Phased(e, m, r, toSender[id])
    BY EachEscrow DEF Sound, HasMilestones
  <2>2. m.released_amount * BPS <= e.funded_amount * w
    BY <2>1 DEF Phased
  <2>3. PICK a \in Token : /\ e.assets[a] = e.funded_amount
                           /\ r[a] = m.released_amount
                           /\ \A u \in Token \ {a} : e.assets[u] = 0 /\ r[u] = 0
    BY <2>1 DEF Phased
  <2>4. w \in Int
    <3>1. \A i \in DOMAIN Weights(m.items) : Weights(m.items)[i] \in Int
      <4>1. m.items \in Seq(Milestone)
        BY EachEscrow DEF MilestoneSet
      <4>2. \A i \in 1..Len(m.items) : m.items[i] \in Milestone
        BY <4>1
      <4> QED
        BY <4>2 DEF Weights, Milestone
    <3>2. Done(m.items) \subseteq DOMAIN Weights(m.items)
      BY DEF Done, Weights
    <3>3. IsFiniteSet(Done(m.items))
      <4>1. Len(m.items) \in Int /\ 1 \in Int
        BY EachEscrow DEF MilestoneSet
      <4>2. IsFiniteSet(1..Len(m.items))
        BY <4>1, FS_Interval
      <4> QED
        BY <4>2, FS_Subset DEF Done
    <3> QED
      BY <3>1, <3>2, <3>3, SumInt
  <2>5. 0 * BPS = 0 /\ \A n \in Int : 0 * n = 0
    BY SMT DEF BPS
  <2> HIDE DEF e, r, m, w
  <2>6. ASSUME t = a PROVE r[t] * BPS <= e.assets[t] * w
    BY <2>2, <2>3, <2>6
  <2>7. ASSUME t # a PROVE r[t] * BPS <= e.assets[t] * w
    <3>1. r[t] = 0 /\ e.assets[t] = 0
      BY <2>3, <2>7
    <3>2. r[t] * BPS = 0 /\ e.assets[t] * w = 0
      BY <2>4, <2>5, <3>1
    <3> QED
      BY <3>2
  <2>8. r[t] * BPS <= e.assets[t] * w
    BY <2>6, <2>7
  <2> QED
    BY <2>8 DEF e, r, m, w
<1> QED
  BY <1>1, <1>2, EscrowInvariant, PTL DEF EarnedBeforePaid

-----------------------------------------------------------------------------
(* What a step may not do                                                   *)

\* No call moves a token of a settled escrow, whatever call settled it, and
\* none takes it anywhere but to Closed.
THEOREM SettlementIsFinal == Spec => [][SettledIsFinal]_vars
<1>1. ASSUME Inv, [Next]_vars PROVE SettledIsFinal
  <2> SUFFICES ASSUME NEW j \in 1..count, escrow[j].state \in Settled
               PROVE  /\ toRecipient'[j] = toRecipient[j]
                      /\ toSender'[j] = toSender[j]
                      /\ escrow'[j].state \in {escrow[j].state, "Closed"}
    BY DEF SettledIsFinal
  <2>1. CASE \E id \in 1..count : Effect(id)
    <3>1. PICK id \in 1..count : Effect(id)
      BY <2>1
    <3>2. CASE j = id
      BY <3>1, <3>2 DEF Effect, Moves, Settled, Live
    <3>3. CASE j # id
      BY <3>1, <3>3 DEF Effect, Alone, Same
    <3> QED
      BY <3>2, <3>3
  <2>2. CASE \E e \in EscrowRecord, c \in ReleaseCondition, m \in MilestoneSet : Opened(e, c, m)
    <3>1. count \in Nat
      BY <1>1 DEF Inv, TypeInv, TypeOK
    <3> QED
      BY <2>2, <3>1, Extended DEF Opened, Store
  <2>3. CASE UNCHANGED <<count, escrow, condition, milestones, ledger>>
    BY <2>3 DEF ledger
  <2> QED
    BY <1>1, <2>1, <2>2, <2>3, StepCases
<1> QED
  BY <1>1, EscrowInvariant, PTL DEF Spec

\* The terms an escrow was created with: no grace period, or a deadline and a
\* grace period that a caller asked for.
Terms(e) ==
  e.grace_period = 0 \/ (e.deadline \in Deadlines /\ e.grace_period \in GracePeriods)

Timed == \A id \in 1..count : Terms(escrow[id])

\* No operation changes the terms of an escrow.
LEMMA TermsKept ==
  ASSUME TypeInv, NEW id \in 1..count, Operation(id)
  PROVE  /\ count' = count
         /\ \A j \in 1..count : /\ escrow'[j].deadline = escrow[j].deadline
                                /\ escrow'[j].grace_period = escrow[j].grace_period
<1> DEFINE Kept == /\ count' = count
                   /\ \A j \in 1..count :
                        /\ escrow'[j].deadline = escrow[j].deadline
                        /\ escrow'[j].grace_period = escrow[j].grace_period
<1> SUFFICES Kept
  OBVIOUS
<1>1. escrow \in [1..count -> EscrowRecord]
  BY DEF TypeInv, TypeOK
<1>2. ASSUME count' = count, escrow' = escrow PROVE Kept
  BY <1>2
<1> HIDE DEF Kept
<1>4. ASSUME count' = count, NEW a, escrow' = [escrow EXCEPT ![id].state = a] PROVE Kept
  BY <1>1, <1>4 DEF EscrowRecord, Kept
<1>5. ASSUME count' = count, NEW a, NEW b,
             escrow' = [escrow EXCEPT ![id].released_amount = a, ![id].state = b] PROVE Kept
  BY <1>1, <1>5 DEF EscrowRecord, Kept
<1>6. ASSUME count' = count, NEW a, NEW b,
             escrow' = [escrow EXCEPT ![id].override_nonce = a, ![id].state = b] PROVE Kept
  BY <1>1, <1>6 DEF EscrowRecord, Kept
<1>7. ASSUME count' = count, NEW a, NEW b,
             escrow' = [escrow EXCEPT ![id].state = a, ![id].funded_amount = b] PROVE Kept
  BY <1>1, <1>7 DEF EscrowRecord, Kept
<1>8. CASE Expire(id)
  BY <1>4, <1>8 DEF Expire, registry
<1>9. ASSUME NEW nonce \in Nonces, NEW signed \in SUBSET Key, OverrideRelease(id, nonce, signed)
      PROVE  Kept
  BY <1>6, <1>9 DEF OverrideRelease, CanOverride, registry
<1>10. ASSUME NEW amount, PayVested(id, amount), count' = count PROVE Kept
  BY <1>5, <1>10 DEF PayVested
<1>11. ASSUME NEW caller \in Addr,
              \/ Fund(caller, id) \/ ApproveRelease(caller, id)
       PROVE  Kept
  BY <1>2, <1>7, <1>11 DEF Fund, ApproveRelease, registry
<1>12. ASSUME NEW caller \in Addr, NEW amount \in Amounts,
              Withdraw(caller, id, amount) \/ Release(caller, id, amount)
       PROVE  Kept
  BY <1>5, <1>10, <1>12 DEF Withdraw, CanWithdraw, Release, CanRelease, registry
<1>13. ASSUME NEW caller \in Addr, Claim(caller, id) PROVE Kept
  BY <1>4, <1>10, <1>13 DEF Claim, ClaimFunded, CanClaimFunded, Claimable, ClaimCreated, CanClaimCreated, registry
<1>14. ASSUME ReturnRemaining(id) PROVE Kept
  BY <1>4, <1>14 DEF ReturnRemaining, registry
<1>15. ASSUME NEW caller \in Addr,
              \/ Refund(caller, id) \/ RefundTimelock(caller, id) \/ Reclaim(caller, id)
              \/ Cancel(caller, id) \/ Close(caller, id)
       PROVE  Kept
  <2>1. CASE CancelRemainingMilestones(caller, id) \/ Close(caller, id)
    BY <1>4, <2>1 DEF CancelRemainingMilestones, CanCancelMilestones, Close, registry
  <2> QED
    BY <1>14, <1>15, <2>1 DEF Refund, CanRefund, RefundTimelock, CanRefundTimelock, Reclaim, Cancel, CancelPlain, CanCancel
<1>16. ASSUME NEW caller \in Addr, NEW i \in 1..Len(milestones[id].items),
              \/ ReleaseMilestone(caller, id, i)
              \/ DisputeMilestone(caller, id, i) \/ ResolveMilestone(caller, id, i)
       PROVE  Kept
  BY <1>2, <1>5, <1>16 DEF ReleaseMilestone, DisputeMilestone, ResolveMilestone, registry
<1> QED
  BY <1>8, <1>9, <1>11, <1>12, <1>13, <1>15, <1>16 DEF Operation

\* Every creation entrypoint stores the terms its caller asked for, and no
\* milestone schedule that is cancelled.
LEMMA TermsStored ==
  ASSUME TypeInv, Creation
  PROVE  \E e, c, m : Store(e, c, m) /\ Terms(e) /\ ~m.cancelled
<1> DEFINE Goal == \E e, c, m : Store(e, c, m) /\ Terms(e) /\ ~m.cancelled
<1> SUFFICES Goal
  OBVIOUS
<1>1. ASSUME NEW e, NEW c, NEW m, Store(e, c, m), Terms(e), ~m.cancelled PROVE Goal
  BY <1>1
<1> HIDE DEF Goal
<1>2. ASSUME NEW s, NEW r, NEW a, NEW d, NEW state, NEW deadline \in Deadlines,
             NEW grace \in GracePeriods, NEW window, NEW funded, NEW schedule, NEW override,
             NEW c, NEW m, ~m.cancelled,
             Store(NewEscrow(s, r, a, d, state, deadline, grace, window, funded,
                             schedule, override), c, m)
      PROVE  Goal
  <2>1. PICK e : e = NewEscrow(s, r, a, d, state, deadline, grace, window, funded,
                               schedule, override)
    OBVIOUS
  <2>2. Terms(e)
    BY <2>1 DEF Terms, NewEscrow
  <2> QED
    BY <1>1, <1>2, <2>1, <2>2
<1>3. ASSUME NEW s, NEW r, NEW a, NEW d, NEW state, NEW deadline, NEW window, NEW funded,
             NEW schedule, NEW override, NEW c, NEW m, ~m.cancelled,
             Store(NewEscrow(s, r, a, d, state, deadline, 0, window, funded,
                             schedule, override), c, m)
      PROVE  Goal
  <2>1. PICK e : e = NewEscrow(s, r, a, d, state, deadline, 0, window, funded,
                               schedule, override)
    OBVIOUS
  <2>2. Terms(e)
    BY <2>1 DEF Terms, NewEscrow
  <2> QED
    BY <1>1, <1>3, <2>1, <2>2
<1> PICK p \in Parties, deadline \in Deadlines :
      LET s == p.sender
          r == p.recipient
          a == p.arbiter
      IN
      \/ \E d \in Deposits, grace \in GracePeriods, window \in RefundWindows, o \in Overrides :
           \/ Create(s, r, a, d, deadline, grace, window, o)
           \/ \E c \in Conditions :
                CreateWithReleaseCondition(s, r, a, d, deadline, grace, window, o, c)
      \/ \E d \in Deposits : CreateTimelock(s, r, a, d, deadline)
      \/ \E d \in Deposits, schedule \in Schedules :
           CreateScheduled(s, r, a, d, schedule, deadline)
      \/ \E d \in Deposits, grace \in GracePeriods :
           InitializeTimelock(s, r, a, d, deadline, grace)
      \/ \E t \in Token, amount \in Amounts, weights \in MilestoneSpecs :
           DepositWithMilestones(s, r, a, t, amount, deadline, weights)
  BY DEF Creation
<1>4. PICK s, r, a : s = p.sender /\ r = p.recipient /\ a = p.arbiter
  OBVIOUS
<1>5. ASSUME NEW d \in Deposits, NEW grace \in GracePeriods, NEW window \in RefundWindows,
             NEW o \in Overrides, NEW c,
             CreateWithRefundWindow(s, r, a, d, deadline, grace, window, o, c)
      PROVE  Goal
  BY <1>2, <1>5 DEF CreateWithRefundWindow, NoMilestones
<1>6. ASSUME NEW d \in Deposits, NEW grace \in GracePeriods, NEW window \in RefundWindows,
             NEW o \in Overrides,
             \/ Create(s, r, a, d, deadline, grace, window, o)
             \/ \E c \in Conditions :
                  CreateWithReleaseCondition(s, r, a, d, deadline, grace, window, o, c)
      PROVE  Goal
  <2>1. ASSUME NEW c \in Conditions,
               CreateWithReleaseCondition(s, r, a, d, deadline, grace, window, o, c)
        PROVE  Goal
    BY <1>5, <2>1 DEF CreateWithReleaseCondition
  <2> QED
    BY <1>5, <1>6, <2>1 DEF Create
<1>7. ASSUME NEW d \in Deposits, CreateTimelock(s, r, a, d, deadline) PROVE Goal
  BY <1>3, <1>7 DEF CreateTimelock, NoMilestones
<1>8. ASSUME NEW d \in Deposits, NEW schedule \in Schedules,
             CreateScheduled(s, r, a, d, schedule, deadline)
      PROVE  Goal
  BY <1>3, <1>8 DEF CreateScheduled, NoMilestones
<1>9. ASSUME NEW d \in Deposits, NEW grace \in GracePeriods,
             InitializeTimelock(s, r, a, d, deadline, grace)
      PROVE  Goal
  BY <1>2, <1>9 DEF InitializeTimelock, NoMilestones
<1>10. ASSUME NEW t \in Token, NEW amount \in Amounts, NEW weights \in MilestoneSpecs,
              DepositWithMilestones(s, r, a, t, amount, deadline, weights)
       PROVE  Goal
  BY <1>3, <1>10 DEF DepositWithMilestones
<1> QED
  BY <1>4, <1>6, <1>7, <1>8, <1>9, <1>10

\* Every escrow keeps the terms of some caller.
LEMMA TimedStep == TypeInv /\ Timed /\ [Next]_vars => Timed'
<1> SUFFICES ASSUME TypeInv, Timed, [Next]_vars PROVE Timed'
  OBVIOUS
<1>1. CASE UNCHANGED <<count, escrow>>
  BY <1>1 DEF Timed
<1>2. CASE Creation
  <2>1. PICK e, c, m : Store(e, c, m) /\ Terms(e)
    BY <1>2, TermsStored
  <2>2. PICK k \in Nat : k = count
    BY DEF TypeInv, TypeOK
  <2>3. /\ count' = k + 1 /\ escrow'[k + 1] = e
        /\ \A j \in 1..k : escrow'[j] = escrow[j]
    BY <2>1, <2>2, Extended DEF Store
  <2>4. \A j \in 1..(k + 1) : j \in 1..k \/ j = k + 1
    OBVIOUS
  <2> QED
    BY <2>1, <2>2, <2>3, <2>4 DEF Timed
<1>3. ASSUME NEW id \in 1..count, Operation(id) PROVE Timed'
  BY <1>3, TermsKept DEF Timed, Terms
<1>4. CASE Tick
  BY <1>1, <1>4 DEF Tick
<1>5. ASSUME NEW a \in Admins, Initialize(a) PROVE Timed'
  BY <1>1, <1>5 DEF Initialize
<1>6. ASSUME NEW caller \in Addr, NEW t \in Token, ApproveToken(caller, t) \/ RevokeToken(caller, t)
      PROVE  Timed'
  BY <1>1, <1>6 DEF ApproveToken, RevokeToken
<1> QED
  BY <1>1, <1>2, <1>3, <1>4, <1>5, <1>6 DEF Next, vars

\* Where every deadline with its grace period fits the ledger clock, no exit
\* serves the sender while the recipient's grace runs, and a settled escrow is
\* never paid from again.  Without the hypothesis it is false: grace_end
\* truncates the sum.
THEOREM SettledOnceAndInTime ==
  ASSUME \A d \in Deadlines, g \in GracePeriods : d + g < U64
  PROVE  Spec => SettlesOnceAndInTime
<1>1. Init => Timed
  BY DEF Init, Timed
<1>2. ASSUME Inv, Timed, [Next]_vars PROVE GraceShieldsRecipient
  <2> SUFFICES ASSUME NEW j \in 1..count, toSender'[j] # toSender[j], ~HasMilestones(j),
                      escrow[j].deadline <= now, now < escrow[j].deadline + escrow[j].grace_period
               PROVE  FALSE
    BY DEF GraceShieldsRecipient
  <2>1. /\ escrow[j].deadline \in Nat /\ escrow[j].grace_period \in Nat
        /\ now \in Nat /\ count \in Nat /\ U64 \in Nat \ {0}
    BY <1>2, EachEscrow, ClockAssumption DEF Inv, TypeInv, TypeOK, EscrowRecord
  <2>2. GraceEnd(escrow[j]) = escrow[j].deadline + escrow[j].grace_period
    <3>1. escrow[j].deadline + escrow[j].grace_period < U64
      BY <1>2, <2>1 DEF Timed, Terms
    <3>2. \A x \in Nat, n \in Nat : x < n => x % n = x
      BY SMT
    <3>3. escrow[j].deadline + escrow[j].grace_period \in Nat
      BY <2>1
    <3> QED
      BY <2>1, <3>1, <3>2, <3>3 DEF GraceEnd
  <2>3. CASE \E id \in 1..count : Effect(id)
    <3>1. PICK id \in 1..count : Effect(id)
      BY <2>3
    <3>2. j = id
      BY <3>1 DEF Effect, Alone, Same
    <3>3. now < escrow[j].deadline \/ GraceOver(escrow[j])
      BY <3>1, <3>2 DEF Effect, Shields
    <3> QED
      BY <2>1, <2>2, <3>3 DEF GraceOver
  <2>4. CASE \E e \in EscrowRecord, c \in ReleaseCondition, m \in MilestoneSet : Opened(e, c, m)
    BY <2>1, <2>4, Extended DEF Opened, Store
  <2>5. CASE UNCHANGED <<count, escrow, condition, milestones, ledger>>
    BY <2>5 DEF ledger
  <2> QED
    BY <1>2, <2>3, <2>4, <2>5, StepCases
<1>3. Inv => TypeInv
  BY DEF Inv
<1> QED
  BY <1>1, <1>2, <1>3, TimedStep, EscrowInvariant, SettlementIsFinal, PTL
     DEF Spec, SettlesOnceAndInTime

\* A cancelled milestone schedule belongs to a settled escrow.
Frozen == \A id \in 1..count : milestones[id].cancelled => escrow[id].state \in Settled

\* Only cancelling cancels a schedule, and it settles the escrow.
LEMMA CancelledKept ==
  ASSUME TypeInv, NEW id \in 1..count, Operation(id)
  PROVE  milestones'[id].cancelled => milestones[id].cancelled \/ escrow'[id].state \in Settled
<1> DEFINE Kept == milestones'[id].cancelled => milestones[id].cancelled \/ escrow'[id].state \in Settled
<1> SUFFICES Kept
  OBVIOUS
<1>1. escrow \in [1..count -> EscrowRecord] /\ milestones \in [1..count -> MilestoneSet]
  BY DEF TypeInv, TypeOK
<1>2. ASSUME milestones' = milestones PROVE Kept
  BY <1>2
<1>3. ASSUME NEW i, NEW status, NEW x,
             \/ milestones' = [milestones EXCEPT ![id] = SetStatus(milestones[id], i, status)]
             \/ milestones' = [milestones EXCEPT ![id] =
                  [SetStatus(milestones[id], i, status) EXCEPT !.released_amount = x]]
      PROVE  Kept
  <2>1. PICK m \in MilestoneSet : m = milestones[id]
    BY <1>1
  <2>2. PICK n : n = SetStatus(m, i, status)
    OBVIOUS
  <2>3. n.cancelled = m.cancelled /\ [n EXCEPT !.released_amount = x].cancelled = m.cancelled
    BY <2>2 DEF SetStatus, MilestoneSet
  <2>4. milestones'[id] = n \/ milestones'[id] = [n EXCEPT !.released_amount = x]
    BY <1>1, <1>3, <2>1, <2>2
  <2> QED
    BY <2>1, <2>3, <2>4
<1> HIDE DEF Kept
<1>4. ASSUME NEW caller \in Addr, CancelRemainingMilestones(caller, id) PROVE Kept
  <2>1. escrow' = [escrow EXCEPT ![id].state = "Refunded"]
    BY <1>4 DEF CancelRemainingMilestones
  <2>2. escrow'[id].state = "Refunded"
    BY <1>1, <2>1 DEF EscrowRecord
  <2> QED
    BY <2>2 DEF Kept, Settled
<1>5. CASE Expire(id) \/ \E nonce \in Nonces, signed \in SUBSET Key : OverrideRelease(id, nonce, signed)
  BY <1>2, <1>5 DEF Expire, OverrideRelease
<1>6. ASSUME NEW caller \in Addr,
             \/ Fund(caller, id) \/ ApproveRelease(caller, id)
             \/ \E amount \in Amounts : Withdraw(caller, id, amount) \/ Release(caller, id, amount)
             \/ Claim(caller, id)
      PROVE  Kept
  BY <1>2, <1>6 DEF Fund, ApproveRelease, Withdraw, Release, Claim, ClaimFunded, ClaimCreated
<1>7. ASSUME NEW caller \in Addr,
             \/ Refund(caller, id) \/ RefundTimelock(caller, id) \/ Reclaim(caller, id)
             \/ Cancel(caller, id) \/ Close(caller, id)
      PROVE  Kept
  BY <1>2, <1>4, <1>7 DEF Refund, RefundTimelock, Reclaim, Cancel, CancelPlain, Close
<1>8. ASSUME NEW caller \in Addr, NEW i \in 1..Len(milestones[id].items),
             \/ ReleaseMilestone(caller, id, i)
             \/ DisputeMilestone(caller, id, i) \/ ResolveMilestone(caller, id, i)
      PROVE  Kept
  <2>1. CASE DisputeMilestone(caller, id, i) \/ ResolveMilestone(caller, id, i)
    BY <1>3, <2>1 DEF DisputeMilestone, ResolveMilestone
  <2>2. CASE ReleaseMilestone(caller, id, i)
    <3>1. PICK x : milestones' = [milestones EXCEPT ![id] =
                     [SetStatus(milestones[id], i, "Completed") EXCEPT !.released_amount = x]]
      BY <2>2 DEF ReleaseMilestone
    <3> QED
      BY <1>3, <3>1
  <2> QED
    BY <1>8, <2>1, <2>2
<1> QED
  BY <1>5, <1>6, <1>7, <1>8 DEF Operation

\* No step brings an escrow with a cancelled schedule back to life.
LEMMA FrozenStep == Inv /\ Frozen /\ [Next]_vars => Frozen'
<1> SUFFICES ASSUME Inv, Frozen, [Next]_vars PROVE Frozen'
  OBVIOUS
<1>1. TypeInv /\ TypeInv'
  BY StepCases DEF Inv
<1>2. CASE UNCHANGED <<count, escrow, milestones>>
  BY <1>2 DEF Frozen
<1>3. CASE Creation
  <2>1. PICK e, c, m : Store(e, c, m) /\ ~m.cancelled
    BY <1>1, <1>3, TermsStored
  <2>2. PICK k \in Nat : k = count
    BY <1>1 DEF TypeInv, TypeOK
  <2>3. /\ count' = k + 1 /\ milestones'[k + 1] = m
        /\ \A j \in 1..k : escrow'[j] = escrow[j] /\ milestones'[j] = milestones[j]
    BY <2>1, <2>2, Extended DEF Store
  <2>4. \A j \in 1..(k + 1) : j \in 1..k \/ j = k + 1
    OBVIOUS
  <2> QED
    BY <2>1, <2>2, <2>3, <2>4 DEF Frozen
<1>4. ASSUME NEW id \in 1..count, Operation(id) PROVE Frozen'
  <2>1. Effect(id)
    BY <1>1, <1>4, OperationEffect
  <2>2. milestones'[id].cancelled => milestones[id].cancelled \/ escrow'[id].state \in Settled
    BY <1>1, <1>4, CancelledKept
  <2>3. escrow[id].state \in Settled => escrow'[id].state \in Settled
    BY <2>1 DEF Effect, Moves, Live, Settled
  <2>4. /\ count' = count
        /\ \A j \in (1..count) \ {id} : escrow'[j] = escrow[j] /\ milestones'[j] = milestones[j]
    BY <2>1 DEF Effect, Alone, Same
  <2> QED
    BY <2>2, <2>3, <2>4 DEF Frozen
<1>5. CASE Tick
  BY <1>2, <1>5 DEF Tick
<1>6. ASSUME NEW a \in Admins, Initialize(a) PROVE Frozen'
  BY <1>2, <1>6 DEF Initialize
<1>7. ASSUME NEW caller \in Addr, NEW t \in Token, ApproveToken(caller, t) \/ RevokeToken(caller, t)
      PROVE  Frozen'
  BY <1>2, <1>7 DEF ApproveToken, RevokeToken
<1> QED
  BY <1>2, <1>3, <1>4, <1>5, <1>6, <1>7 DEF Next, vars

\* What the recipient may collect by itself, nobody may cancel any more.
LEMMA CollectOrCancel ==
  ASSUME Inv, NEW id \in 1..count,
         escrow[id].deadline + escrow[id].grace_period < U64,
         NEW c \in Addr, NEW d \in Addr, CanCancel(d, id),
         \/ CanClaimFunded(c, id) \/ CanClaimCreated(c, id)
         \/ \E n \in Amounts : CanWithdraw(c, id, n)
  PROVE  FALSE
<1> DEFINE e == escrow[id]
<1>1. /\ e \in EscrowRecord /\ now \in Nat /\ U64 \in Nat \ {0}
      /\ e.deadline \in Nat /\ e.grace_period \in Nat /\ e.released_amount \in Nat
  BY EachEscrow, ClockAssumption DEF Inv, TypeInv, TypeOK, EscrowRecord
<1>2. now < e.deadline /\ VestedAmount(e.funded_amount, e.schedule, now) = 0
  BY DEF CanCancel
<1>3. ~GraceOver(e)
  <2>1. \A x \in Nat, n \in Nat : x < n => x % n = x
    BY SMT
  <2>2. GraceEnd(e) = e.deadline + e.grace_period
    <3>1. PICK x \in Nat, n \in Nat : x = e.deadline + e.grace_period /\ n = U64 /\ x < n
      BY <1>1
    <3> QED
      BY <2>1, <3>1 DEF GraceEnd
  <2>3. now < GraceEnd(e)
    BY <1>1, <1>2, <2>2
  <2> QED
    BY <1>1, <2>2, <2>3 DEF GraceOver
<1>4. ClaimableAmount(e, now) = 0
  <2>1. PICK v \in Nat, x \in Nat : v = VestedAmount(e.funded_amount, e.schedule, now) /\ x = e.released_amount /\ v = 0
    BY <1>1, <1>2
  <2> QED
    BY <2>1 DEF ClaimableAmount
<1>5. CASE CanClaimFunded(c, id)
  BY <1>3, <1>4, <1>5 DEF CanClaimFunded, Claimable
<1>6. CASE CanClaimCreated(c, id)
  BY <1>3, <1>6 DEF CanClaimCreated
<1>7. CASE \E n \in Amounts : CanWithdraw(c, id, n)
  BY <1>4, <1>7, InputsAssumption DEF CanWithdraw
<1> QED
  BY <1>5, <1>6, <1>7

\* Before the deadline none of the sender's refunds is open.
LEMMA RefundAfterDeadline ==
  ASSUME Inv, NEW id \in 1..count,
         escrow[id].deadline + escrow[id].grace_period < U64,
         NEW c, CanRefund(c, id) \/ CanRefundTimelock(c, id)
  PROVE  now >= escrow[id].deadline
<1> DEFINE e == escrow[id]
<1>1. /\ now \in Nat /\ U64 \in Nat \ {0} /\ e.deadline \in Nat /\ e.grace_period \in Nat
  BY EachEscrow, ClockAssumption DEF Inv, TypeInv, TypeOK, EscrowRecord
<1>2. GraceEnd(e) = e.deadline + e.grace_period
  <2>1. \A x \in Nat, n \in Nat : x < n => x % n = x
    BY SMT
  <2> QED
    BY <1>1, <2>1 DEF GraceEnd
<1>3. now >= GraceEnd(e)
  BY DEF CanRefund, CanRefundTimelock, GraceOver
<1> QED
  BY <1>1, <1>2, <1>3

\* The handoff is exact, for any clocks, amounts and interleaving: the two
\* sides are never open at once, and one of them always is or will be.
THEOREM HandoffIsExact == Spec => []HandoffExact
<1>1. Init => Frozen
  BY DEF Init, Frozen
<1>2. ASSUME Inv PROVE HandoffExclusive
  <2> SUFFICES ASSUME NEW id \in 1..count
               PROVE  LET e == escrow[id]
                          release == \E c \in Addr, n \in Amounts : CanRelease(c, id, n)
                          override == \E n \in Nonces, signed \in SUBSET Key :
                                        CanOverride(id, n, signed)
                          refund == \E c \in Addr : CanRefund(c, id) \/ CanRefundTimelock(c, id)
                          collect == \E c \in Addr :
                            \/ CanClaimFunded(c, id) \/ CanClaimCreated(c, id)
                            \/ \E n \in Amounts : CanWithdraw(c, id, n)
                          cancel == \E c \in Addr : CanCancel(c, id)
                      IN  /\ ~(release /\ refund)
                          /\ e.deadline + e.grace_period < U64 =>
                               ~(override /\ refund) /\ ~(collect /\ cancel)
    BY DEF HandoffExclusive
  <2>1. ASSUME NEW c \in Addr, NEW n \in Amounts, CanRelease(c, id, n),
               NEW d \in Addr, CanRefund(d, id) \/ CanRefundTimelock(d, id)
        PROVE  FALSE
    <3>1. now < GraceEnd(escrow[id]) /\ now >= GraceEnd(escrow[id])
      BY <2>1 DEF CanRelease, CanRefund, CanRefundTimelock, ReleaseWindowOpen, GraceOver
    <3>2. now \in Nat /\ GraceEnd(escrow[id]) \in Int
      BY <1>2, EachEscrow, ClockAssumption DEF Inv, TypeInv, TypeOK, EscrowRecord, GraceEnd
    <3> QED
      BY <3>1, <3>2
  <2>2. ASSUME escrow[id].deadline + escrow[id].grace_period < U64,
               NEW n \in Nonces, NEW signed \in SUBSET Key, CanOverride(id, n, signed),
               NEW d \in Addr, CanRefund(d, id) \/ CanRefundTimelock(d, id)
        PROVE  FALSE
    <3>1. now < escrow[id].deadline
      BY <2>2 DEF CanOverride
    <3>2. now >= escrow[id].deadline
      BY <1>2, <2>2, RefundAfterDeadline
    <3>3. now \in Nat /\ escrow[id].deadline \in Nat
      BY <1>2, EachEscrow DEF Inv, TypeInv, TypeOK, EscrowRecord
    <3> QED
      BY <3>1, <3>2, <3>3
  <2>3. ASSUME escrow[id].deadline + escrow[id].grace_period < U64,
               NEW c \in Addr,
               \/ CanClaimFunded(c, id) \/ CanClaimCreated(c, id)
               \/ \E n \in Amounts : CanWithdraw(c, id, n),
               NEW d \in Addr, CanCancel(d, id)
        PROVE  FALSE
    BY <1>2, <2>3, CollectOrCancel
  <2> DEFINE refund == \E d \in Addr : CanRefund(d, id) \/ CanRefundTimelock(d, id)
  <2>4. ~((\E c \in Addr, n \in Amounts : CanRelease(c, id, n)) /\ refund)
    BY <2>1
  <2>5. escrow[id].deadline + escrow[id].grace_period < U64 =>
          ~((\E n \in Nonces, signed \in SUBSET Key : CanOverride(id, n, signed)) /\ refund)
    BY <2>2
  <2>6. escrow[id].deadline + escrow[id].grace_period < U64 =>
          ~ /\ \E c \in Addr : \/ CanClaimFunded(c, id) \/ CanClaimCreated(c, id)
                              \/ \E n \in Amounts : CanWithdraw(c, id, n)
            /\ \E d \in Addr : CanCancel(d, id)
    BY <2>3
  <2> QED
    BY <2>4, <2>5, <2>6
<1>3. ASSUME Inv, Frozen PROVE SenderExitOpen
  <2> SUFFICES ASSUME NEW id \in 1..count, escrow[id].state \in {"Funded", "Expired"},
                      escrow[id].refund_window = 0
               PROVE  IF HasMilestones(id) THEN CanCancelMilestones(escrow[id].sender, id)
                      ELSE now >= escrow[id].deadline + escrow[id].grace_period
                             => CanRefund(escrow[id].sender, id)
    BY DEF SenderExitOpen
  <2> DEFINE e == escrow[id]
  <2>1. /\ now \in Nat /\ U64 \in Nat \ {0} /\ e.deadline \in Nat /\ e.grace_period \in Nat
        /\ Exists(id)
    BY <1>3, EachEscrow, ClockAssumption DEF Inv, TypeInv, TypeOK, EscrowRecord, Exists
  <2>2. CASE HasMilestones(id)
    <3>1. ~milestones[id].cancelled
      BY <1>3 DEF Frozen, Settled
    <3> QED
      BY <2>1, <2>2, <3>1 DEF CanCancelMilestones
  <2>3. ASSUME ~HasMilestones(id), now >= e.deadline + e.grace_period
        PROVE  CanRefund(e.sender, id)
    <3>1. GraceEnd(e) <= e.deadline + e.grace_period /\ GraceEnd(e) \in Nat
      <4>1. \A x \in Nat, n \in Nat \ {0} : x % n <= x /\ x % n \in Nat
        BY SMT
      <4> QED
        BY <2>1, <4>1 DEF GraceEnd
    <3>2. GraceOver(e) /\ now >= e.deadline
      BY <2>1, <2>3, <3>1 DEF GraceOver
    <3>3. RefundWindowOpen(e)
      BY DEF RefundWindowOpen, ClosesAt
    <3> QED
      BY <2>1, <2>3, <3>2, <3>3 DEF CanRefund, Refundable
  <2> QED
    BY <2>2, <2>3
<1> QED
  BY <1>1, <1>2, <1>3, FrozenStep, EscrowInvariant, PTL DEF Spec, HandoffExact

-----------------------------------------------------------------------------
(* The escrows implement the vaults                                         *)

\* What a vault sees of escrow id, now and after the step.
Held == [id \in 1..count |-> [t \in Token |-> HeldNow(id, t)]]
Phases == [id \in 1..count |-> Phase(escrow[id].state)]

\* The vault an escrow stands for is in one of three phases.
LEMMA PhaseIs ==
  /\ Phase("Created") = "Awaiting"
  /\ \A x \in Live : Phase(x) = "Open"
  /\ \A x \in Settled : Phase(x) = "Settled"
  BY DEF Phase, Live, Settled

\* The mapping of EscrowVault in these terms.
LEMMA Mapped ==
  /\ [id \in 1..count |-> [t \in Token |-> Deposited(id)[t] - Paid(id, t)]] = Held
  /\ [id \in 1..count |-> Phase(escrow[id].state)] = Phases
  BY DEF Held, HeldNow, Holds, Deposited, Paid, Phases

\* The same one step later.
LEMMA MappedNext ==
  /\ ([id \in 1..count |-> [t \in Token |-> Deposited(id)[t] - Paid(id, t)]])' = Held'
  /\ ([id \in 1..count |-> Phase(escrow[id].state)])' = Phases'
  BY DEF Held, HeldNow, Holds, Deposited, Paid, Phases

\* What the vaults hold before a step.
LEMMA HeldBefore ==
  /\ Held = [id \in 1..count |-> [t \in Token |-> HeldNow(id, t)]]
  /\ Phases = [id \in 1..count |-> Phase(escrow[id].state)]
  BY DEF Held, Phases

\* What the vaults hold after a step.
LEMMA HeldAfter ==
  ASSUME Inv'
  PROVE  /\ Held' = [id \in 1..count' |-> [t \in Token |-> HeldNext(id, t)]]
         /\ Phases' = [id \in 1..count' |-> Phase(escrow'[id].state)]
         /\ \A id \in 1..count' : \A t \in Token : HeldNext(id, t) \in Nat
<1>1. \A id \in 1..count' : \A t \in Token : HeldNext(id, t) \in Nat
  <2> SUFFICES ASSUME NEW id \in 1..count', NEW t \in Token PROVE HeldNext(id, t) \in Nat
    OBVIOUS
  <2>1. /\ escrow'[id] \in EscrowRecord /\ milestones'[id] \in MilestoneSet
        /\ toRecipient'[id] \in Balances /\ toSender'[id] \in Balances
    BY DEF Inv, TypeInv, TypeOK, Balances
  <2>2. Sound(escrow'[id], condition'[id], milestones'[id], toRecipient'[id], toSender'[id], now')
    BY DEF Inv, EscrowsSound
  <2> QED
    BY <2>1, <2>2, HoldsNat DEF HeldNext
<1> QED
  BY <1>1 DEF Held, HeldNow, HeldNext, Phases

\* A step that changes one escrow is a step of its vault.
LEMMA EffectStep ==
  ASSUME Inv, Inv', NEW id \in 1..count, Effect(id)
  PROVE  Custody!Next \/ UNCHANGED Custody!vaultVars
<1>1. /\ count' = count
      /\ \A j \in (1..count) \ {id} : Same(j)
      /\ \A t \in Token : custody'[t] = custody[t] + HeldNext(id, t) - HeldNow(id, t)
  BY DEF Effect, Alone, Moves
<1>2. /\ Held' = [j \in 1..count |-> [t \in Token |-> HeldNext(j, t)]]
      /\ Phases' = [j \in 1..count |-> Phase(escrow'[j].state)]
      /\ \A t \in Token : HeldNext(id, t) \in Nat
  BY <1>1, HeldAfter
<1>3. \A t \in Token : HeldNow(id, t) \in Nat
  BY EachEscrow, HoldsNat DEF HeldNow
<1>4. \A j \in 1..count : j # id => Held'[j] = Held[j] /\ Phases'[j] = Phases[j]
  <2> SUFFICES ASSUME NEW j \in 1..count, j # id
               PROVE  Held'[j] = Held[j] /\ Phases'[j] = Phases[j]
    OBVIOUS
  <2>1. Same(j)
    BY <1>1
  <2>2. \A t \in Token : HeldNext(j, t) = HeldNow(j, t)
    BY <2>1 DEF Same, HeldNow, HeldNext
  <2> QED
    BY <1>2, <2>1, <2>2, HeldBefore DEF Same
<1>5. /\ DOMAIN Held' = DOMAIN Held /\ DOMAIN Phases' = DOMAIN Phases
      /\ DOMAIN Held = 1..count /\ DOMAIN Phases = 1..count
  BY <1>2, HeldBefore
<1>6. /\ \A t \in Token : Held'[id][t] = HeldNext(id, t) /\ Held[id][t] = HeldNow(id, t)
      /\ Held'[id] = [t \in Token |-> HeldNext(id, t)]
      /\ Held[id] = [t \in Token |-> HeldNow(id, t)]
      /\ Phases'[id] = Phase(escrow'[id].state) /\ Phases[id] = Phase(escrow[id].state)
  BY <1>2, HeldBefore
<1>7. Custody!Touch(id)
  BY <1>1, <1>4, <1>5, <1>6, Mapped, MappedNext DEF Custody!Touch
<1>8. CASE escrow[id].state = "Created" /\ escrow'[id].state = "Funded"
  <2>1. Phases[id] = "Awaiting" /\ Phases'[id] = "Open"
    BY <1>6, <1>8, PhaseIs DEF Live
  <2>2. Custody!Deposit(id)
    <3>1. \A t \in Token : Held'[id][t] \in Nat
      BY <1>2, <1>6
    <3> QED
      BY <1>7, <2>1, <3>1, Mapped, MappedNext DEF Custody!Deposit
  <2> QED
    BY <1>5, <2>2, Mapped DEF Custody!Next
<1>9. CASE /\ escrow[id].state \in Live /\ escrow'[id].state \in Live \cup Settled
           /\ \A t \in Token : HeldNext(id, t) <= HeldNow(id, t)
  <2>1. Phases[id] = "Open" /\ Phases'[id] \in {"Open", "Settled"}
    BY <1>6, <1>9, PhaseIs
  <2>2. Custody!Disburse(id)
    <3>1. \A t \in Token : Held'[id][t] \in 0..Held[id][t]
      BY <1>2, <1>3, <1>6, <1>9
    <3> QED
      BY <1>7, <2>1, <3>1, Mapped, MappedNext DEF Custody!Disburse
  <2> QED
    BY <1>5, <2>2, Mapped DEF Custody!Next
<1>10. CASE /\ escrow[id].state = "Created" /\ escrow'[id].state \in Settled
            /\ \A t \in Token : HeldNext(id, t) = HeldNow(id, t)
  <2>1. Phases[id] = "Awaiting" /\ Phases'[id] = "Settled"
    BY <1>6, <1>10, PhaseIs
  <2>2. Held'[id] = Held[id]
    BY <1>6, <1>10
  <2>3. Custody!Abandon(id)
    BY <1>7, <2>1, <2>2, Mapped, MappedNext DEF Custody!Abandon
  <2> QED
    BY <1>5, <2>3, Mapped DEF Custody!Next
<1>11. CASE /\ escrow[id].state \in Settled
            /\ escrow'[id].state \in {escrow[id].state, "Closed"}
            /\ \A t \in Token : HeldNext(id, t) = HeldNow(id, t)
  <2>1. Phases'[id] = Phases[id] /\ Held'[id] = Held[id]
    BY <1>6, <1>11, PhaseIs DEF Settled
  <2>2. Held' = Held /\ Phases' = Phases
    BY <1>2, <1>4, <1>5, <2>1, HeldBefore
  <2>3. custody' = custody
    <3>1. custody \in [Token -> Nat] /\ custody' \in [Token -> Nat]
      BY DEF Inv, TypeInv, TypeOK
    <3>2. \A t \in Token : custody'[t] = custody[t]
      BY <1>1, <1>3, <1>11, <3>1
    <3> QED
      BY <3>1, <3>2
  <2> QED
    BY <2>2, <2>3, Mapped, MappedNext DEF Custody!vaultVars
<1> QED
  BY <1>8, <1>9, <1>10, <1>11 DEF Effect, Moves

\* A creation opens a vault.
LEMMA OpenedStep ==
  ASSUME Inv, Inv', NEW e \in EscrowRecord, NEW c \in ReleaseCondition,
         NEW m \in MilestoneSet, Opened(e, c, m)
  PROVE  Custody!Next
<1>1. PICK k \in Nat : k = count
  BY DEF Inv, TypeInv, TypeOK
<1>2. /\ count' = k + 1 /\ \A j \in 1..k : Same(j)
      /\ escrow'[k + 1] = e /\ toRecipient'[k + 1] = Nothing /\ toSender'[k + 1] = Nothing
  BY <1>1, Extended DEF Opened, Store, Same
<1>3. /\ Held' = [j \in 1..(k + 1) |-> [t \in Token |-> HeldNext(j, t)]]
      /\ Phases' = [j \in 1..(k + 1) |-> Phase(escrow'[j].state)]
      /\ \A t \in Token : HeldNext(k + 1, t) \in Nat
  <2>1. k + 1 \in 1..(k + 1)
    OBVIOUS
  <2> QED
    BY <1>2, <2>1, HeldAfter
<1>4. \A j \in 1..k : Held'[j] = Held[j] /\ Phases'[j] = Phases[j]
  <2> SUFFICES ASSUME NEW j \in 1..k
               PROVE  Held'[j] = Held[j] /\ Phases'[j] = Phases[j]
    OBVIOUS
  <2>1. Same(j) /\ j \in 1..(k + 1)
    BY <1>2
  <2>2. \A t \in Token : HeldNext(j, t) = HeldNow(j, t)
    BY <2>1 DEF Same, HeldNow, HeldNext
  <2> QED
    BY <1>1, <1>3, <2>1, <2>2, HeldBefore DEF Same
<1>5. /\ DOMAIN Held' = DOMAIN Held \cup {k + 1} /\ DOMAIN Phases' = DOMAIN Phases \cup {k + 1}
      /\ DOMAIN Held = 1..k /\ DOMAIN Phases = 1..k
      /\ k + 1 \in DOMAIN Held' \ DOMAIN Held
  BY <1>1, <1>3, HeldBefore
<1>6. /\ \A t \in Token : Held'[k + 1][t] = HeldNext(k + 1, t)
      /\ Phases'[k + 1] = Phase(e.state)
  BY <1>2, <1>3
<1>7. \A t \in Token : HeldNext(k + 1, t) = Holds(e, Nothing, Nothing, t)
  BY <1>2 DEF HeldNext
<1>8. \A t \in Token : Held'[k + 1][t] \in Nat /\ custody'[t] = custody[t] + Held'[k + 1][t]
  BY <1>3, <1>6, <1>7 DEF Opened
<1>9. \/ Phases'[k + 1] = "Open"
      \/ Phases'[k + 1] = "Awaiting" /\ \A t \in Token : Held'[k + 1][t] = 0
  <2>1. CASE e.state = "Funded"
    BY <1>6, <2>1, PhaseIs DEF Live
  <2>2. CASE e.state = "Created"
    <3>1. e.funded_amount = 0
      BY <2>2 DEF Opened, Sound, Funding
    <3> QED
      BY <1>6, <1>7, <2>2, <3>1, NewHolds, PhaseIs
  <2> QED
    BY <2>1, <2>2 DEF Opened
<1>10. Custody!Open
  <2>1. \A j \in DOMAIN Held : Held'[j] = Held[j] /\ Phases'[j] = Phases[j]
    BY <1>4, <1>5
  <2> DEFINE H == [id \in 1..count |-> [t \in Token |-> Deposited(id)[t] - Paid(id, t)]]
             P == [id \in 1..count |-> Phase(escrow[id].state)]
  <2>2. H = Held /\ P = Phases /\ H' = Held' /\ P' = Phases'
    BY Mapped, MappedNext
  <2> HIDE DEF H, P
  <2>3. \E id \in DOMAIN H' \ DOMAIN H :
          /\ DOMAIN H' = DOMAIN H \cup {id}
          /\ DOMAIN P' = DOMAIN P \cup {id}
          /\ \A j \in DOMAIN H : H'[j] = H[j] /\ P'[j] = P[j]
          /\ \A t \in Token : H'[id][t] \in Nat /\ custody'[t] = custody[t] + H'[id][t]
          /\ \/ P'[id] = "Open"
             \/ P'[id] = "Awaiting" /\ \A t \in Token : H'[id][t] = 0
    BY <1>5, <1>8, <1>9, <2>1, <2>2, Zenon
  <2> QED
    BY <2>3, Zenon DEF Custody!Open, H, P
<1> QED
  BY <1>10 DEF Custody!Next

\* Whatever the mix of calls on several escrows, each call moves money of its
\* own escrow only, never more than that escrow holds, and never after it
\* settled: the escrow contract implements Vault.
THEOREM EscrowsAreVaults == Spec => ImplementsVault
<1>1. Init => Custody!Init
  <2> SUFFICES ASSUME Init PROVE Custody!Init
    OBVIOUS
  <2>1. 1..count = {}
    BY DEF Init
  <2> QED
    BY <2>1 DEF Init, Custody!Init, Nothing
<1>2. ASSUME Inv, Inv', [Next]_vars PROVE [Custody!Next]_(Custody!vaultVars)
  <2>1. CASE \E id \in 1..count : Effect(id)
    BY <1>2, <2>1, EffectStep
  <2>2. CASE \E e \in EscrowRecord, c \in ReleaseCondition, m \in MilestoneSet : Opened(e, c, m)
    BY <1>2, <2>2, OpenedStep
  <2>3. CASE UNCHANGED <<count, escrow, condition, milestones, ledger>>
    <3>1. Held' = Held /\ Phases' = Phases /\ custody' = custody
      BY <2>3 DEF Held, Phases, HeldNow, ledger
    <3> QED
      BY <3>1, Mapped, MappedNext DEF Custody!vaultVars
  <2> QED
    BY <1>2, <2>1, <2>2, <2>3, StepCases
<1> QED
  BY <1>1, <1>2, EscrowInvariant, PTL DEF Spec, ImplementsVault, Custody!Spec

=============================================================================
