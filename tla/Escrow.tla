------------------------------- MODULE Escrow -------------------------------
(***************************************************************************)
(* The escrow contract: custody of a sender's tokens until an arbiter, a   *)
(* quorum of keys, a vesting schedule or milestones pay them to a          *)
(* recipient, or a timeout or cancellation returns them to the sender.     *)
(*                                                                         *)
(* A contract call is atomic: it succeeds as one step, or returns an error *)
(* (or panics) and leaves no trace.  There is one action per entrypoint;   *)
(* its guard is the conjunction of the checks the entrypoint passes.       *)
(* `caller` is the address whose authorization the call carries.           *)
(***************************************************************************)
EXTENDS EscrowMath

CONSTANTS
  Addr,               \* accounts: senders, recipients, arbiters, participants
  NoAdmin,            \* the admin slot of a contract nobody initialized
  Token,              \* token contracts
  Key,                \* ed25519 keys that may sign a release override
  MaxEscrows,         \* bound on the escrows created in a behaviour
  MaxTime,            \* bound on the ledger clock
  MaxEscrowAssets,    \* MAX_ESCROW_ASSETS
  MaxEscrowTokens,    \* MAX_ESCROW_TOKENS
  MaxSigners,         \* MAX_SIGNERS
  Deposits,           \* asset lists callers offer: a set of functions on Token
  Deadlines,          \* deadlines and unlock times callers ask for
  GracePeriods,       \* grace_period arguments
  RefundWindows,      \* refund_window arguments; 0 means never closes
  Overrides,          \* [signers, threshold] arguments
  Conditions,         \* [participants, threshold] arguments
  Schedules,          \* release schedules callers ask for
  MilestoneSpecs,     \* sequences of basis-point weights
  Amounts,            \* amounts asked of withdraw and release
  Nonces,             \* override nonces
  Parties,            \* [sender, recipient, arbiter] triples that deal
  Admins              \* addresses that may be recorded as admin

ASSUME DepositsAssumption ==
  /\ IsFiniteSet(Token)
  /\ Deposits \subseteq [Token -> Nat]

ASSUME ClockAssumption ==
  /\ U64 \in Nat \ {0}
  /\ MaxTime \in Nat
  /\ Deadlines \subseteq Nat
  /\ GracePeriods \subseteq Nat
  /\ RefundWindows \subseteq Nat
  /\ \A s \in Schedules :
       s \in [release_type: {"None", "Cliff", "Linear"},
              start_time: Nat, cliff_time: Nat, end_time: Nat]

ASSUME InputsAssumption ==
  /\ NoAdmin \notin Addr
  /\ MaxEscrows \in Nat
  /\ \A o \in Overrides : o \in [signers: SUBSET Key, threshold: Nat]
  /\ \A c \in Conditions : c \in [participants: SUBSET Addr, threshold: Nat]
  /\ \A w \in MilestoneSpecs : w \in Seq(Nat)
  /\ Amounts \subseteq Int
  /\ Nonces \subseteq Nat
  /\ Parties \subseteq [sender: Addr, recipient: Addr, arbiter: Addr]
  /\ Admins \subseteq Addr

VARIABLES
  now,          \* the ledger timestamp
  admin,        \* DataKey::Admin
  approved,     \* DataKey::ApprovedToken / ApprovedTokenList, as one set
  count,        \* DataKey::Count: ids 1..count exist
  escrow,       \* DataKey::Escrow(id)
  condition,    \* DataKey::ReleaseCondition(id) and ReleaseApproval(id, _)
  milestones,   \* DataKey::Milestones(id)
  custody,      \* what the contract holds of each token
  toRecipient,  \* history: what escrow id has paid its recipient so far
  toSender      \* history: what escrow id has returned to its sender so far

vars == <<now, admin, approved, count, escrow, condition, milestones,
          custody, toRecipient, toSender>>

\* The records only one escrow's own operations touch.
ledger == <<custody, toRecipient, toSender>>
registry == <<now, admin, approved, count>>

-----------------------------------------------------------------------------
(* Records                                                                  *)

EscrowState == {"Created", "Funded", "Released", "Refunded", "Expired", "Closed"}
Settled == {"Released", "Refunded", "Closed"}
MilestoneStatus == {"Pending", "Completed", "Disputed"}

EscrowRecord ==
  [sender: Addr, recipient: Addr, arbiter: Addr, assets: [Token -> Nat],
   state: EscrowState, deadline: Nat, grace_period: Nat, refund_window: Nat,
   funded_amount: Nat, released_amount: Nat,
   schedule: [release_type: {"None", "Cliff", "Linear"},
              start_time: Nat, cliff_time: Nat, end_time: Nat],
   override_signers: SUBSET Key, override_threshold: Nat, override_nonce: Nat]

\* An escrow without a condition has no participants and threshold 0.
ReleaseCondition ==
  [participants: SUBSET Addr, threshold: Nat, approvals: Nat, by: SUBSET Addr]

\* An escrow without milestones has the empty schedule.
Milestone == [release_bps: Nat, status: MilestoneStatus]
MilestoneSet ==
  [items: Seq(Milestone), released_amount: Nat, cancelled: BOOLEAN]

NoOverride == [signers |-> {}, threshold |-> 0]
NoCondition == [participants |-> {}, threshold |-> 0, approvals |-> 0, by |-> {}]
NoMilestones == [items |-> <<>>, released_amount |-> 0, cancelled |-> FALSE]
Nothing == [t \in Token |-> 0]

Exists(id) == id \in 1..count
HasMilestones(id) == milestones[id].items # <<>>

-----------------------------------------------------------------------------
(* Token movements.  A transfer the contract cannot cover, or of a negative *)
(* amount, aborts the call.                                                 *)

PayRecipient(id, amounts) ==
  /\ \A t \in Token : amounts[t] \in 0..custody[t]
  /\ custody' = [t \in Token |-> custody[t] - amounts[t]]
  /\ toRecipient' = [toRecipient EXCEPT ![id] =
                       [t \in Token |-> toRecipient[id][t] + amounts[t]]]
  /\ UNCHANGED toSender

PaySender(id, amounts) ==
  /\ \A t \in Token : amounts[t] \in 0..custody[t]
  /\ custody' = [t \in Token |-> custody[t] - amounts[t]]
  /\ toSender' = [toSender EXCEPT ![id] =
                    [t \in Token |-> toSender[id][t] + amounts[t]]]
  /\ UNCHANGED toRecipient

Pull(amounts) == custody' = [t \in Token |-> custody[t] + amounts[t]]

-----------------------------------------------------------------------------
(* The token whitelist                                                      *)

Initialize(a) ==
  /\ admin = NoAdmin
  /\ admin' = a
  /\ UNCHANGED <<now, approved, count, escrow, condition, milestones, ledger>>

RequireAdmin(caller) == admin = caller

ApproveToken(caller, t) ==
  /\ RequireAdmin(caller)
  /\ t \notin approved
  /\ Cardinality(approved) < MaxEscrowTokens
  /\ approved' = approved \cup {t}
  /\ UNCHANGED <<now, admin, count, escrow, condition, milestones, ledger>>

RevokeToken(caller, t) ==
  /\ RequireAdmin(caller)
  /\ t \in approved
  /\ approved' = approved \ {t}
  /\ UNCHANGED <<now, admin, count, escrow, condition, milestones, ledger>>

-----------------------------------------------------------------------------
(* Creation                                                                 *)

\* Duplicates and non-positive amounts are refused before anything is
\* stored; a function on tokens with 0 for "not listed" has neither.
ValidateAssets(d) ==
  /\ Listed(d) \subseteq approved
  /\ Listed(d) # {}
  /\ Cardinality(Listed(d)) <= MaxEscrowAssets

\* Either no members and threshold 0, or a capped set and a threshold in it.
ValidQuorum(members, threshold) ==
  IF members = {} THEN threshold = 0
  ELSE /\ Cardinality(members) <= MaxSigners
       /\ threshold \in 1..Cardinality(members)

\* The stored record: `funded` is 0 for an escrow that is only initialized.
NewEscrow(s, r, a, d, state, deadline, grace, window, funded, schedule, override) ==
  [sender |-> s, recipient |-> r, arbiter |-> a, assets |-> d, state |-> state,
   deadline |-> deadline, grace_period |-> grace, refund_window |-> window,
   funded_amount |-> funded, released_amount |-> 0, schedule |-> schedule,
   override_signers |-> override.signers,
   override_threshold |-> override.threshold, override_nonce |-> 0]

Extend(f, value) == [i \in 1..(count + 1) |-> IF i <= count THEN f[i] ELSE value]

\* Mutation of Store: the counter is not advanced.
StoreWithoutCount(e, cond, set) ==
  /\ count < MaxEscrows
  /\ escrow' = Extend(escrow, e)
  /\ condition' = Extend(condition, cond)
  /\ milestones' = Extend(milestones, set)
  /\ toRecipient' = Extend(toRecipient, Nothing)
  /\ toSender' = Extend(toSender, Nothing)
  /\ UNCHANGED <<now, admin, approved, count>>

\* increment_count and store the new record with what hangs off its id.
Store(e, cond, set) ==
  /\ count < MaxEscrows
  /\ count' = count + 1
  /\ escrow' = Extend(escrow, e)
  /\ condition' = Extend(condition, cond)
  /\ milestones' = Extend(milestones, set)
  /\ toRecipient' = Extend(toRecipient, Nothing)
  /\ toSender' = Extend(toSender, Nothing)
  /\ UNCHANGED <<now, admin, approved>>

\* create passes refund_window = 0; create_with_refund_window any window.
CreateWithRefundWindow(s, r, a, d, deadline, grace, window, override, cond) ==
  /\ r # s
  /\ deadline > now
  /\ ValidateAssets(d)
  /\ ValidQuorum(override.signers, override.threshold)
  /\ Pull(d)
  /\ Store(NewEscrow(s, r, a, d, "Funded", deadline, grace, window,
                     TotalAmount(d), NoSchedule, override),
           cond, NoMilestones)

Create(s, r, a, d, deadline, grace, window, override) ==
  CreateWithRefundWindow(s, r, a, d, deadline, grace, window, override, NoCondition)

CreateWithReleaseCondition(s, r, a, d, deadline, grace, window, override, c) ==
  /\ ValidQuorum(c.participants, c.threshold)
  /\ CreateWithRefundWindow(s, r, a, d, deadline, grace, window, override,
       [participants |-> c.participants, threshold |-> c.threshold,
        approvals |-> 0, by |-> {}])

CreateTimelock(s, r, a, d, unlock) ==
  /\ r # s
  /\ unlock > now
  /\ ValidateAssets(d)
  /\ Pull(d)
  /\ Store(NewEscrow(s, r, a, d, "Funded", unlock, 0, 0, TotalAmount(d),
                     BulletAt(now, unlock), NoOverride),
           NoCondition, NoMilestones)

\* deadline = 0 asks for the end of the schedule.
CreateScheduled(s, r, a, d, schedule, deadline) ==
  LET effective == IF deadline = 0 THEN schedule.end_time ELSE deadline IN
  /\ r # s
  /\ ValidateAssets(d)
  /\ ValidSchedule(schedule)
  /\ schedule.end_time > now
  /\ effective >= schedule.end_time
  /\ Pull(d)
  /\ Store(NewEscrow(s, r, a, d, "Funded", effective, 0, 0, TotalAmount(d),
                     schedule, NoOverride),
           NoCondition, NoMilestones)

InitializeTimelock(s, r, a, d, unlock, grace) ==
  /\ r # s
  /\ unlock > now
  /\ ValidateAssets(d)
  /\ Store(NewEscrow(s, r, a, d, "Created", unlock, grace, 0, 0,
                     BulletAt(now, unlock), NoOverride),
           NoCondition, NoMilestones)
  /\ UNCHANGED custody

\* No clock is consulted; the whitelist is, again.
Fund(caller, id) ==
  /\ Exists(id)
  /\ escrow[id].sender = caller
  /\ escrow[id].state = "Created"
  /\ Listed(escrow[id].assets) \subseteq approved
  /\ Pull(escrow[id].assets)
  /\ escrow' = [escrow EXCEPT ![id].state = "Funded",
                              ![id].funded_amount = TotalAmount(escrow[id].assets)]
  /\ UNCHANGED <<registry, condition, milestones, toRecipient, toSender>>

\* The weights must add up to exactly 100%.
DepositWithMilestones(s, r, a, t, amount, deadline, weights) ==
  LET d == [Nothing EXCEPT ![t] = amount]
      item(bps) == [release_bps |-> bps, status |-> "Pending"]
  IN
  /\ amount > 0
  /\ t \in approved
  /\ r # s
  /\ deadline > now
  /\ weights # <<>>
  /\ SumFunction(weights) = BPS
  /\ Pull(d)
  /\ Store(NewEscrow(s, r, a, d, "Funded", deadline, 0, 0, amount,
                     NoSchedule, NoOverride),
           NoCondition,
           [items |-> [i \in 1..Len(weights) |-> item(weights[i])],
            released_amount |-> 0, cancelled |-> FALSE])

-----------------------------------------------------------------------------
(* Gates shared by the settlement paths                                     *)

GraceOver(e) == now >= GraceEnd(e)

\* Mutation of ReleaseWindowOpen: off by one at the end of the grace period.
ReleaseWindowInclusive(e) == now <= GraceEnd(e)

\* The arbiter settles strictly before the instant the sender's exits open.
ReleaseWindowOpen(e) == now < GraceEnd(e)

RefundWindowOpen(e) == ClosesAt(e) = 0 \/ now < ClosesAt(e)

ReleaseApprovalsMet(id) == condition[id].approvals >= condition[id].threshold

\* The schedule gate of release and override_release: both settle the whole
\* outstanding balance, whatever amount is asked for.
ReleaseClockOpen(e, amount) ==
  LET vested == VestedAmount(e.funded_amount, e.schedule, now) IN
  /\ Scheduled(e.schedule) => now >= e.schedule.cliff_time
  /\ e.schedule.release_type = "Linear" => amount <= vested /\ Remaining(e) <= vested

\* Mutation of ApproveRelease: a repeated approval counts again.
ApproveReleaseAgain(caller, id) ==
  /\ Exists(id)
  /\ escrow[id].state = "Funded"
  /\ caller \in condition[id].participants
  /\ condition[id].approvals < MaxSigners
  /\ condition' = [condition EXCEPT ![id].approvals = @ + 1,
                                    ![id].by = @ \cup {caller}]
  /\ UNCHANGED <<registry, escrow, milestones, ledger>>

ApproveRelease(caller, id) ==
  /\ Exists(id)
  /\ escrow[id].state = "Funded"
  /\ caller \in condition[id].participants
  /\ caller \notin condition[id].by
  /\ condition' = [condition EXCEPT ![id].approvals = @ + 1,
                                    ![id].by = @ \cup {caller}]
  /\ UNCHANGED <<registry, escrow, milestones, ledger>>

-----------------------------------------------------------------------------
(* Paying the recipient                                                     *)

\* Mutation of PayVested: pay without counting the amount as released.
PayVestedUncounted(id, amount) ==
  /\ PayRecipient(id, ProRata(escrow[id], amount))
  /\ UNCHANGED escrow

\* withdraw and claim: count `amount` as released, settle when nothing is left.
PayVested(id, amount) ==
  LET e == escrow[id] IN
  /\ escrow' = [escrow EXCEPT
       ![id].released_amount = e.released_amount + amount,
       ![id].state = IF e.released_amount + amount = e.funded_amount
                       THEN "Released" ELSE "Funded"]
  /\ PayRecipient(id, ProRata(e, amount))

CanWithdraw(caller, id, amount) ==
  /\ amount > 0
  /\ Exists(id)
  /\ ~HasMilestones(id)
  /\ escrow[id].recipient = caller
  /\ escrow[id].state = "Funded"
  /\ amount <= ClaimableAmount(escrow[id], now)
  /\ ReleaseApprovalsMet(id)

Withdraw(caller, id, amount) ==
  /\ CanWithdraw(caller, id, amount)
  /\ PayVested(id, amount)
  /\ UNCHANGED <<registry, condition, milestones>>

\* On a schedule-less escrow the recipient may claim everything once the
\* grace period is over.
Claimable(e) == IF Scheduled(e.schedule) THEN ClaimableAmount(e, now) ELSE Remaining(e)

CanClaimFunded(caller, id) ==
  LET e == escrow[id] IN
  /\ Exists(id)
  /\ ~HasMilestones(id)
  /\ e.recipient = caller
  /\ e.state = "Funded"
  /\ Scheduled(e.schedule) \/ GraceOver(e)
  /\ Claimable(e) > 0
  /\ ReleaseApprovalsMet(id)

ClaimFunded(caller, id) ==
  /\ CanClaimFunded(caller, id)
  /\ PayVested(id, Claimable(escrow[id]))
  /\ UNCHANGED <<registry, condition, milestones>>

CanClaimCreated(caller, id) ==
  /\ Exists(id)
  /\ ~HasMilestones(id)
  /\ escrow[id].recipient = caller
  /\ escrow[id].state = "Created"
  /\ GraceOver(escrow[id])
  /\ ReleaseApprovalsMet(id)

\* A claim on an escrow nobody funded settles it and moves nothing.
ClaimCreated(caller, id) ==
  /\ CanClaimCreated(caller, id)
  /\ escrow' = [escrow EXCEPT ![id].state = "Released"]
  /\ PayRecipient(id, ProRata(escrow[id], Remaining(escrow[id])))
  /\ UNCHANGED <<registry, condition, milestones>>

Claim(caller, id) == ClaimFunded(caller, id) \/ ClaimCreated(caller, id)

CanRelease(caller, id, amount) ==
  LET e == escrow[id] IN
  /\ Exists(id)
  /\ e.arbiter = caller
  /\ e.state = "Funded"
  /\ ~HasMilestones(id)
  /\ ReleaseClockOpen(e, amount)
  /\ ReleaseWindowOpen(e)
  /\ amount <= Remaining(e)
  /\ ReleaseApprovalsMet(id)

Release(caller, id, amount) ==
  LET e == escrow[id] IN
  /\ CanRelease(caller, id, amount)
  /\ escrow' = [escrow EXCEPT ![id].released_amount = e.funded_amount,
                              ![id].state = "Released"]
  /\ PayRecipient(id, ProRata(e, Remaining(e)))
  /\ UNCHANGED <<registry, condition, milestones>>

\* Anyone may relay the signatures; `signed` are the keys whose signature
\* over this escrow's payload and nonce verifies.  released_amount stays.
CanOverride(id, nonce, signed) ==
  LET e == escrow[id] IN
  /\ Exists(id)
  /\ ~HasMilestones(id)
  /\ e.override_signers # {}
  /\ e.override_threshold > 0
  /\ e.state = "Funded"
  /\ now < e.deadline
  /\ ReleaseClockOpen(e, Remaining(e))
  /\ nonce > e.override_nonce
  /\ signed \subseteq e.override_signers
  /\ Cardinality(signed) >= e.override_threshold
  /\ ReleaseApprovalsMet(id)

OverrideRelease(id, nonce, signed) ==
  LET e == escrow[id] IN
  /\ CanOverride(id, nonce, signed)
  /\ escrow' = [escrow EXCEPT ![id].override_nonce = nonce,
                              ![id].state = "Released"]
  /\ PayRecipient(id, ProRata(e, Remaining(e)))
  /\ UNCHANGED <<registry, condition, milestones>>

-----------------------------------------------------------------------------
(* Timeouts and the sender's exits                                          *)

Expire(id) ==
  /\ Exists(id)
  /\ escrow[id].state = "Funded"
  /\ GraceOver(escrow[id])
  /\ escrow' = [escrow EXCEPT ![id].state = "Expired"]
  /\ UNCHANGED <<registry, condition, milestones, ledger>>

\* Mutations of Refundable: a released escrow refunds too; an escrow a keeper
\* marked Expired does not.
RefundableAfterRelease(e) == e.state \in {"Funded", "Expired", "Released"}
RefundableUnlessExpired(e) == e.state = "Funded"

Refundable(e) == e.state \in {"Funded", "Expired"}

\* Return what was not released and settle as Refunded.
ReturnRemaining(id) ==
  /\ escrow' = [escrow EXCEPT ![id].state = "Refunded"]
  /\ PaySender(id, ProRata(escrow[id], Remaining(escrow[id])))
  /\ UNCHANGED <<registry, condition>>

\* refund and reclaim check the same things.
CanRefund(caller, id) ==
  /\ Exists(id)
  /\ ~HasMilestones(id)
  /\ escrow[id].sender = caller
  /\ Refundable(escrow[id])
  /\ now >= escrow[id].deadline
  /\ GraceOver(escrow[id])
  /\ RefundWindowOpen(escrow[id])

Refund(caller, id) ==
  /\ CanRefund(caller, id)
  /\ ReturnRemaining(id)
  /\ UNCHANGED milestones

CanRefundTimelock(caller, id) ==
  /\ Exists(id)
  /\ ~HasMilestones(id)
  /\ escrow[id].sender = caller
  /\ escrow[id].state \in {"Created", "Funded", "Expired"}
  /\ GraceOver(escrow[id])
  /\ RefundWindowOpen(escrow[id])

RefundTimelock(caller, id) ==
  /\ CanRefundTimelock(caller, id)
  /\ ReturnRemaining(id)
  /\ UNCHANGED milestones

Reclaim(caller, id) ==
  /\ CanRefund(caller, id)
  /\ ReturnRemaining(id)
  /\ UNCHANGED milestones

\* The milestone-aware exit: completed milestones keep their payout, the rest
\* is frozen and returned.  There is no deadline on it.
CanCancelMilestones(caller, id) ==
  LET e == escrow[id] IN
  /\ Exists(id)
  /\ HasMilestones(id)
  /\ caller \in {e.sender, e.arbiter}
  /\ ~milestones[id].cancelled
  /\ e.state \in {"Funded", "Expired"}

CancelRemainingMilestones(caller, id) ==
  LET e == escrow[id]
      set == milestones[id]
      frozen(m) == IF m.status = "Pending" THEN [m EXCEPT !.status = "Disputed"] ELSE m
  IN
  /\ CanCancelMilestones(caller, id)
  /\ milestones' = [milestones EXCEPT
       ![id] = [set EXCEPT !.cancelled = TRUE,
                           !.items = [i \in 1..Len(set.items) |-> frozen(set.items[i])]]]
  /\ escrow' = [escrow EXCEPT ![id].state = "Refunded"]
  /\ PaySender(id, ProRata(e, e.funded_amount - set.released_amount))
  /\ UNCHANGED <<registry, condition>>

\* A milestone escrow takes the milestone-aware exit.  A scheduled escrow
\* that has vested anything can no longer be cancelled.
CanCancel(caller, id) ==
  LET e == escrow[id] IN
  /\ Exists(id)
  /\ ~HasMilestones(id)
  /\ caller \in {e.sender, e.arbiter}
  /\ e.state \in {"Funded", "Created"}
  /\ now < e.deadline
  /\ VestedAmount(e.funded_amount, e.schedule, now) = 0

CancelPlain(caller, id) ==
  /\ CanCancel(caller, id)
  /\ ReturnRemaining(id)
  /\ UNCHANGED milestones

Cancel(caller, id) == CancelPlain(caller, id) \/ CancelRemainingMilestones(caller, id)

Close(caller, id) ==
  LET e == escrow[id] IN
  /\ Exists(id)
  /\ e.state \in {"Released", "Refunded"}
  /\ caller \in {e.sender, e.recipient, e.arbiter}
  /\ escrow' = [escrow EXCEPT ![id].state = "Closed"]
  /\ UNCHANGED <<registry, condition, milestones, ledger>>

-----------------------------------------------------------------------------
(* Milestones                                                               *)

\* The arbiter may act on milestone i of a live schedule while it is `status`.
MilestoneLive(caller, id, i, status) ==
  /\ Exists(id)
  /\ escrow[id].arbiter = caller
  /\ HasMilestones(id)
  /\ ~milestones[id].cancelled
  /\ i \in 1..Len(milestones[id].items)
  /\ milestones[id].items[i].status = status
  /\ escrow[id].state = "Funded"

Unreleased(set) == {i \in 1..Len(set.items) : set.items[i].status # "Completed"}

\* Mutation of MilestonePayout: the last milestone leaves the dust behind.
MilestonePayoutFloored(id, i) ==
  MilestoneShare(TotalAmount(escrow[id].assets), milestones[id].items[i].release_bps)

\* The last outstanding milestone takes the remainder, dust included.
MilestonePayout(id, i) ==
  LET set == milestones[id]
      total == TotalAmount(escrow[id].assets)
  IN  IF Cardinality(Unreleased(set)) = 1
        THEN total - set.released_amount
        ELSE MilestoneShare(total, set.items[i].release_bps)

\* A milestone is paid in the asset deposited.
MilestoneLegs(id, i) ==
  LET asset == CHOOSE t \in Token : escrow[id].assets[t] > 0
  IN  [Nothing EXCEPT ![asset] = MilestonePayout(id, i)]

SetStatus(set, i, status) == [set EXCEPT !.items[i].status = status]

ReleaseMilestone(caller, id, i) ==
  LET payout == MilestonePayout(id, i)
      done == SetStatus(milestones[id], i, "Completed")
      set == [done EXCEPT !.released_amount = @ + payout]
  IN
  /\ MilestoneLive(caller, id, i, "Pending")
  /\ PayRecipient(id, MilestoneLegs(id, i))
  /\ milestones' = [milestones EXCEPT ![id] = set]
  /\ escrow' = IF Unreleased(set) = {}
                 THEN [escrow EXCEPT ![id].released_amount = set.released_amount,
                                     ![id].state = "Released"]
                 ELSE escrow
  /\ UNCHANGED <<registry, condition>>

DisputeMilestone(caller, id, i) ==
  /\ MilestoneLive(caller, id, i, "Pending")
  /\ milestones' = [milestones EXCEPT ![id] = SetStatus(milestones[id], i, "Disputed")]
  /\ UNCHANGED <<registry, escrow, condition, ledger>>

ResolveMilestone(caller, id, i) ==
  /\ MilestoneLive(caller, id, i, "Disputed")
  /\ milestones' = [milestones EXCEPT ![id] = SetStatus(milestones[id], i, "Pending")]
  /\ UNCHANGED <<registry, escrow, condition, ledger>>

-----------------------------------------------------------------------------
(* Specification                                                            *)

Tick ==
  /\ now < MaxTime
  /\ now' = now + 1
  /\ UNCHANGED <<admin, approved, count, escrow, condition, milestones, ledger>>

Init ==
  /\ now = 0
  /\ admin = NoAdmin
  /\ approved = {}
  /\ count = 0
  /\ escrow = <<>>
  /\ condition = <<>>
  /\ milestones = <<>>
  /\ custody = Nothing
  /\ toRecipient = <<>>
  /\ toSender = <<>>

Creation ==
  \E p \in Parties, deadline \in Deadlines :
    LET s == p.sender
        r == p.recipient
        a == p.arbiter
    IN
    \/ \E d \in Deposits, grace \in GracePeriods, window \in RefundWindows, o \in Overrides :
         \/ Create(s, r, a, d, deadline, grace, window, o)
         \/ \E c \in Conditions :
              CreateWithReleaseCondition(s, r, a, d, deadline, grace, window, o, c)
    \/ \E d \in Deposits : CreateTimelock(s, r, a, d, deadline)
    \/ \E d \in Deposits, schedule \in Schedules :
         CreateScheduled(s, r, a, d, schedule, deadline)
    \/ \E d \in Deposits, grace \in GracePeriods :
         InitializeTimelock(s, r, a, d, deadline, grace)
    \/ \E t \in Token, amount \in Amounts, weights \in MilestoneSpecs :
         DepositWithMilestones(s, r, a, t, amount, deadline, weights)

\* cancel and cancel_remaining_milestones share cancel_milestones_inner.
Operation(id) ==
  \/ Expire(id)
  \/ \E nonce \in Nonces, signed \in SUBSET Key : OverrideRelease(id, nonce, signed)
  \/ \E caller \in Addr :
       \/ Fund(caller, id)
       \/ ApproveRelease(caller, id)
       \/ \E amount \in Amounts : Withdraw(caller, id, amount)
       \/ Claim(caller, id)
       \/ \E amount \in Amounts : Release(caller, id, amount)
       \/ Refund(caller, id)
       \/ RefundTimelock(caller, id)
       \/ Reclaim(caller, id)
       \/ Cancel(caller, id)
       \/ Close(caller, id)
       \/ \E i \in 1..Len(milestones[id].items) :
            \/ ReleaseMilestone(caller, id, i)
            \/ DisputeMilestone(caller, id, i)
            \/ ResolveMilestone(caller, id, i)

Next ==
  \/ Tick
  \/ \E a \in Admins : Initialize(a)
  \/ \E caller \in Addr, t \in Token : ApproveToken(caller, t) \/ RevokeToken(caller, t)
  \/ Creation
  \/ \E id \in 1..count : Operation(id)

Spec == Init /\ [][Next]_vars

\* Time passes, and a sender keeps asking for its money back: refund on an
\* ordinary escrow, cancel_remaining_milestones on a phased one.  Nobody else
\* is assumed to cooperate.
SenderExits(id) ==
  \E caller \in Addr : Exists(id) /\ caller = escrow[id].sender
                       /\ (Refund(caller, id) \/ CancelRemainingMilestones(caller, id))

FairSpec ==
  /\ Spec
  /\ WF_vars(Tick)
  /\ \A id \in 1..MaxEscrows : WF_vars(SenderExits(id))

-----------------------------------------------------------------------------
(* Properties                                                               *)

TypeOK ==
  /\ now \in Nat
  /\ admin \in Addr \cup {NoAdmin}
  /\ approved \in SUBSET Token
  /\ count \in Nat
  /\ escrow \in [1..count -> EscrowRecord]
  /\ condition \in [1..count -> ReleaseCondition]
  /\ milestones \in [1..count -> MilestoneSet]
  /\ custody \in [Token -> Nat]
  /\ toRecipient \in [1..count -> [Token -> Nat]]
  /\ toSender \in [1..count -> [Token -> Nat]]

\* What escrow id ever pulled into custody.
Deposited(id) == IF escrow[id].funded_amount = 0 THEN Nothing ELSE escrow[id].assets

Paid(id, t) == toRecipient[id][t] + toSender[id][t]

\* No sequence of partial withdrawals, claims, milestone payouts and a final
\* settlement takes more of a token out of an escrow than its own deposit,
\* although all escrows share one custody balance: rounding never favours a
\* payout and a settlement after partial payouts moves the remainder only.
NoOverdraw ==
  \A id \in 1..count : \A t \in Token : Paid(id, t) <= Deposited(id)[t]

\* The contract's balance of a token is exactly what its escrows still hold.
CustodyExact ==
  \A t \in Token :
    custody[t] = SumFunction([id \in 1..count |-> Deposited(id)[t] - Paid(id, t)])

\* No payout an open escrow still owes fails for lack of tokens, whichever
\* exit pays it and whatever the other escrows have taken out of the shared
\* balance: not the pro-rata legs of any amount up to what remains, not the
\* payout of a pending milestone, not what cancelling the others returns.
PayoutsCovered ==
  \A id \in 1..count :
    LET e == escrow[id]
        set == milestones[id]
        covered(amounts) == \A t \in Token : amounts[t] \in 0..custody[t]
    IN  e.state \in {"Created", "Funded", "Expired"} =>
          IF HasMilestones(id)
            THEN /\ covered(ProRata(e, e.funded_amount - set.released_amount))
                 /\ \A i \in Unreleased(set) : covered(MilestoneLegs(id, i))
            ELSE \A amount \in 0..Remaining(e) : covered(ProRata(e, amount))

\* Every escrow pays from its own deposit and custody accounts for all of
\* them: nothing is overdrawn (NoOverdraw), nothing is lost (CustodyExact),
\* and no payout that is owed bounces (PayoutsCovered).
CustodySound == NoOverdraw /\ CustodyExact /\ PayoutsCovered

\* A settled escrow of one asset (a milestone escrow is one) has paid out its
\* deposit to the last unit, whatever partial payouts preceded: no dust stays.
SettledPaysEverything ==
  \A id \in 1..count :
    escrow[id].state \in Settled /\ Cardinality(Listed(escrow[id].assets)) = 1
      => \A t \in Token : Paid(id, t) = Deposited(id)[t]

\* Released, Refunded and Closed are final: no later call moves a token of the
\* escrow or takes it anywhere but to Closed, so no deposit is spent twice.
SettledIsFinal ==
  \A id \in 1..count : escrow[id].state \in Settled =>
    /\ toRecipient'[id] = toRecipient[id]
    /\ toSender'[id] = toSender[id]
    /\ escrow'[id].state \in {escrow[id].state, "Closed"}

\* On every path to the recipient (release, override_release, withdraw, claim)
\* a multi-party escrow has first collected its threshold of sign-offs, each
\* from a different participant.
PaidOnlyWithApprovals ==
  \A id \in 1..count :
    (\E t \in Token : toRecipient[id][t] > 0) =>
      Cardinality(condition[id].by \cap condition[id].participants) >= condition[id].threshold

\* Between the deadline and the end of the grace period only the recipient
\* can be paid: no exit of the sender opens, on an escrow without milestones.
GraceShieldsRecipient ==
  \A id \in 1..count :
    LET e == escrow[id] IN
    toSender'[id] # toSender[id] /\ ~HasMilestones(id) =>
      ~(e.deadline <= now /\ now < e.deadline + e.grace_period)

\* An escrow is settled once and in time, by whichever of its nine exits:
\* no step pays from a settled one (SettledIsFinal) and none serves the
\* sender while the recipient's grace runs (GraceShieldsRecipient).
SettlesOnceAndInTime == [][SettledIsFinal /\ GraceShieldsRecipient]_vars

\* The doc of create: the sender may reclaim the funds only once the grace has
\* fully elapsed.  It fails where deadline + grace_period does not fit u64:
\* grace_end truncates the sum and the grace is over as soon as it starts.
GraceHonoured == [][GraceShieldsRecipient]_vars

\* No two parties can settle an escrow in opposite directions at one instant.
\* The sender's refunds open at the very second the arbiter's release closes,
\* and, unless deadline + grace_period is cut to u64, never before the keys'
\* override has closed; and what the recipient may collect by itself, the
\* sender and the arbiter may no longer cancel.
HandoffExclusive ==
  \A id \in 1..count :
    LET e == escrow[id]
        release == \E c \in Addr, n \in Amounts : CanRelease(c, id, n)
        override == \E n \in Nonces, signed \in SUBSET Key : CanOverride(id, n, signed)
        refund == \E c \in Addr : CanRefund(c, id) \/ CanRefundTimelock(c, id)
        collect == \E c \in Addr :
          \/ CanClaimFunded(c, id) \/ CanClaimCreated(c, id)
          \/ \E n \in Amounts : CanWithdraw(c, id, n)
        cancel == \E c \in Addr : CanCancel(c, id)
    IN  /\ ~(release /\ refund)
        /\ e.deadline + e.grace_period < U64 => ~(override /\ refund) /\ ~(collect /\ cancel)

\* The sender of an escrow whose refund window never closes always has a way
\* out: once the grace is over refund accepts it, and on a phased escrow
\* cancel_remaining_milestones does at any time; nothing that the arbiter,
\* the participants, the admin or a keeper did before stands in its way.
SenderExitOpen ==
  \A id \in 1..count :
    LET e == escrow[id] IN
    e.state \in {"Funded", "Expired"} /\ e.refund_window = 0 =>
      IF HasMilestones(id) THEN CanCancelMilestones(e.sender, id)
      ELSE now >= e.deadline + e.grace_period => CanRefund(e.sender, id)

\* The handoff between the two sides has neither an overlap (HandoffExclusive)
\* nor a gap in which nobody can move the tokens again (SenderExitOpen).
HandoffExact == HandoffExclusive /\ SenderExitOpen

\* While a scheduled escrow is open, no mix of withdraw and claim has released
\* more than the schedule has vested by now.
OpenWithinVesting ==
  \A id \in 1..count :
    LET e == escrow[id] IN
    Scheduled(e.schedule) /\ e.state = "Funded"
      => e.released_amount <= VestedAmount(e.funded_amount, e.schedule, now)

\* Until every milestone is completed the recipient holds no more than the
\* completed milestones' weight of the deposit, disputed ones not counted.
MilestonesWithinShare ==
  \A id \in 1..count :
    LET e == escrow[id]
        items == milestones[id].items
        done == {i \in 1..Len(items) : items[i].status = "Completed"}
        weight == SumFunctionOnSet([i \in 1..Len(items) |-> items[i].release_bps], done)
    IN  HasMilestones(id) /\ e.state # "Released" /\ done # 1..Len(items)
          => \A t \in Token : toRecipient[id][t] * BPS <= e.assets[t] * weight

\* While an escrow is open the recipient has taken no more than it has earned:
\* by withdraw and claim no more than vested, by milestones no more than the
\* completed ones.  A release settles; what it may pay is not bounded here.
EarnedBeforePaid == OpenWithinVesting /\ MilestonesWithinShare

\* A sender whose refund window never closes gets an escrow settled, whatever
\* the arbiter, the participants, the admin revoking the token, a keeper
\* calling expire or the recipient do or refuse to do.
SenderExitNeverBlocked ==
  \A id \in 1..MaxEscrows :
    (Exists(id) /\ escrow[id].state \in {"Funded", "Expired"} /\ escrow[id].refund_window = 0)
      ~> (Exists(id) /\ escrow[id].state \in Settled)
=============================================================================
