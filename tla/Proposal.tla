------------------------------ MODULE Proposal ------------------------------
(***************************************************************************)
(* The proposal contract: an action awaiting the approval of an allow-list *)
(* of multisig signers.  It takes a deposit, runs through a lifecycle with *)
(* a deadline, a time-lock between approval and execution and              *)
(* prerequisites, returns the deposit, and its record may be pruned.       *)
(*                                                                         *)
(* The multisig it asks for signers, weights and the threshold is the      *)
(* abstract SignerSet, which changes under the proposals' feet.            *)
(*                                                                         *)
(* Only the proposer may cancel, execute, fail and close; no other check   *)
(* depends on who it is, so those actions take no caller.                  *)
(***************************************************************************)
EXTENDS VotingWeight, Integers, FiniteSets, Sequences

CONSTANTS
  MinThreshold,      \* MIN_THRESHOLD of the multisig
  QuorumPercent,     \* PROPOSAL_QUORUM_PERCENT
  MaxApprovers,      \* MAX_APPROVERS
  MaxDependencies,   \* MAX_DEPENDENCIES
  MaxPruneBatch,     \* MAX_PRUNE_BATCH
  MaxU64,            \* u64::MAX
  MaxDeposit,        \* the largest deposit, i128::MAX
  Timelocks,         \* time-locks `initialize` may be given
  Terms,             \* arguments `create` may be given
  MaxTime,           \* bound on the clock
  MaxProposals       \* bound on the proposals created

\* The states create and the entrypoints record; nothing records Created.
States == {"Pending", "Approved", "Executed", "Closed", "Rejected",
           "Cancelled", "Expired", "Failed"}

\* What a proposer asks for.  Only the first entry of the deposit vector is
\* ever charged or returned: `deposit` is its amount, 0 for an empty vector.
\* Zero for expires_at is "no deadline", for grace_period "no window".
Term ==
  [approvers: SUBSET Addr, dependencies: SUBSET Nat, threshold: Nat,
   deposit: 0..MaxDeposit, expires_at: Nat, grace_period: Nat]

ASSUME ProposalAssumption ==
  /\ IsFiniteSet(Addr)
  /\ MaxWeight \in Nat /\ MinThreshold \in Nat \ {0}
  /\ QuorumPercent \in Nat
  /\ MaxApprovers \in Nat /\ MaxDependencies \in Nat /\ MaxPruneBatch \in Nat
  /\ MaxDeposit \in Nat /\ MaxU64 \in Nat /\ Timelocks \subseteq 0..MaxU64
  /\ Terms \subseteq Term
  /\ MaxTime \in Nat /\ MaxProposals \in Nat

\* `carried_at` is history: when an approval last left the proposal with the
\* approvals it asks for and the weight the multisig asks for.
ProposalRecord ==
  [terms: Term, state: States, approvals: Nat, approval_weight: Nat,
   created_at: Nat, approved_at: Nat, carried_at: Nat]

VARIABLES
  now,          \* ledger timestamp; real ledgers are past 0
  weight,       \* the multisig's signers
  quorum,       \* the multisig's threshold
  ready,        \* whether initialize was called
  timelock,     \* DataKey::Timelock
  proposals,    \* DataKey::Proposal(id), in the order of ids
  approvals,    \* DataKey::Approval(id, _): who approved proposal id
  purged,       \* ids whose record was removed: history in `proposals` only
  held          \* what the contract holds of the deposit asset

vars == <<now, weight, quorum, ready, timelock, proposals, approvals, purged, held>>
multisig == <<weight, quorum>>
config == <<ready, timelock>>

Team == INSTANCE SignerSet WITH threshold <- quorum

Ids == 1..Len(proposals)
Stored(id) == id \in Ids \ purged
TermsOf(id) == proposals[id].terms

\* The units of the deposits d that belong to the ids in S, and their number.
Units(d, S) == {u \in S \X (1..MaxDeposit) : u[2] <= d[u[1]]}
Total(d, S) == Cardinality(Units(d, S))

Deposits == [id \in Ids |-> TermsOf(id).deposit]

-----------------------------------------------------------------------------
(* The canonical state machine                                              *)

LegalEdges ==
  {<<"Created", "Pending">>, <<"Executed", "Closed">>}
    \cup ({"Pending"} \X {"Approved", "Rejected", "Cancelled", "Expired"})
    \cup ({"Approved"} \X {"Executed", "Failed", "Cancelled", "Expired"})

\* Mutation of MayTransition: anything that has not executed may move on.
MayTransitionUnexecuted(from, to) == from \notin {"Executed", "Closed"}

MayTransition(from, to) == <<from, to>> \in LegalEdges

HasExecuted(state) == state \in {"Executed", "Closed"}
IsLive(state) == state \in {"Pending", "Approved"}

DepositSettled(state) ==
  state \in {"Expired", "Rejected", "Cancelled", "Executed", "Closed"}

-----------------------------------------------------------------------------
(* Clocks                                                                   *)

IsExpired(id) == TermsOf(id).expires_at # 0 /\ now >= TermsOf(id).expires_at

\* An interaction with this proposal settles it as Expired.
Due(id) == IsLive(proposals[id].state) /\ IsExpired(id)

SaturatingAdd(a, b) == IF a + b > MaxU64 THEN MaxU64 ELSE a + b

\* Cancelling is open until the end of the grace window, if there is one.
CancellationOpen(id) ==
  LET p == proposals[id] IN
  \/ p.terms.grace_period = 0
  \/ now <= SaturatingAdd(p.created_at, p.terms.grace_period)

IsArmed(id) == timelock # 0 /\ proposals[id].approved_at # 0

\* The release instant must be representable and reached.
Released(id) ==
  IsArmed(id) => /\ proposals[id].approved_at + timelock <= MaxU64
                 /\ now >= proposals[id].approved_at + timelock

-----------------------------------------------------------------------------
(* Votes                                                                    *)

IsSigner(a) == weight[a] > 0

\* The approvals that count now: given, on the allow-list, still a signer.
Counted(id, given) == {a \in TermsOf(id).approvers \cap given : IsSigner(a)}

LiveApprovals(id, given) == Cardinality(Counted(id, given))
LiveWeight(id, given) == WeightOf(weight, Counted(id, given))

PercentCap == IF QuorumPercent > 100 THEN 100 ELSE QuorumPercent
QuorumRequired(eligible) == (eligible * PercentCap + 99) \div 100
MajorityRequired(eligible) == eligible \div 2 + 1

\* Whether a tally clears the threshold, the quorum and the majority.
BarsMet(id, tally) ==
  LET eligible == Cardinality(TermsOf(id).approvers) IN
  /\ tally >= TermsOf(id).threshold
  /\ tally >= QuorumRequired(eligible)
  /\ tally >= MajorityRequired(eligible)

\* Mutation of DependenciesMet: a record that is gone does not block.
DependenciesMetOrGone(id) ==
  \A dep \in TermsOf(id).dependencies : Stored(dep) => HasExecuted(proposals[dep].state)

DependenciesMet(id) ==
  \A dep \in TermsOf(id).dependencies : Stored(dep) /\ HasExecuted(proposals[dep].state)

-----------------------------------------------------------------------------
(* Entrypoints                                                              *)

Initialize(delay) ==
  /\ ~ready
  /\ quorum # 0
  /\ ready' = TRUE
  /\ timelock' = delay
  /\ UNCHANGED <<now, multisig, proposals, approvals, purged, held>>

\* Mutation of NewProposal: the record starts in the documented first state.
NewProposalUnopened(t) ==
  [terms |-> t, state |-> "Created", approvals |-> 0, approval_weight |-> 0,
   created_at |-> now, approved_at |-> 0, carried_at |-> 0]

NewProposal(t) ==
  [terms |-> t, state |-> "Pending", approvals |-> 0, approval_weight |-> 0,
   created_at |-> now, approved_at |-> 0, carried_at |-> 0]

Create(t) ==
  /\ ready
  /\ Cardinality(t.approvers) \in 1..MaxApprovers
  /\ \A a \in t.approvers : IsSigner(a)
  /\ WeightOf(weight, t.approvers) >= quorum
  /\ t.threshold \in 1..Cardinality(t.approvers)
  /\ t.expires_at = 0 \/ t.expires_at > now
  /\ Cardinality(t.dependencies) <= MaxDependencies
  /\ \A dep \in t.dependencies : Stored(dep)
  /\ Len(proposals) < MaxProposals
  /\ proposals' = Append(proposals, NewProposal(t))
  /\ approvals' = Append(approvals, {})
  /\ held' = held + t.deposit
  /\ UNCHANGED <<now, multisig, config, purged>>

\* The token transfer back to the proposer fails without the balance.
Refund(id) ==
  /\ held >= TermsOf(id).deposit
  /\ held' = held - TermsOf(id).deposit

MoveTo(id, state) == proposals' = [proposals EXCEPT ![id].state = state]

\* What every entrypoint but execute, and every view of a proposal's status,
\* does first to a proposal whose deadline has passed; an entrypoint then does
\* nothing else, and expire does only this.
ExpireIfDue(id) ==
  /\ Stored(id)
  /\ Due(id)
  /\ MoveTo(id, "Expired")
  /\ Refund(id)
  /\ UNCHANGED <<now, multisig, config, approvals, purged>>

Addressed(id) == Stored(id) /\ ~Due(id)

\* The approval carries the proposal: it has the approvals it asks for and
\* the weight the multisig asks for.
Carries(id, given) ==
  /\ LiveApprovals(id, given) >= TermsOf(id).threshold
  /\ LiveWeight(id, given) >= quorum

\* Mutation of ApprovedAt: the time-lock runs from the first approval.
ApprovedAtOnce(id, given) ==
  LET p == proposals[id] IN
  IF p.state = "Pending" /\ LiveApprovals(id, given) >= p.terms.threshold
    THEN now
    ELSE p.approved_at

\* The time-lock runs from the approval that meets the proposal's threshold,
\* or that brings an approved proposal over the multisig's.
ApprovedAt(id, given) ==
  LET p == proposals[id] IN
  IF \/ p.state = "Pending" /\ LiveApprovals(id, given) >= p.terms.threshold
     \/ p.state = "Approved" /\ LiveWeight(id, given) >= quorum
    THEN now
    ELSE p.approved_at

Approve(a, id) ==
  /\ Addressed(id)
  /\ IsLive(proposals[id].state)
  /\ a \in TermsOf(id).approvers
  /\ IsSigner(a)
  /\ a \notin approvals[id]
  /\ proposals[id].state = "Approved" => LiveWeight(id, approvals[id]) < quorum
  /\ LET p == proposals[id]
         given == approvals[id] \cup {a} IN
     /\ approvals' = [approvals EXCEPT ![id] = given]
     /\ proposals' = [proposals EXCEPT ![id] =
          [p EXCEPT !.approvals = LiveApprovals(id, given),
                    !.approval_weight = LiveWeight(id, given),
                    !.state = IF LiveApprovals(id, given) >= p.terms.threshold
                                THEN "Approved" ELSE p.state,
                    !.approved_at = ApprovedAt(id, given),
                    !.carried_at = IF Carries(id, given) THEN now ELSE @]]
  /\ UNCHANGED <<now, multisig, config, purged, held>>

\* Anyone on the allow-list, signer or not by now.
Reject(a, id) ==
  /\ Addressed(id)
  /\ proposals[id].state = "Pending"
  /\ a \in TermsOf(id).approvers
  /\ MoveTo(id, "Rejected")
  /\ Refund(id)
  /\ UNCHANGED <<now, multisig, config, approvals, purged>>

Cancel(id) ==
  /\ Addressed(id)
  /\ MayTransition(proposals[id].state, "Cancelled")
  /\ CancellationOpen(id)
  /\ MoveTo(id, "Cancelled")
  /\ Refund(id)
  /\ UNCHANGED <<now, multisig, config, approvals, purged>>

\* Mutation of Supported: the tally recorded at the last approval.
SupportedAsRecorded(id) ==
  /\ BarsMet(id, proposals[id].approvals)
  /\ proposals[id].approval_weight >= quorum

Supported(id) ==
  /\ BarsMet(id, LiveApprovals(id, approvals[id]))
  /\ LiveWeight(id, approvals[id]) >= quorum

Execute(id) ==
  /\ Stored(id)
  /\ ~IsExpired(id)
  /\ proposals[id].state = "Approved"
  /\ Supported(id)
  /\ Released(id)
  /\ DependenciesMet(id)
  /\ proposals' = [proposals EXCEPT
       ![id].state = "Executed",
       ![id].approvals = LiveApprovals(id, approvals[id]),
       ![id].approval_weight = LiveWeight(id, approvals[id])]
  /\ Refund(id)
  /\ UNCHANGED <<now, multisig, config, approvals, purged>>

\* Mutation of Fail: any live proposal may be marked failed.
FailAnyLive(id) ==
  /\ Addressed(id)
  /\ IsLive(proposals[id].state)
  /\ MoveTo(id, "Failed")
  /\ UNCHANGED <<now, multisig, config, approvals, purged, held>>

Fail(id) ==
  /\ Addressed(id)
  /\ proposals[id].state = "Approved"
  /\ MoveTo(id, "Failed")
  /\ UNCHANGED <<now, multisig, config, approvals, purged, held>>

Close(id) ==
  /\ Addressed(id)
  /\ proposals[id].state = "Executed"
  /\ MoveTo(id, "Closed")
  /\ UNCHANGED <<now, multisig, config, approvals, purged, held>>

\* Whether pruning, which first settles a stale proposal, removes the record.
Prunable(id) ==
  /\ Stored(id)
  /\ IsExpired(id)
  /\ Due(id) \/ DepositSettled(proposals[id].state)

\* One id, a batch of ids or a range of them: what is not prunable is skipped.
PruneExpired(ids) ==
  LET gone == {id \in ids : Prunable(id)}
      refunds == Total(Deposits, {id \in gone : Due(id)})
  IN
  /\ Cardinality(ids) <= MaxPruneBatch
  /\ gone # {}
  /\ held >= refunds
  /\ held' = held - refunds
  /\ proposals' = [id \in Ids |-> IF id \in gone /\ Due(id)
                                    THEN [proposals[id] EXCEPT !.state = "Expired"]
                                    ELSE proposals[id]]
  /\ approvals' = [id \in Ids |-> IF id \in gone THEN {} ELSE approvals[id]]
  /\ purged' = purged \cup gone
  /\ UNCHANGED <<now, multisig, config>>

-----------------------------------------------------------------------------
(* Environment                                                              *)

Tick ==
  /\ now < MaxTime
  /\ now' = now + 1
  /\ UNCHANGED <<multisig, config, proposals, approvals, purged, held>>

\* Some call to the multisig contract.
ReviseSigners ==
  /\ Team!Revise
  /\ UNCHANGED <<now, config, proposals, approvals, purged, held>>

Init ==
  /\ now = 1
  /\ Team!Init
  /\ ready = FALSE
  /\ timelock = 0
  /\ proposals = <<>>
  /\ approvals = <<>>
  /\ purged = {}
  /\ held = 0

\* A call to this contract.
Entrypoint ==
  \/ \E delay \in Timelocks : Initialize(delay)
  \/ \E t \in Terms : Create(t)
  \/ \E id \in Ids :
       \/ ExpireIfDue(id)
       \/ \E a \in Addr : Approve(a, id) \/ Reject(a, id)
       \/ Cancel(id)
       \/ Execute(id)
       \/ Fail(id)
       \/ Close(id)
  \/ \E ids \in SUBSET Ids : PruneExpired(ids)

Next == Tick \/ ReviseSigners \/ Entrypoint

Spec == Init /\ [][Next]_vars

-----------------------------------------------------------------------------
(* Properties                                                               *)

TypeOK ==
  /\ now \in Nat
  /\ weight \in [Addr -> 0..MaxWeight]
  /\ quorum \in 0..MaxWeight
  /\ ready \in BOOLEAN
  /\ timelock \in 0..MaxU64
  /\ proposals \in Seq(ProposalRecord)
  /\ approvals \in Seq(SUBSET Addr)
  /\ Len(approvals) = Len(proposals)
  /\ purged \subseteq Ids
  /\ held \in Nat

\* Custody: the contract holds exactly the deposits of the proposals that have
\* not settled theirs, so that no order of rejecting, cancelling, expiring,
\* executing and pruning refunds twice, or loses a record that is still owed.
DepositsHeld ==
  held = Total(Deposits, {id \in Ids : ~DepositSettled(proposals[id].state)})

\* No refund that is owed bounces, whatever was refunded before: not the one a
\* rejection, a cancellation, an expiry or an execution makes, and not the sum
\* that pruning any batch of stale proposals makes at once.
RefundsCovered ==
  /\ \A id \in Ids : ~DepositSettled(proposals[id].state) => held >= TermsOf(id).deposit
  /\ \A ids \in SUBSET Ids : held >= Total(Deposits, {id \in ids : Due(id)})

\* Deposits are neither lost nor paid twice (DepositsHeld), and none that is
\* owed is stuck for lack of balance (RefundsCovered).
DepositsSound == DepositsHeld /\ RefundsCovered

\* Steps fire in order: what has executed had all its prerequisites executed,
\* whichever of them failed, lapsed or were pruned meanwhile.
ChainInOrder ==
  \A id \in Ids : HasExecuted(proposals[id].state) =>
    \A dep \in TermsOf(id).dependencies : dep < id /\ HasExecuted(proposals[dep].state)

Executes(id) == proposals[id].state # "Executed" /\ proposals'[id].state = "Executed"

\* Execution rests on signers of this moment: a strict majority of the
\* allow-list that together weigh what the multisig asks for at this moment.
ExecutedOnSupport ==
  [][\A id \in Ids : Executes(id) =>
       LET backers == {a \in approvals[id] \cap TermsOf(id).approvers : weight[a] > 0} IN
       /\ 2 * Cardinality(backers) > Cardinality(TermsOf(id).approvers)
       /\ Cardinality(backers) >= TermsOf(id).threshold
       /\ WeightOf(weight, backers) >= quorum]_vars

\* Cooling off: the last approval that carried a proposal is at least the
\* time-lock old when it executes, also when its first one fell short of the
\* multisig's weight or lost it to a change of the signers.
CoolingOff ==
  [][\A id \in Ids : Executes(id) =>
       /\ now >= proposals[id].carried_at + timelock
       /\ now >= proposals[id].approved_at + timelock]_vars

\* The lifecycle: every change of state, by any entrypoint, is an edge of the
\* table in the interfaces crate, so none of the contract's assertions fires,
\* and nothing happens to a record that was pruned.
LifecycleKept ==
  [][\A id \in Ids :
       LET from == proposals[id].state to == proposals'[id].state IN
       /\ from # to => <<from, to>> \in LegalEdges
       /\ id \in purged => proposals'[id] = proposals[id]]_vars
=============================================================================
