------------------------------ MODULE Multisig ------------------------------
(***************************************************************************)
(* The multisig contract: signers with voting weights, the threshold their *)
(* approvals must reach, proposals they approve and execute, batches they  *)
(* sign together, and the governance of the signer set itself, part of it  *)
(* behind a time-lock.                                                     *)
(*                                                                         *)
(* Every entrypoint is atomic.  A tick closes a ledger: it advances both   *)
(* the timestamp and the ledger sequence number, by one unit each.         *)
(***************************************************************************)
EXTENDS VotingWeight, Integers, FiniteSets, Sequences

CONSTANTS
  MinThreshold,     \* MIN_THRESHOLD
  MaxSigners,       \* MAX_SIGNERS
  MinDelay,         \* MIN_TIMELOCK_DELAY
  MaxDelay,         \* MAX_TIMELOCK_DELAY
  Grace,            \* GOVERNANCE_GRACE_PERIOD
  ThresholdDelay,   \* THRESHOLD_CHANGE_DELAY_LEDGERS
  InitialWeights,   \* signer sets `initialize` may be given
  Thresholds,       \* thresholds callers ask for
  Weights,          \* weights callers ask for
  Offers,           \* governance changes callers propose
  Unlocks,          \* unlock_at arguments of propose
  Nonces,           \* batch nonces
  MaxTime,          \* bound on the clock
  MaxChanges,       \* bound on the governance changes proposed
  MaxProposals      \* bound on the proposals created

ASSUME SignersAssumption ==
  /\ IsFiniteSet(Addr)
  /\ MinThreshold \in Nat \ {0}
  /\ MaxSigners \in Nat
  /\ MaxWeight \in Nat
  /\ InitialWeights \subseteq [Addr -> 0..MaxWeight]

ASSUME TimeAssumption ==
  /\ MinDelay \in Nat /\ MaxDelay \in Nat /\ MinDelay <= MaxDelay
  /\ Grace \in Nat /\ ThresholdDelay \in Nat

ASSUME ArgumentsAssumption ==
  /\ Thresholds \subseteq Nat /\ Weights \subseteq Nat
  /\ Unlocks \subseteq Nat /\ Nonces \subseteq Nat
  /\ MaxTime \in Nat /\ MaxChanges \in Nat /\ MaxProposals \in Nat

VARIABLES
  now,          \* ledger timestamp, and ledger sequence
  weight,       \* DataKey::Signers: 0 for an address that is not a signer
  threshold,    \* DataKey::Threshold: 0 before initialize
  pending,      \* DataKey::PendingThreshold: a set of at most one change
  locked,       \* DataKey::EmergencyLock
  delay,        \* DataKey::TimelockDelay
  changes,      \* DataKey::Change(id), in the order of ids
  proposals,    \* DataKey::Proposal(id), in the order of ids
  approvals,    \* DataKey::Approval(id, _): who approved proposal id
  lastNonce     \* DataKey::LastBatchNonce

vars == <<now, weight, threshold, pending, locked, delay, changes,
          proposals, approvals, lastNonce>>

voting == <<proposals, approvals, lastNonce>>

-----------------------------------------------------------------------------
(* Records                                                                  *)

GovernanceChange ==
  [kind: {"Threshold"}, value: Nat]
    \cup [kind: {"SignerWeight", "AddSigner"}, signer: Addr, value: Nat]
    \cup [kind: {"RemoveSigner"}, signer: Addr]
    \cup [kind: {"TimelockDelay"}, value: Nat]

ASSUME OffersAssumption == Offers \subseteq GovernanceChange

\* `window` is history: the delay in force when the change was proposed.
PendingChange ==
  [change: GovernanceChange, proposed_at: Nat, eta: Nat, expires_at: Nat,
   executed: BOOLEAN, cancelled: BOOLEAN, window: Nat]

\* `sensitive` stands for the action tags that touch quorum or weights.
MsProposal ==
  [sensitive: BOOLEAN, approval_weight: Nat, executed: BOOLEAN, unlock_at: Nat,
   proposed_at: Nat]

PendingThreshold == [new_threshold: Nat, effective_from: Nat]

-----------------------------------------------------------------------------
(* Weights                                                                  *)

Signers == {s \in Addr : weight[s] > 0}

TotalWeight == WeightOf(weight, Addr)

\* Mutation of ValidThreshold: MIN_THRESHOLD is not looked at.
ValidThresholdAnyLow(th, total) == th <= total

ValidThreshold(th, total) == th >= MinThreshold /\ th <= total

\* Mutation of LiveTally: the tally recorded at the last approval.
RecordedTally(id) == proposals[id].approval_weight

\* What the signers of now that approved proposal id weigh now.
LiveTally(id) == WeightOf(weight, approvals[id])

-----------------------------------------------------------------------------
(* Guards that the immediate and the time-locked governance paths share     *)

CanAdd(s, w) ==
  /\ w > 0
  /\ weight[s] = 0
  /\ Cardinality(Signers) < MaxSigners
  /\ TotalWeight + w <= MaxWeight

CanRemove(s) ==
  /\ s \in Signers
  /\ TotalWeight - weight[s] >= threshold

CanReweigh(s, w) ==
  /\ w > 0
  /\ s \in Signers
  /\ TotalWeight - weight[s] + w <= MaxWeight
  /\ TotalWeight - weight[s] + w >= threshold

RequireSigner(caller) == caller \in Signers
RequireNotLocked == ~locked

-----------------------------------------------------------------------------
(* Signer and threshold management that takes effect at once, or after a    *)
(* number of ledgers                                                        *)

Initialize(w, th) ==
  /\ threshold = 0
  /\ Cardinality({s \in Addr : w[s] > 0}) \in 1..MaxSigners
  /\ WeightOf(w, Addr) <= MaxWeight
  /\ ValidThreshold(th, WeightOf(w, Addr))
  /\ weight' = w
  /\ threshold' = th
  /\ UNCHANGED <<now, pending, locked, delay, changes, voting>>

AddSigner(caller, s, w) ==
  /\ RequireSigner(caller)
  /\ CanAdd(s, w)
  /\ weight' = [weight EXCEPT ![s] = w]
  /\ UNCHANGED <<now, threshold, pending, locked, delay, changes, voting>>

RemoveSigner(caller, s) ==
  /\ RequireSigner(caller)
  /\ CanRemove(s)
  /\ weight' = [weight EXCEPT ![s] = 0]
  /\ UNCHANGED <<now, threshold, pending, locked, delay, changes, voting>>

\* A second call replaces the pending change and restarts its clock.
SetThreshold(caller, th) ==
  /\ RequireSigner(caller)
  /\ ValidThreshold(th, TotalWeight)
  /\ th # threshold
  /\ pending' = {[new_threshold |-> th, effective_from |-> now]}
  /\ UNCHANGED <<now, weight, threshold, locked, delay, changes, voting>>

\* Mutation of FinalizeThreshold: the signer set is not looked at again.
FinalizeThresholdUnchecked(caller) ==
  \E p \in pending :
    /\ RequireSigner(caller)
    /\ now - p.effective_from >= ThresholdDelay
    /\ threshold' = p.new_threshold
    /\ pending' = {}
    /\ UNCHANGED <<now, weight, locked, delay, changes, voting>>

FinalizeThreshold(caller) ==
  \E p \in pending :
    /\ RequireSigner(caller)
    /\ now - p.effective_from >= ThresholdDelay
    /\ ValidThreshold(p.new_threshold, TotalWeight)
    /\ threshold' = p.new_threshold
    /\ pending' = {}
    /\ UNCHANGED <<now, weight, locked, delay, changes, voting>>

SetEmergencyLock(caller, on) ==
  /\ RequireSigner(caller)
  /\ locked' = on
  /\ UNCHANGED <<now, weight, threshold, pending, delay, changes, voting>>

-----------------------------------------------------------------------------
(* Time-locked governance                                                   *)

\* Mutation of ValidateChange: the new delay is not clamped.
ValidateChangeUnclamped(c) ==
  \/ c.kind = "Threshold" /\ ValidThreshold(c.value, TotalWeight)
  \/ c.kind = "SignerWeight" /\ CanReweigh(c.signer, c.value)
  \/ c.kind = "AddSigner" /\ CanAdd(c.signer, c.value)
  \/ c.kind = "RemoveSigner" /\ CanRemove(c.signer)
  \/ c.kind = "TimelockDelay"

ValidateChange(c) ==
  \/ c.kind = "Threshold" /\ ValidThreshold(c.value, TotalWeight)
  \/ c.kind = "SignerWeight" /\ CanReweigh(c.signer, c.value)
  \/ c.kind = "AddSigner" /\ CanAdd(c.signer, c.value)
  \/ c.kind = "RemoveSigner" /\ CanRemove(c.signer)
  \/ c.kind = "TimelockDelay" /\ c.value \in MinDelay..MaxDelay

ApplyChange(c) ==
  \/ /\ c.kind = "Threshold"
     /\ threshold' = c.value
     /\ UNCHANGED <<weight, delay>>
  \/ /\ c.kind \in {"SignerWeight", "AddSigner"}
     /\ weight' = [weight EXCEPT ![c.signer] = c.value]
     /\ UNCHANGED <<threshold, delay>>
  \/ /\ c.kind = "RemoveSigner"
     /\ weight' = [weight EXCEPT ![c.signer] = 0]
     /\ UNCHANGED <<threshold, delay>>
  \/ /\ c.kind = "TimelockDelay"
     /\ delay' = c.value
     /\ UNCHANGED <<weight, threshold>>

\* The five propose_* entrypoints.  eta and expires_at are fixed here.
ProposeChange(caller, c) ==
  /\ Len(changes) < MaxChanges
  /\ RequireNotLocked
  /\ RequireSigner(caller)
  /\ ValidateChange(c)
  /\ changes' = Append(changes,
       [change |-> c, proposed_at |-> now, eta |-> now + delay,
        expires_at |-> now + delay + Grace, executed |-> FALSE,
        cancelled |-> FALSE, window |-> delay])
  /\ UNCHANGED <<now, weight, threshold, pending, locked, delay, voting>>

\* Mutation of ChangeOpen: a vetoed change stays executable.
ChangeNotExecuted(p) == ~p.executed

ChangeOpen(p) == ~p.executed /\ ~p.cancelled

\* Mutation of Matured: the delay of today decides, not the one of the proposal.
MaturedUnderDelay(p) == now >= p.proposed_at + delay /\ now < p.expires_at

Matured(p) == now >= p.eta /\ now < p.expires_at

\* The change is validated once more, against the signers of now.
ExecuteThresholdChange(caller, id) ==
  /\ RequireNotLocked
  /\ RequireSigner(caller)
  /\ ChangeOpen(changes[id])
  /\ Matured(changes[id])
  /\ ValidateChange(changes[id].change)
  /\ ApplyChange(changes[id].change)
  /\ changes' = [changes EXCEPT ![id].executed = TRUE]
  /\ UNCHANGED <<now, pending, locked, voting>>

\* Any signer, at any time, under the emergency lock too.
CancelThresholdChange(caller, id) ==
  /\ RequireSigner(caller)
  /\ ChangeOpen(changes[id])
  /\ changes' = [changes EXCEPT ![id].cancelled = TRUE]
  /\ UNCHANGED <<now, weight, threshold, pending, locked, delay, voting>>

-----------------------------------------------------------------------------
(* Proposals and batches                                                    *)

IsMet(tally) == tally >= threshold

\* A sensitive action waits at least the time-lock delay.
UnlockAt(sensitive, asked) ==
  IF sensitive /\ asked < now + delay THEN now + delay ELSE asked

Propose(caller, sensitive, asked) ==
  /\ Len(proposals) < MaxProposals
  /\ RequireNotLocked
  /\ RequireSigner(caller)
  /\ proposals' = Append(proposals,
       [sensitive |-> sensitive, approval_weight |-> weight[caller],
        executed |-> FALSE, unlock_at |-> UnlockAt(sensitive, asked),
        proposed_at |-> now])
  /\ approvals' = Append(approvals, {caller})
  /\ UNCHANGED <<now, weight, threshold, pending, locked, delay, changes, lastNonce>>

\* The tally the proposal carries is the one its last caller saw.
Approve(caller, id) ==
  /\ RequireNotLocked
  /\ RequireSigner(caller)
  /\ ~proposals[id].executed
  /\ caller \notin approvals[id]
  /\ approvals' = [approvals EXCEPT ![id] = @ \cup {caller}]
  /\ proposals' = [proposals EXCEPT ![id].approval_weight =
                     WeightOf(weight, approvals[id] \cup {caller})]
  /\ UNCHANGED <<now, weight, threshold, pending, locked, delay, changes, lastNonce>>

Execute(caller, id) ==
  LET tally == LiveTally(id) IN
  /\ RequireNotLocked
  /\ RequireSigner(caller)
  /\ ~proposals[id].executed
  /\ IsMet(tally)
  /\ proposals[id].unlock_at # 0 => now >= proposals[id].unlock_at
  /\ proposals' = [proposals EXCEPT ![id].approval_weight = tally,
                                    ![id].executed = TRUE]
  /\ UNCHANGED <<now, weight, threshold, pending, locked, delay, changes,
                 approvals, lastNonce>>

\* The weight of the caller and the other signatories, each counted once.
AccumulateWeight(caller, signatories) == WeightOf(weight, signatories \cup {caller})

\* `backers` are the distinct approvers listed; every one must be a signer and
\* sign the batch.  A failing sub-call reverts the whole batch, nonce included.
ExecuteBatch(caller, nonce, backers) ==
  /\ RequireNotLocked
  /\ RequireSigner(caller)
  /\ Cardinality(backers) <= MaxSigners
  /\ nonce > lastNonce
  /\ backers \subseteq Signers
  /\ IsMet(AccumulateWeight(caller, backers))
  /\ lastNonce' = nonce
  /\ UNCHANGED <<now, weight, threshold, pending, locked, delay, changes,
                 proposals, approvals>>

-----------------------------------------------------------------------------
(* Specification                                                            *)

Tick ==
  /\ now < MaxTime
  /\ now' = now + 1
  /\ UNCHANGED <<weight, threshold, pending, locked, delay, changes, voting>>

Init ==
  /\ now = 0
  /\ weight = [a \in Addr |-> 0]
  /\ threshold = 0
  /\ pending = {}
  /\ locked = FALSE
  /\ delay = MinDelay
  /\ changes = <<>>
  /\ proposals = <<>>
  /\ approvals = <<>>
  /\ lastNonce = 0

Management(caller) ==
  \/ \E s \in Addr, w \in Weights : AddSigner(caller, s, w)
  \/ \E s \in Addr : RemoveSigner(caller, s)
  \/ \E th \in Thresholds : SetThreshold(caller, th)
  \/ FinalizeThreshold(caller)
  \/ \E on \in BOOLEAN : SetEmergencyLock(caller, on)

Governance(caller) ==
  \/ \E c \in Offers : ProposeChange(caller, c)
  \/ \E id \in 1..Len(changes) :
       ExecuteThresholdChange(caller, id) \/ CancelThresholdChange(caller, id)

Voting(caller) ==
  \/ \E sensitive \in BOOLEAN, asked \in Unlocks : Propose(caller, sensitive, asked)
  \/ \E id \in 1..Len(proposals) : Approve(caller, id) \/ Execute(caller, id)
  \/ \E nonce \in Nonces, backers \in SUBSET Addr : ExecuteBatch(caller, nonce, backers)

Next ==
  \/ Tick
  \/ \E w \in InitialWeights, th \in Thresholds : Initialize(w, th)
  \/ \E caller \in Addr : Management(caller) \/ Governance(caller) \/ Voting(caller)

Spec == Init /\ [][Next]_vars

-----------------------------------------------------------------------------
(* Properties                                                               *)

TypeOK ==
  /\ now \in Nat
  /\ weight \in [Addr -> 0..MaxWeight]
  /\ threshold \in Nat
  /\ pending \subseteq PendingThreshold
  /\ locked \in BOOLEAN
  /\ delay \in MinDelay..MaxDelay
  /\ changes \in Seq(PendingChange)
  /\ proposals \in Seq(MsProposal)
  /\ approvals \in Seq(SUBSET Addr)
  /\ Len(approvals) = Len(proposals)
  /\ lastNonce \in Nat

\* The multisig is never bricked: whatever immediate, delayed and time-locked
\* changes to signers, weights and threshold interleave, the signers together
\* still reach the threshold and their aggregate weight fits u32.
QuorumReachable ==
  threshold # 0 => /\ threshold >= MinThreshold
                   /\ threshold <= TotalWeight
                   /\ TotalWeight <= MaxWeight

\* A proposal executes only on the weight that the signers of that moment give
\* it: signers removed or re-weighted since they approved, and a threshold
\* raised since, are taken into account.  One that touches quorum or weights
\* has waited the shortest delay governance can set.
ExecutedByLiveQuorum ==
  [][\A id \in 1..Len(proposals) :
       proposals'[id].executed /\ ~proposals[id].executed =>
         /\ WeightOf(weight, approvals[id] \cap Signers) >= threshold
         /\ proposals[id].sensitive => now >= proposals[id].proposed_at + MinDelay]_vars

\* Everyone gets the review window that was in force when a change was
\* proposed, whatever happened to the delay since, and a change that nobody
\* vetoed takes effect within the grace period or never.
ReviewWindowKept ==
  [][\A id \in 1..Len(changes) :
       changes'[id].executed /\ ~changes[id].executed =>
         LET p == changes[id] IN
         /\ ~p.cancelled
         /\ now >= p.proposed_at + p.window
         /\ now < p.proposed_at + p.window + Grace]_vars

\* An executed or vetoed change and an executed proposal stay what they are:
\* no later call applies, revives, vetoes or re-executes them.
DecisionsAreFinal ==
  [][/\ \A id \in 1..Len(changes) :
          changes[id].executed \/ changes[id].cancelled => changes'[id] = changes[id]
     /\ \A id \in 1..Len(proposals) :
          proposals[id].executed =>
            proposals'[id] = proposals[id] /\ approvals'[id] = approvals[id]]_vars

Team == INSTANCE SignerSet

\* Whoever asks the multisig for signers and threshold, in any ledger, sees
\* them change only from one configuration that can reach its threshold to
\* another: this is all the proposal contract relies on.
ImplementsSignerSet == Team!Spec
=============================================================================
