--------------------------- MODULE MultisigProofs ---------------------------
(* Machine-checked proofs about Multisig, and about Proposal wired to it,   *)
(* for every value of their constants.                                      *)
EXTENDS GovernedProposals, FiniteSetTheorems, TLAPS

-----------------------------------------------------------------------------
(* Weights                                                                  *)

\* The votes of any set of accounts are finitely many.
LEMMA VotesFinite ==
  ASSUME NEW w, NEW S \in SUBSET Addr
  PROVE  IsFiniteSet(Votes(w, S)) /\ WeightOf(w, S) \in Nat
<1>1. IsFiniteSet(S)
  BY FS_Subset, SignersAssumption
<1>2. IsFiniteSet(1..MaxWeight)
  BY FS_Interval, SignersAssumption
<1>3. IsFiniteSet(S \X (1..MaxWeight))
  BY <1>1, <1>2, FS_Product
<1>4. Votes(w, S) \in SUBSET (S \X (1..MaxWeight))
  BY DEF Votes
<1>5. IsFiniteSet(Votes(w, S))
  BY <1>3, <1>4, FS_Subset
<1> QED
  BY <1>5, FS_CardinalityType DEF WeightOf

\* A signer of weight n casts n votes.
LEMMA VotesOfOne ==
  ASSUME NEW s, NEW n \in 0..MaxWeight
  PROVE  IsFiniteSet({s} \X (1..n)) /\ Cardinality({s} \X (1..n)) = n
<1>1. n \in Nat
  BY SignersAssumption
<1>2. IsFiniteSet(1..n) /\ Cardinality(1..n) = n
  BY <1>1, FS_Interval
<1>3. IsFiniteSet({s}) /\ Cardinality({s}) = 1
  BY FS_Singleton
<1>4. /\ IsFiniteSet({s} \X (1..n))
      /\ Cardinality({s} \X (1..n)) = Cardinality({s}) * Cardinality(1..n)
  BY <1>2, <1>3, FS_Product
<1> QED
  BY <1>1, <1>2, <1>3, <1>4

\* Taking one signer out of the count takes out its weight.
LEMMA WeightWithout ==
  ASSUME NEW w \in [Addr -> 0..MaxWeight], NEW s \in Addr
  PROVE  WeightOf(w, Addr) = WeightOf(w, Addr \ {s}) + w[s]
<1> DEFINE A == Votes(w, Addr \ {s})
           B == {s} \X (1..w[s])
<1>1. w[s] \in 0..MaxWeight /\ MaxWeight \in Nat
  BY SignersAssumption
<1>2. Votes(w, Addr) = A \cup B
  <2>1. ASSUME NEW v \in Votes(w, Addr) PROVE v \in A \cup B
    <3>1. v \in Addr \X (1..MaxWeight) /\ v[2] <= w[v[1]]
      BY DEF Votes
    <3>2. v = <<v[1], v[2]>> /\ v[1] \in Addr /\ v[2] \in 1..MaxWeight
      BY <3>1
    <3>3. CASE v[1] = s
      BY <1>1, <3>1, <3>2, <3>3
    <3>4. CASE v[1] # s
      BY <3>1, <3>2, <3>4 DEF Votes
    <3> QED
      BY <3>3, <3>4
  <2>2. ASSUME NEW v \in A PROVE v \in Votes(w, Addr)
    BY DEF Votes
  <2>3. ASSUME NEW v \in B PROVE v \in Votes(w, Addr)
    <3>1. v = <<v[1], v[2]>> /\ v[1] = s /\ v[2] \in 1..w[s]
      OBVIOUS
    <3> QED
      BY <1>1, <3>1 DEF Votes
  <2> QED
    BY <2>1, <2>2, <2>3
<1>3. A \cap B = {}
  BY DEF Votes
<1>4. IsFiniteSet(A) /\ Cardinality(A) \in Nat
  BY VotesFinite, FS_CardinalityType
<1>5. IsFiniteSet(B) /\ Cardinality(B) = w[s]
  BY <1>1, VotesOfOne
<1>6. Cardinality(A \cap B) = 0
  BY <1>3, FS_EmptySet
<1>7. Cardinality(A \cup B) = Cardinality(A) + Cardinality(B) - Cardinality(A \cap B)
  BY <1>4, <1>5, FS_Union
<1>8. Cardinality(A \cup B) = Cardinality(A) + w[s]
  <2> HIDE DEF A, B
  <2> QED
    BY <1>1, <1>4, <1>5, <1>6, <1>7
<1> QED
  BY <1>2, <1>8 DEF WeightOf

\* Changing one signer's weight changes the total by the difference.
LEMMA WeightUpdate ==
  ASSUME NEW w \in [Addr -> 0..MaxWeight], NEW s \in Addr, NEW n \in 0..MaxWeight
  PROVE  WeightOf([w EXCEPT ![s] = n], Addr) = WeightOf(w, Addr) - w[s] + n
<1> DEFINE u == [w EXCEPT ![s] = n]
<1>1. u \in [Addr -> 0..MaxWeight] /\ u[s] = n
  OBVIOUS
<1>2. Votes(u, Addr \ {s}) = Votes(w, Addr \ {s})
  <2>1. \A v \in (Addr \ {s}) \X (1..MaxWeight) : u[v[1]] = w[v[1]]
    OBVIOUS
  <2> QED
    BY <2>1 DEF Votes
<1>3. WeightOf(u, Addr \ {s}) = WeightOf(w, Addr \ {s})
  BY <1>2 DEF WeightOf
<1>4. WeightOf(u, Addr) = WeightOf(u, Addr \ {s}) + n
  BY <1>1, WeightWithout
<1>5. WeightOf(w, Addr) = WeightOf(w, Addr \ {s}) + w[s]
  BY WeightWithout
<1>6. WeightOf(w, Addr \ {s}) \in Nat /\ w[s] \in Nat /\ n \in Nat
  BY VotesFinite, SignersAssumption
<1> HIDE DEF u
<1>7. WeightOf(u, Addr) = WeightOf(w, Addr) - w[s] + n
  BY <1>3, <1>4, <1>5, <1>6
<1> QED
  BY <1>7 DEF u

\* Only signers have votes: counting the approvals of an address that was
\* removed since adds nothing.
LEMMA OnlySignersCount ==
  ASSUME weight \in [Addr -> 0..MaxWeight], NEW S \in SUBSET Addr
  PROVE  WeightOf(weight, S \cap Signers) = WeightOf(weight, S)
<1>1. ASSUME NEW v \in Votes(weight, S) PROVE v \in Votes(weight, S \cap Signers)
  <2>1. v[1] \in S /\ v[2] \in 1..MaxWeight /\ v[2] <= weight[v[1]]
        /\ v = <<v[1], v[2]>>
    BY DEF Votes
  <2>2. weight[v[1]] \in 0..MaxWeight /\ MaxWeight \in Nat
    BY <2>1, SignersAssumption
  <2>3. v[1] \in Signers
    BY <2>1, <2>2 DEF Signers
  <2> QED
    BY <2>1, <2>3 DEF Votes
<1>2. ASSUME NEW v \in Votes(weight, S \cap Signers) PROVE v \in Votes(weight, S)
  BY DEF Votes
<1>3. Votes(weight, S \cap Signers) = Votes(weight, S)
  BY <1>1, <1>2
<1> QED
  BY <1>3 DEF WeightOf

-----------------------------------------------------------------------------
(* The invariant                                                            *)

\* QuorumReachable is not inductive: nothing in it bounds the total weight
\* before initialize, and it needs the types.  A change's clocks are the ones
\* of the moment it was proposed.
ClocksFixed ==
  \A id \in 1..Len(changes) :
    /\ changes[id].eta = changes[id].proposed_at + changes[id].window
    /\ changes[id].expires_at = changes[id].proposed_at + changes[id].window + Grace

\* A proposal that touches quorum or weights unlocks after the shortest delay.
SensitiveUnlockLater ==
  \A id \in 1..Len(proposals) :
    proposals[id].sensitive => proposals[id].unlock_at >= proposals[id].proposed_at + MinDelay

WeightFits == TotalWeight <= MaxWeight

Quorate == threshold # 0 => threshold >= MinThreshold /\ threshold <= TotalWeight

GovernanceInv == TypeOK /\ WeightFits /\ Quorate

FullInv == GovernanceInv /\ ClocksFixed /\ SensitiveUnlockLater

\* Init establishes the invariant: without signers there are no votes.
LEMMA GovernanceInit == Init => GovernanceInv
<1> SUFFICES ASSUME Init PROVE GovernanceInv
  OBVIOUS
<1> USE SignersAssumption, TimeAssumption
<1>1. Votes(weight, Addr) = {}
  BY DEF Votes, Init
<1>2. TotalWeight = 0
  BY <1>1, FS_EmptySet DEF TotalWeight, WeightOf
<1>3. TypeOK
  <2>1. <<>> \in Seq(PendingChange) /\ <<>> \in Seq(MsProposal) /\ <<>> \in Seq(SUBSET Addr)
    OBVIOUS
  <2>2. weight \in [Addr -> 0..MaxWeight]
    BY DEF Init
  <2>3. delay \in MinDelay..MaxDelay
    BY DEF Init
  <2> QED
    BY <2>1, <2>2, <2>3 DEF Init, TypeOK
<1> QED
  BY <1>2, <1>3 DEF Init, GovernanceInv, WeightFits, Quorate

\* Giving signer s the weight n keeps a quorum within reach when the new total
\* still covers the threshold and still fits.
LEMMA WeightChange ==
  ASSUME GovernanceInv, NEW s \in Addr, NEW n \in Nat,
         TotalWeight - weight[s] + n >= threshold,
         TotalWeight - weight[s] + n <= MaxWeight,
         weight' = [weight EXCEPT ![s] = n], threshold' = threshold
  PROVE  weight' \in [Addr -> 0..MaxWeight] /\ WeightFits' /\ Quorate'
<1>1. weight \in [Addr -> 0..MaxWeight] /\ threshold \in Nat /\ MaxWeight \in Nat
  BY SignersAssumption DEF GovernanceInv, TypeOK
<1>2. TotalWeight = WeightOf(weight, Addr \ {s}) + weight[s]
  BY <1>1, WeightWithout DEF TotalWeight
<1>3. WeightOf(weight, Addr \ {s}) \in Nat /\ weight[s] \in Nat
  BY <1>1, VotesFinite
<1>4. n \in 0..MaxWeight
  BY <1>1, <1>2, <1>3
<1>5. TotalWeight' = TotalWeight - weight[s] + n
  BY <1>1, <1>4, WeightUpdate DEF TotalWeight
<1>6. weight' \in [Addr -> 0..MaxWeight]
  BY <1>1, <1>4
<1> QED
  BY <1>1, <1>5, <1>6 DEF GovernanceInv, WeightFits, Quorate

\* What CanAdd, CanRemove and CanReweigh check is what WeightChange needs.
LEMMA GuardsSuffice ==
  ASSUME GovernanceInv, NEW s \in Addr
  PROVE  /\ \A n \in Nat : CanAdd(s, n) =>
              /\ TotalWeight - weight[s] + n >= threshold
              /\ TotalWeight - weight[s] + n <= MaxWeight
         /\ CanRemove(s) =>
              /\ TotalWeight - weight[s] + 0 >= threshold
              /\ TotalWeight - weight[s] + 0 <= MaxWeight
         /\ \A n \in Nat : CanReweigh(s, n) =>
              /\ TotalWeight - weight[s] + n >= threshold
              /\ TotalWeight - weight[s] + n <= MaxWeight
<1>1. /\ TotalWeight \in Nat /\ weight[s] \in Nat
      /\ threshold \in Nat /\ MaxWeight \in Nat /\ MinThreshold \in Nat
  BY VotesFinite, SignersAssumption DEF TotalWeight, GovernanceInv, TypeOK
<1>2. threshold <= TotalWeight /\ TotalWeight <= MaxWeight
  BY <1>1 DEF GovernanceInv, Quorate, WeightFits
<1> QED
  BY <1>1, <1>2 DEF CanAdd, CanRemove, CanReweigh

\* A threshold that validates against the current total keeps it in reach.
LEMMA ThresholdChange ==
  ASSUME GovernanceInv, NEW th \in Nat, ValidThreshold(th, TotalWeight),
         threshold' = th, weight' = weight
  PROVE  WeightFits' /\ Quorate'
<1>1. TotalWeight' = TotalWeight
  BY DEF TotalWeight, WeightOf, Votes
<1> QED
  BY <1>1 DEF GovernanceInv, WeightFits, Quorate, ValidThreshold

\* A step that leaves weights and threshold alone keeps a quorum in reach.
LEMMA QuorumUntouched ==
  ASSUME GovernanceInv, weight' = weight, threshold' = threshold
  PROVE  WeightFits' /\ Quorate'
<1>1. TotalWeight' = TotalWeight
  BY DEF TotalWeight, WeightOf, Votes
<1> QED
  BY <1>1 DEF GovernanceInv, WeightFits, Quorate

\* Management of signers, threshold and lock preserves the invariant.
LEMMA ManagementStep ==
  ASSUME FullInv, NEW caller \in Addr, Management(caller)
  PROVE  FullInv'
<1> USE SignersAssumption, ArgumentsAssumption DEF FullInv
<1>1. ASSUME NEW s \in Addr, NEW w \in Weights, AddSigner(caller, s, w) PROVE FullInv'
  <2>1. weight' \in [Addr -> 0..MaxWeight] /\ WeightFits' /\ Quorate'
    BY <1>1, GuardsSuffice, WeightChange DEF AddSigner
  <2> QED
    BY <1>1, <2>1
    DEF AddSigner, voting, GovernanceInv, TypeOK, ClocksFixed, SensitiveUnlockLater
<1>2. ASSUME NEW s \in Addr, RemoveSigner(caller, s) PROVE FullInv'
  <2>1. weight' \in [Addr -> 0..MaxWeight] /\ WeightFits' /\ Quorate'
    BY <1>2, GuardsSuffice, WeightChange DEF RemoveSigner
  <2> QED
    BY <1>2, <2>1
    DEF RemoveSigner, voting, GovernanceInv, TypeOK, ClocksFixed, SensitiveUnlockLater
<1>3. ASSUME NEW th \in Thresholds, SetThreshold(caller, th) PROVE FullInv'
  <2>1. WeightFits' /\ Quorate'
    BY <1>3, QuorumUntouched DEF SetThreshold
  <2> QED
    BY <1>3, <2>1, SMTT(30)
       DEF SetThreshold, voting, GovernanceInv, TypeOK, PendingThreshold,
           ClocksFixed, SensitiveUnlockLater
<1>4. ASSUME FinalizeThreshold(caller) PROVE FullInv'
  <2>1. PICK p \in pending :
          /\ ValidThreshold(p.new_threshold, TotalWeight)
          /\ threshold' = p.new_threshold
          /\ pending' = {}
          /\ UNCHANGED <<now, weight, locked, delay, changes, voting>>
    BY <1>4 DEF FinalizeThreshold
  <2>2. p.new_threshold \in Nat
    BY DEF GovernanceInv, TypeOK, PendingThreshold
  <2>3. WeightFits' /\ Quorate'
    BY <2>1, <2>2, ThresholdChange
  <2> QED
    BY <2>1, <2>2, <2>3 DEF voting, GovernanceInv, TypeOK, ClocksFixed, SensitiveUnlockLater
<1>5. ASSUME NEW on \in BOOLEAN, SetEmergencyLock(caller, on) PROVE FullInv'
  <2>1. WeightFits' /\ Quorate'
    BY <1>5, QuorumUntouched DEF SetEmergencyLock
  <2> QED
    BY <1>5, <2>1
    DEF SetEmergencyLock, voting, GovernanceInv, TypeOK, ClocksFixed, SensitiveUnlockLater
<1> QED
  BY <1>1, <1>2, <1>3, <1>4, <1>5 DEF Management

\* Marking a change executed or vetoed keeps its type and its clocks.
LEMMA DecideChange ==
  ASSUME NEW p \in PendingChange
  PROVE  /\ [p EXCEPT !.executed = TRUE] \in PendingChange
         /\ [p EXCEPT !.cancelled = TRUE] \in PendingChange
  BY DEF PendingChange

\* A change that validates against the signers of now keeps a quorum in reach.
LEMMA ChangeApplied ==
  ASSUME GovernanceInv, NEW c \in GovernanceChange, ValidateChange(c), ApplyChange(c)
  PROVE  /\ weight' \in [Addr -> 0..MaxWeight]
         /\ threshold' \in Nat
         /\ delay' \in MinDelay..MaxDelay
         /\ WeightFits'
         /\ Quorate'
<1>1. /\ weight \in [Addr -> 0..MaxWeight]
      /\ threshold \in Nat
      /\ delay \in MinDelay..MaxDelay
  BY DEF GovernanceInv, TypeOK
<1>2. CASE c.kind = "Threshold"
  <2>1. c.value \in Nat /\ ValidThreshold(c.value, TotalWeight)
        /\ threshold' = c.value /\ weight' = weight /\ delay' = delay
    BY <1>2 DEF GovernanceChange, ValidateChange, ApplyChange
  <2> QED
    BY <1>1, <2>1, ThresholdChange
<1>3. CASE c.kind \in {"SignerWeight", "AddSigner"}
  <2>1. /\ c.value \in Nat /\ c.signer \in Addr
        /\ CanReweigh(c.signer, c.value) \/ CanAdd(c.signer, c.value)
        /\ weight' = [weight EXCEPT ![c.signer] = c.value]
        /\ threshold' = threshold /\ delay' = delay
    BY <1>3 DEF GovernanceChange, ValidateChange, ApplyChange
  <2> QED
    BY <1>1, <2>1, GuardsSuffice, WeightChange
<1>4. CASE c.kind = "RemoveSigner"
  <2>1. /\ c.signer \in Addr
        /\ CanRemove(c.signer)
        /\ weight' = [weight EXCEPT ![c.signer] = 0]
        /\ threshold' = threshold /\ delay' = delay
    BY <1>4 DEF GovernanceChange, ValidateChange, ApplyChange
  <2> QED
    BY <1>1, <2>1, GuardsSuffice, WeightChange
<1>5. CASE c.kind = "TimelockDelay"
  <2>1. c.value \in MinDelay..MaxDelay
        /\ delay' = c.value /\ weight' = weight /\ threshold' = threshold
    BY <1>5 DEF GovernanceChange, ValidateChange, ApplyChange
  <2> QED
    BY <1>1, <2>1, QuorumUntouched
<1> QED
  BY <1>2, <1>3, <1>4, <1>5 DEF ValidateChange

\* The time-locked governance path preserves the invariant.
LEMMA GovernanceStep ==
  ASSUME FullInv, NEW caller \in Addr, Governance(caller)
  PROVE  FullInv'
<1> USE SignersAssumption, TimeAssumption, OffersAssumption DEF FullInv
<1>1. changes \in Seq(PendingChange) /\ now \in Nat /\ delay \in Nat
  BY DEF GovernanceInv, TypeOK
<1>2. ASSUME NEW c \in Offers, ProposeChange(caller, c) PROVE FullInv'
  <2> DEFINE p == [change |-> c, proposed_at |-> now, eta |-> now + delay,
                   expires_at |-> now + delay + Grace, executed |-> FALSE,
                   cancelled |-> FALSE, window |-> delay]
  <2>1. p \in PendingChange
    BY <1>1 DEF PendingChange
  <2>2. changes' = Append(changes, p)
        /\ UNCHANGED <<now, weight, threshold, pending, locked, delay, voting>>
    BY <1>2 DEF ProposeChange
  <2>3. p.eta = p.proposed_at + p.window /\ p.expires_at = p.proposed_at + p.window + Grace
    BY <1>1
  <2>4. ClocksFixed'
    <3> HIDE DEF p
    <3> QED
      BY <1>1, <2>1, <2>2, <2>3 DEF ClocksFixed
  <2>5. changes' \in Seq(PendingChange)
    BY <1>1, <2>1, <2>2
  <2>6. WeightFits' /\ Quorate'
    BY <2>2, QuorumUntouched
  <2> QED
    BY <2>2, <2>4, <2>5, <2>6 DEF voting, GovernanceInv, TypeOK, SensitiveUnlockLater
<1>3. ASSUME NEW id \in 1..Len(changes), NEW q \in PendingChange,
             q.eta = changes[id].eta, q.expires_at = changes[id].expires_at,
             q.proposed_at = changes[id].proposed_at, q.window = changes[id].window,
             changes' = [changes EXCEPT ![id] = q]
      PROVE  changes' \in Seq(PendingChange) /\ ClocksFixed'
  BY <1>1, <1>3 DEF ClocksFixed
<1>4. ASSUME NEW id \in 1..Len(changes), ExecuteThresholdChange(caller, id) PROVE FullInv'
  <2> DEFINE q == [changes[id] EXCEPT !.executed = TRUE]
  <2>1. changes[id] \in PendingChange
    BY <1>1
  <2>2. q \in PendingChange /\ q.eta = changes[id].eta /\ q.expires_at = changes[id].expires_at
        /\ q.proposed_at = changes[id].proposed_at /\ q.window = changes[id].window
    BY <2>1, DecideChange DEF PendingChange
  <2>3. changes' = [changes EXCEPT ![id] = q]
        /\ UNCHANGED <<now, pending, locked, voting>>
    BY <1>4 DEF ExecuteThresholdChange
  <2>4. changes' \in Seq(PendingChange) /\ ClocksFixed'
    <3> HIDE DEF q
    <3> QED
      BY <1>3, <2>2, <2>3
  <2>5. changes[id].change \in GovernanceChange
    BY <2>1 DEF PendingChange
  <2>6. /\ weight' \in [Addr -> 0..MaxWeight] /\ threshold' \in Nat
        /\ delay' \in MinDelay..MaxDelay /\ WeightFits' /\ Quorate'
    BY <1>4, <2>5, ChangeApplied DEF ExecuteThresholdChange
  <2> QED
    BY <2>3, <2>4, <2>6 DEF voting, GovernanceInv, TypeOK, SensitiveUnlockLater
<1>5. ASSUME NEW id \in 1..Len(changes), CancelThresholdChange(caller, id) PROVE FullInv'
  <2> DEFINE q == [changes[id] EXCEPT !.cancelled = TRUE]
  <2>1. changes[id] \in PendingChange
    BY <1>1
  <2>2. q \in PendingChange /\ q.eta = changes[id].eta /\ q.expires_at = changes[id].expires_at
        /\ q.proposed_at = changes[id].proposed_at /\ q.window = changes[id].window
    BY <2>1, DecideChange DEF PendingChange
  <2>3. changes' = [changes EXCEPT ![id] = q]
        /\ UNCHANGED <<now, weight, threshold, pending, locked, delay, voting>>
    BY <1>5 DEF CancelThresholdChange
  <2>4. changes' \in Seq(PendingChange) /\ ClocksFixed'
    <3> HIDE DEF q
    <3> QED
      BY <1>3, <2>2, <2>3
  <2>5. WeightFits' /\ Quorate'
    BY <2>3, QuorumUntouched
  <2> QED
    BY <2>3, <2>4, <2>5 DEF voting, GovernanceInv, TypeOK, SensitiveUnlockLater
<1> QED
  BY <1>2, <1>4, <1>5 DEF Governance

\* Proposals and batches preserve the invariant.
LEMMA VotingStep ==
  ASSUME FullInv, NEW caller \in Addr, Voting(caller)
  PROVE  FullInv'
<1> USE SignersAssumption, TimeAssumption, ArgumentsAssumption DEF FullInv
<1>1. /\ proposals \in Seq(MsProposal) /\ approvals \in Seq(SUBSET Addr)
      /\ Len(approvals) = Len(proposals)
      /\ now \in Nat /\ delay \in Nat /\ delay >= MinDelay
      /\ weight \in [Addr -> 0..MaxWeight]
  BY DEF GovernanceInv, TypeOK
<1>2. ASSUME NEW sensitive \in BOOLEAN, NEW asked \in Unlocks,
             Propose(caller, sensitive, asked)
      PROVE  FullInv'
  <2> DEFINE p == [sensitive |-> sensitive, approval_weight |-> weight[caller],
                   executed |-> FALSE, unlock_at |-> UnlockAt(sensitive, asked),
                   proposed_at |-> now]
  <2>1. UnlockAt(sensitive, asked) \in Nat
        /\ (sensitive => UnlockAt(sensitive, asked) >= now + MinDelay)
    BY <1>1 DEF UnlockAt
  <2>2. p \in MsProposal
    <3>1. weight[caller] \in Nat
      BY <1>1
    <3> QED
      BY <1>1, <2>1, <3>1 DEF MsProposal
  <2>3. p.sensitive => p.unlock_at >= p.proposed_at + MinDelay
    BY <2>1
  <2>4. /\ proposals' = Append(proposals, p)
        /\ approvals' = Append(approvals, {caller})
        /\ UNCHANGED <<now, weight, threshold, pending, locked, delay, changes, lastNonce>>
    BY <1>2 DEF Propose
  <2>5. /\ proposals' \in Seq(MsProposal)
        /\ approvals' \in Seq(SUBSET Addr)
        /\ Len(approvals') = Len(proposals')
    <3> HIDE DEF p
    <3> QED
      BY <1>1, <2>2, <2>4
  <2>6. SensitiveUnlockLater'
    <3> HIDE DEF p
    <3> QED
      BY <1>1, <2>2, <2>3, <2>4 DEF SensitiveUnlockLater
  <2>7. WeightFits' /\ Quorate'
    BY <2>4, QuorumUntouched
  <2> QED
    BY <2>4, <2>5, <2>6, <2>7 DEF GovernanceInv, TypeOK, ClocksFixed
<1>3. ASSUME NEW id \in 1..Len(proposals), NEW q \in MsProposal,
             q.sensitive = proposals[id].sensitive, q.unlock_at = proposals[id].unlock_at,
             q.proposed_at = proposals[id].proposed_at,
             proposals' = [proposals EXCEPT ![id] = q]
      PROVE  /\ proposals' \in Seq(MsProposal)
             /\ Len(proposals') = Len(proposals)
             /\ SensitiveUnlockLater'
  BY <1>1, <1>3 DEF SensitiveUnlockLater
<1>4. ASSUME NEW id \in 1..Len(proposals), Approve(caller, id) PROVE FullInv'
  <2> DEFINE tally == WeightOf(weight, approvals[id] \cup {caller})
             q == [proposals[id] EXCEPT !.approval_weight = tally]
  <2>1. proposals[id] \in MsProposal /\ approvals[id] \cup {caller} \in SUBSET Addr
    BY <1>1
  <2>2. tally \in Nat
    BY <2>1, VotesFinite
  <2>3. /\ approvals' = [approvals EXCEPT ![id] = @ \cup {caller}]
        /\ proposals' = [proposals EXCEPT ![id] = q]
        /\ UNCHANGED <<now, weight, threshold, pending, locked, delay, changes, lastNonce>>
    BY <1>4 DEF Approve
  <2>4. q \in MsProposal /\ q.sensitive = proposals[id].sensitive
        /\ q.unlock_at = proposals[id].unlock_at /\ q.proposed_at = proposals[id].proposed_at
    <3> HIDE DEF tally
    <3> QED
      BY <2>1, <2>2 DEF MsProposal
  <2>5. proposals' \in Seq(MsProposal) /\ Len(proposals') = Len(proposals)
        /\ SensitiveUnlockLater'
    <3> HIDE DEF q
    <3> QED
      BY <1>3, <2>3, <2>4
  <2>6. approvals' \in Seq(SUBSET Addr) /\ Len(approvals') = Len(approvals)
    BY <1>1, <2>1, <2>3
  <2>7. WeightFits' /\ Quorate'
    BY <2>3, QuorumUntouched
  <2> QED
    BY <1>1, <2>3, <2>5, <2>6, <2>7 DEF GovernanceInv, TypeOK, ClocksFixed
<1>5. ASSUME NEW id \in 1..Len(proposals), Execute(caller, id) PROVE FullInv'
  <2> DEFINE tally == LiveTally(id)
             q == [proposals[id] EXCEPT !.approval_weight = tally, !.executed = TRUE]
  <2>1. proposals[id] \in MsProposal /\ approvals[id] \in SUBSET Addr
    BY <1>1
  <2>2. tally \in Nat
    BY <2>1, VotesFinite DEF LiveTally
  <2>3. /\ proposals' = [proposals EXCEPT ![id] = q]
        /\ UNCHANGED <<now, weight, threshold, pending, locked, delay, changes,
                       approvals, lastNonce>>
    BY <1>5 DEF Execute
  <2>4. q \in MsProposal /\ q.sensitive = proposals[id].sensitive
        /\ q.unlock_at = proposals[id].unlock_at /\ q.proposed_at = proposals[id].proposed_at
    <3> HIDE DEF tally
    <3> QED
      BY <2>1, <2>2 DEF MsProposal
  <2>5. proposals' \in Seq(MsProposal) /\ Len(proposals') = Len(proposals)
        /\ SensitiveUnlockLater'
    <3> HIDE DEF q
    <3> QED
      BY <1>3, <2>3, <2>4
  <2>6. WeightFits' /\ Quorate'
    BY <2>3, QuorumUntouched
  <2> QED
    BY <1>1, <2>3, <2>5, <2>6 DEF GovernanceInv, TypeOK, ClocksFixed
<1>6. ASSUME NEW nonce \in Nonces, NEW backers \in SUBSET Addr,
             ExecuteBatch(caller, nonce, backers)
      PROVE  FullInv'
  <2>1. WeightFits' /\ Quorate'
    BY <1>6, QuorumUntouched DEF ExecuteBatch
  <2> QED
    BY <1>6, <2>1
    DEF ExecuteBatch, GovernanceInv, TypeOK, ClocksFixed, SensitiveUnlockLater
<1> QED
  BY <1>2, <1>4, <1>5, <1>6 DEF Voting

\* Every step preserves the invariant.
LEMMA FullStep == FullInv /\ [Next]_vars => FullInv'
<1> SUFFICES ASSUME FullInv, [Next]_vars PROVE FullInv'
  OBVIOUS
<1> USE SignersAssumption, ArgumentsAssumption DEF FullInv
<1>1. CASE Tick
  <2>1. WeightFits' /\ Quorate'
    BY <1>1, QuorumUntouched DEF Tick
  <2>2. now' \in Nat
        /\ UNCHANGED <<weight, threshold, pending, locked, delay, changes,
                       proposals, approvals, lastNonce>>
    BY <1>1 DEF Tick, voting, GovernanceInv, TypeOK
  <2>3. TypeOK'
    BY <2>2 DEF GovernanceInv, TypeOK
  <2> QED
    BY <2>1, <2>2, <2>3 DEF GovernanceInv, ClocksFixed, SensitiveUnlockLater
<1>2. ASSUME NEW w \in InitialWeights, NEW th \in Thresholds, Initialize(w, th)
      PROVE  FullInv'
  <2>1. TotalWeight' = WeightOf(w, Addr)
    BY <1>2 DEF Initialize, TotalWeight
  <2>2. WeightFits' /\ Quorate'
    BY <1>2, <2>1 DEF Initialize, ValidThreshold, WeightFits, Quorate
  <2> QED
    BY <1>2, <2>2
    DEF Initialize, voting, GovernanceInv, TypeOK, ClocksFixed, SensitiveUnlockLater
<1>3. ASSUME NEW caller \in Addr, Management(caller) \/ Governance(caller) \/ Voting(caller)
      PROVE  FullInv'
  BY <1>3, ManagementStep, GovernanceStep, VotingStep
<1>4. CASE UNCHANGED vars
  <2>1. WeightFits' /\ Quorate'
    BY <1>4, QuorumUntouched DEF vars
  <2> QED
    BY <1>4, <2>1 DEF vars, GovernanceInv, TypeOK, ClocksFixed, SensitiveUnlockLater
<1> QED
  BY <1>1, <1>2, <1>3, <1>4 DEF Next

\* The invariant holds throughout.
LEMMA FullInvariant == Spec => []FullInv
<1>1. Init => FullInv
  BY GovernanceInit DEF Init, FullInv, ClocksFixed, SensitiveUnlockLater
<1> QED
  BY <1>1, FullStep, PTL DEF Spec

-----------------------------------------------------------------------------
(* Results                                                                  *)

\* Every reachable state is well typed; in particular no governance path moves
\* the time-lock delay out of [MIN_TIMELOCK_DELAY, MAX_TIMELOCK_DELAY].
THEOREM MultisigTypeCorrect == Spec => []TypeOK
<1>1. FullInv => TypeOK
  BY DEF FullInv, GovernanceInv
<1> QED
  BY <1>1, FullInvariant, PTL

\* No interleaving of immediate, delayed and time-locked changes bricks the
\* multisig: its signers together reach the threshold, and the aggregate
\* weight that every later check recomputes fits u32.
THEOREM NeverBricked == Spec => []QuorumReachable
<1>1. FullInv => QuorumReachable
  BY DEF FullInv, GovernanceInv, WeightFits, Quorate, QuorumReachable
<1> QED
  BY <1>1, FullInvariant, PTL

\* Whatever flips a proposal to executed is a call of execute.
LEMMA OnlyExecuteExecutes ==
  ASSUME FullInv, [Next]_vars, NEW id \in 1..Len(proposals),
         proposals'[id].executed, ~proposals[id].executed
  PROVE  \E caller \in Addr : Execute(caller, id)
<1>1. proposals \in Seq(MsProposal)
  BY DEF FullInv, GovernanceInv, TypeOK
<1>2. proposals' # proposals
  OBVIOUS
<1>3. PICK caller \in Addr : Voting(caller)
  <2>1. ~Tick /\ ~UNCHANGED vars
    BY <1>2 DEF Tick, vars, voting
  <2>2. \A w, th : ~Initialize(w, th)
    BY <1>2 DEF Initialize, voting
  <2>3. \A c : ~Management(c)
    BY <1>2 DEF Management, AddSigner, RemoveSigner, SetThreshold, FinalizeThreshold,
                SetEmergencyLock, voting
  <2>4. \A c : ~Governance(c)
    BY <1>2 DEF Governance, ProposeChange, ExecuteThresholdChange, CancelThresholdChange,
                voting
  <2> QED
    BY <2>1, <2>2, <2>3, <2>4 DEF Next
<1>4. \A sensitive, asked : ~Propose(caller, sensitive, asked)
  <2> SUFFICES ASSUME NEW sensitive, NEW asked, Propose(caller, sensitive, asked)
               PROVE  FALSE
    OBVIOUS
  <2>1. \E p : proposals' = Append(proposals, p)
    BY DEF Propose
  <2>2. proposals'[id] = proposals[id]
    BY <1>1, <2>1
  <2> QED
    BY <2>2
<1>5. \A nonce, backers : ~ExecuteBatch(caller, nonce, backers)
  BY <1>2 DEF ExecuteBatch
<1>6. PICK j \in 1..Len(proposals) : Approve(caller, j) \/ Execute(caller, j)
  BY <1>3, <1>4, <1>5 DEF Voting
<1>7. ~Approve(caller, j)
  <2> SUFFICES ASSUME Approve(caller, j) PROVE FALSE
    OBVIOUS
  <2>1. proposals[id] \in MsProposal /\ proposals[j] \in MsProposal
    BY <1>1
  <2>2. PICK tally : proposals' = [proposals EXCEPT ![j].approval_weight = tally]
    BY DEF Approve
  <2> DEFINE q == [proposals[j] EXCEPT !.approval_weight = tally]
  <2>3. q.executed = proposals[j].executed
    BY <2>1 DEF MsProposal
  <2>4. proposals'[id] = IF id = j THEN q ELSE proposals[id]
    BY <1>1, <2>2
  <2>5. proposals'[id].executed = proposals[id].executed
    <3> HIDE DEF q
    <3> QED
      BY <2>3, <2>4
  <2> QED
    BY <2>5
<1>8. j = id
  <2>1. \E q : proposals' = [proposals EXCEPT ![j] = q]
    BY <1>6, <1>7 DEF Execute
  <2> QED
    BY <1>1, <2>1
<1> QED
  BY <1>6, <1>7, <1>8

\* A proposal is executed only on a quorum of the signers of that moment, by
\* the weights and the threshold of that moment, and after its time-lock.
THEOREM LiveQuorum == Spec => ExecutedByLiveQuorum
<1> DEFINE Duly ==
      \A id \in 1..Len(proposals) :
        proposals'[id].executed /\ ~proposals[id].executed =>
          /\ WeightOf(weight, approvals[id] \cap Signers) >= threshold
          /\ proposals[id].sensitive => now >= proposals[id].proposed_at + MinDelay
<1>1. FullInv /\ [Next]_vars => [Duly]_vars
  <2> SUFFICES ASSUME FullInv, [Next]_vars, NEW id \in 1..Len(proposals),
                      proposals'[id].executed, ~proposals[id].executed
               PROVE  /\ WeightOf(weight, approvals[id] \cap Signers) >= threshold
                      /\ proposals[id].sensitive => now >= proposals[id].proposed_at + MinDelay
    OBVIOUS
  <2>1. PICK caller \in Addr : Execute(caller, id)
    BY OnlyExecuteExecutes
  <2>2. /\ approvals[id] \in SUBSET Addr /\ proposals[id] \in MsProposal
        /\ weight \in [Addr -> 0..MaxWeight] /\ now \in Nat
    BY DEF FullInv, GovernanceInv, TypeOK
  <2>3. WeightOf(weight, approvals[id]) >= threshold
    BY <2>1 DEF Execute, IsMet, LiveTally
  <2>4. WeightOf(weight, approvals[id] \cap Signers) = WeightOf(weight, approvals[id])
    BY <2>2, OnlySignersCount
  <2>5. ASSUME proposals[id].sensitive PROVE now >= proposals[id].proposed_at + MinDelay
    <3>1. proposals[id].unlock_at >= proposals[id].proposed_at + MinDelay
      BY <2>5 DEF FullInv, SensitiveUnlockLater
    <3>2. proposals[id].unlock_at # 0 => now >= proposals[id].unlock_at
      BY <2>1 DEF Execute
    <3> QED
      BY <2>2, <3>1, <3>2, TimeAssumption DEF MsProposal
  <2> QED
    BY <2>3, <2>4, <2>5
<1>2. Spec => [][Duly]_vars
  BY <1>1, FullInvariant, PTL DEF Spec
<1> QED
  BY <1>2 DEF ExecutedByLiveQuorum

\* A step leaves the changes alone, appends one, or marks one open change
\* executed (once matured) or vetoed.
LEMMA ChangesStep ==
  ASSUME FullInv, [Next]_vars
  PROVE  \/ changes' = changes
         \/ \E p : changes' = Append(changes, p)
         \/ \E j \in 1..Len(changes) :
              /\ ChangeOpen(changes[j])
              /\ \/ /\ Matured(changes[j])
                    /\ changes' = [changes EXCEPT ![j].executed = TRUE]
                 \/ changes' = [changes EXCEPT ![j].cancelled = TRUE]
<1>1. CASE Tick \/ UNCHANGED vars
  BY <1>1 DEF Tick, vars
<1>2. ASSUME NEW w, NEW th, Initialize(w, th) PROVE changes' = changes
  BY <1>2 DEF Initialize
<1>3. ASSUME NEW caller, Management(caller) PROVE changes' = changes
  BY <1>3 DEF Management, AddSigner, RemoveSigner, SetThreshold, FinalizeThreshold,
              SetEmergencyLock
<1>4. ASSUME NEW caller, Voting(caller) PROVE changes' = changes
  BY <1>4 DEF Voting, Propose, Approve, Execute, ExecuteBatch
<1>5. ASSUME NEW caller, NEW c, ProposeChange(caller, c)
      PROVE  \E p : changes' = Append(changes, p)
  BY <1>5 DEF ProposeChange
<1>6. ASSUME NEW caller, NEW j \in 1..Len(changes),
             ExecuteThresholdChange(caller, j) \/ CancelThresholdChange(caller, j)
      PROVE  /\ ChangeOpen(changes[j])
             /\ \/ /\ Matured(changes[j])
                   /\ changes' = [changes EXCEPT ![j].executed = TRUE]
                \/ changes' = [changes EXCEPT ![j].cancelled = TRUE]
  BY <1>6 DEF ExecuteThresholdChange, CancelThresholdChange
<1> QED
  BY <1>1, <1>2, <1>3, <1>4, <1>5, <1>6 DEF Next, Governance

\* Whoever shortens or lengthens the delay meanwhile, a change takes effect
\* only after the review window of its proposal, before its grace period ends
\* and if nobody vetoed it.
THEOREM ReviewWindow == Spec => ReviewWindowKept
<1> DEFINE Reviewed(p) == /\ ~p.cancelled
                          /\ now >= p.proposed_at + p.window
                          /\ now < p.proposed_at + p.window + Grace
           Kept == \A id \in 1..Len(changes) :
                     changes'[id].executed /\ ~changes[id].executed => Reviewed(changes[id])
<1>1. FullInv /\ [Next]_vars => [Kept]_vars
  <2> SUFFICES ASSUME FullInv, [Next]_vars, NEW id \in 1..Len(changes),
                      changes'[id].executed, ~changes[id].executed
               PROVE  Reviewed(changes[id])
    OBVIOUS
  <2>1. changes \in Seq(PendingChange)
    BY DEF FullInv, GovernanceInv, TypeOK
  <2>2. changes[id] \in PendingChange
    BY <2>1
  <2>3. ~ \E p : changes' = Append(changes, p)
    BY <2>1
  <2>4. PICK j \in 1..Len(changes) :
          /\ ChangeOpen(changes[j])
          /\ \/ /\ Matured(changes[j])
                /\ changes' = [changes EXCEPT ![j].executed = TRUE]
             \/ changes' = [changes EXCEPT ![j].cancelled = TRUE]
    BY <2>3, ChangesStep
  <2>5. \E q : changes' = [changes EXCEPT ![j] = q]
    BY <2>4
  <2>6. j = id
    BY <2>1, <2>5
  <2>7. changes' # [changes EXCEPT ![j].cancelled = TRUE]
    <3> SUFFICES ASSUME changes' = [changes EXCEPT ![j].cancelled = TRUE] PROVE FALSE
      OBVIOUS
    <3> DEFINE q == [changes[j] EXCEPT !.cancelled = TRUE]
    <3>1. q.executed = changes[j].executed
      BY <2>2, <2>6 DEF PendingChange
    <3>2. changes' = [changes EXCEPT ![j] = q]
      OBVIOUS
    <3> HIDE DEF q
    <3>3. changes'[j] = q
      BY <2>1, <3>2
    <3> QED
      BY <2>6, <3>1, <3>3
  <2>8. ~changes[id].cancelled /\ Matured(changes[id])
    BY <2>4, <2>6, <2>7 DEF ChangeOpen
  <2> QED
    BY <2>8 DEF Matured, FullInv, ClocksFixed
<1>2. Spec => [][Kept]_vars
  BY <1>1, FullInvariant, PTL DEF Spec
<1> QED
  BY <1>2 DEF ReviewWindowKept

\* Once executed or vetoed, a change is never touched again; once executed, a
\* proposal and its approvals never are.
THEOREM FinalDecisions == Spec => DecisionsAreFinal
<1> DEFINE ChangesFinal ==
             \A id \in 1..Len(changes) :
               changes[id].executed \/ changes[id].cancelled => changes'[id] = changes[id]
           ProposalsFinal ==
             \A id \in 1..Len(proposals) :
               proposals[id].executed =>
                 proposals'[id] = proposals[id] /\ approvals'[id] = approvals[id]
<1>1. FullInv /\ [Next]_vars => ChangesFinal
  <2> SUFFICES ASSUME FullInv, [Next]_vars, NEW id \in 1..Len(changes),
                      changes[id].executed \/ changes[id].cancelled
               PROVE  changes'[id] = changes[id]
    OBVIOUS
  <2>1. changes \in Seq(PendingChange)
    BY DEF FullInv, GovernanceInv, TypeOK
  <2>2. ASSUME NEW p, changes' = Append(changes, p) PROVE changes'[id] = changes[id]
    BY <2>1, <2>2
  <2>3. ASSUME NEW j \in 1..Len(changes), ChangeOpen(changes[j]),
               NEW q, changes' = [changes EXCEPT ![j] = q]
        PROVE  changes'[id] = changes[id]
    <3>1. j # id
      BY <2>3 DEF ChangeOpen
    <3> QED
      BY <2>1, <2>3, <3>1
  <2> QED
    BY <2>2, <2>3, ChangesStep
<1>2. FullInv /\ [Next]_vars => ProposalsFinal
  <2> SUFFICES ASSUME FullInv, [Next]_vars, NEW id \in 1..Len(proposals),
                      proposals[id].executed
               PROVE  proposals'[id] = proposals[id] /\ approvals'[id] = approvals[id]
    OBVIOUS
  <2>1. proposals \in Seq(MsProposal) /\ approvals \in Seq(SUBSET Addr)
        /\ Len(approvals) = Len(proposals)
    BY DEF FullInv, GovernanceInv, TypeOK
  <2>2. CASE Tick \/ UNCHANGED vars
    BY <2>2 DEF Tick, vars, voting
  <2>3. ASSUME NEW w, NEW th, Initialize(w, th) PROVE UNCHANGED <<proposals, approvals>>
    BY <2>3 DEF Initialize, voting
  <2>4. ASSUME NEW caller, Management(caller) \/ Governance(caller)
        PROVE  UNCHANGED <<proposals, approvals>>
    BY <2>4 DEF Management, AddSigner, RemoveSigner, SetThreshold, FinalizeThreshold,
                SetEmergencyLock, Governance, ProposeChange, ExecuteThresholdChange,
                CancelThresholdChange, voting
  <2>5. ASSUME NEW caller, NEW sensitive, NEW asked, Propose(caller, sensitive, asked)
        PROVE  proposals'[id] = proposals[id] /\ approvals'[id] = approvals[id]
    <3>1. PICK p : proposals' = Append(proposals, p) /\ approvals' = Append(approvals, {caller})
      BY <2>5 DEF Propose
    <3> QED
      BY <2>1, <3>1
  <2>6. ASSUME NEW caller, NEW j \in 1..Len(proposals), Approve(caller, j) \/ Execute(caller, j)
        PROVE  proposals'[id] = proposals[id] /\ approvals'[id] = approvals[id]
    <3>1. j # id
      BY <2>6 DEF Approve, Execute
    <3>2. /\ \E q : proposals' = [proposals EXCEPT ![j] = q]
          /\ approvals' = approvals \/ \E S : approvals' = [approvals EXCEPT ![j] = S]
      BY <2>6 DEF Approve, Execute
    <3> QED
      BY <2>1, <3>1, <3>2
  <2>7. ASSUME NEW caller, NEW nonce, NEW backers, ExecuteBatch(caller, nonce, backers)
        PROVE  UNCHANGED <<proposals, approvals>>
    BY <2>7 DEF ExecuteBatch
  <2> QED
    BY <2>2, <2>3, <2>4, <2>5, <2>6, <2>7 DEF Next, Voting
<1> DEFINE Final ==
      /\ \A id \in 1..Len(changes) :
           changes[id].executed \/ changes[id].cancelled => changes'[id] = changes[id]
      /\ \A id \in 1..Len(proposals) :
           proposals[id].executed =>
             proposals'[id] = proposals[id] /\ approvals'[id] = approvals[id]
<1>3. FullInv /\ [Next]_vars => [Final]_vars
  BY <1>1, <1>2
<1>4. Spec => [][Final]_vars
  BY <1>3, FullInvariant, PTL DEF Spec
<1> QED
  BY <1>4 DEF DecisionsAreFinal

-----------------------------------------------------------------------------
(* The multisig as the other contracts see it                               *)

\* Before initialize nobody is a signer.
Silent == threshold = 0 => \A a \in Addr : weight[a] = 0

\* No call sets the threshold to zero, and before initialize none but
\* initialize itself changes a weight: there is no signer to make it.
LEMMA VisibleStep ==
  ASSUME FullInv, Silent, [Next]_vars
  PROVE  threshold' # 0 \/ UNCHANGED <<weight, threshold>>
<1> USE SignersAssumption, ArgumentsAssumption DEF FullInv, ValidThreshold
<1>1. CASE Tick \/ UNCHANGED vars
  BY <1>1 DEF Tick, vars
<1>2. ASSUME NEW w \in InitialWeights, NEW th \in Thresholds, Initialize(w, th)
      PROVE  threshold' # 0
  BY <1>2 DEF Initialize
<1>3. ASSUME NEW caller \in Addr, Management(caller) \/ Governance(caller) \/ Voting(caller)
      PROVE  threshold' # 0
  <2>1. caller \in Signers
    BY <1>3 DEF Management, Governance, Voting, RequireSigner, AddSigner, RemoveSigner,
                SetThreshold, FinalizeThreshold, SetEmergencyLock, ProposeChange,
                ExecuteThresholdChange, CancelThresholdChange, Propose, Approve,
                Execute, ExecuteBatch
  <2>2. threshold \in Nat /\ threshold # 0
    BY <2>1 DEF Silent, Signers, GovernanceInv, TypeOK
  <2>3. CASE Management(caller)
    <3>1. CASE FinalizeThreshold(caller)
      BY <3>1 DEF FinalizeThreshold, GovernanceInv, TypeOK, PendingThreshold
    <3>2. CASE ~FinalizeThreshold(caller)
      BY <2>2, <2>3, <3>2
      DEF Management, AddSigner, RemoveSigner, SetThreshold, SetEmergencyLock
    <3> QED
      BY <3>1, <3>2
  <2>4. CASE Governance(caller)
    <3>1. ASSUME NEW id \in 1..Len(changes), ExecuteThresholdChange(caller, id)
          PROVE  threshold' # 0
      <4> DEFINE c == changes[id].change
      <4>1. c \in GovernanceChange
        <5>1. changes[id] \in PendingChange
          BY DEF GovernanceInv, TypeOK
        <5> QED
          BY <5>1 DEF PendingChange
      <4>2. ValidateChange(c) /\ ApplyChange(c)
        BY <3>1 DEF ExecuteThresholdChange
      <4> HIDE DEF c
      <4>3. CASE c.kind = "Threshold"
        BY <4>1, <4>2, <4>3 DEF ValidateChange, ApplyChange, GovernanceChange
      <4>4. CASE c.kind # "Threshold"
        BY <2>2, <4>2, <4>4 DEF ApplyChange
      <4> QED
        BY <4>3, <4>4
    <3>2. ASSUME NEW c \in Offers, ProposeChange(caller, c) PROVE threshold' # 0
      BY <2>2, <3>2 DEF ProposeChange
    <3>3. ASSUME NEW id \in 1..Len(changes), CancelThresholdChange(caller, id)
          PROVE  threshold' # 0
      BY <2>2, <3>3 DEF CancelThresholdChange
    <3> QED
      BY <2>4, <3>1, <3>2, <3>3 DEF Governance
  <2>5. CASE Voting(caller)
    BY <2>2, <2>5 DEF Voting, Propose, Approve, Execute, ExecuteBatch
  <2> QED
    BY <1>3, <2>3, <2>4, <2>5
<1> QED
  BY <1>1, <1>2, <1>3 DEF Next

\* Silence is kept until initialize, so it holds in every reachable state.
LEMMA SilentUntilInitialize == Spec => []Silent
<1>1. Init => Silent
  BY DEF Init, Silent
<1>2. FullInv /\ Silent /\ [Next]_vars => Silent'
  <2> SUFFICES ASSUME FullInv, Silent, [Next]_vars PROVE Silent'
    OBVIOUS
  <2> QED
    BY VisibleStep DEF Silent
<1> QED
  BY <1>1, <1>2, FullInvariant, PTL DEF Spec

\* What a call changes of the signers and the threshold is a revision.
LEMMA StepRevises ==
  ASSUME FullInv, FullInv', Silent, [Next]_vars
  PROVE  [Team!Revise]_<<weight, threshold>>
<1> SUFFICES ASSUME threshold' # 0 PROVE Team!Revise
  BY VisibleStep
<1>1. weight' \in [Addr -> 0..MaxWeight] /\ threshold' \in Nat
  BY DEF FullInv, GovernanceInv, TypeOK
<1>2. TotalWeight' \in Nat
  BY <1>1, VotesFinite DEF TotalWeight
<1>3. /\ threshold' >= MinThreshold
      /\ threshold' <= WeightOf(weight', Addr)
      /\ WeightOf(weight', Addr) <= MaxWeight
  BY DEF FullInv, GovernanceInv, Quorate, WeightFits, TotalWeight
<1>4. threshold' \in 1..MaxWeight
  BY <1>1, <1>2, <1>3, SignersAssumption DEF TotalWeight
<1> QED
  BY <1>1, <1>3, <1>4 DEF Team!Revise, Team!Quorate

\* Everyone who asks the multisig sees it go from one configuration that can
\* reach its threshold to another: it implements the abstract SignerSet.
THEOREM ImplementsTeam == Spec => ImplementsSignerSet
<1>1. Init => Team!Init
  BY DEF Init, Team!Init
<1>2. FullInv /\ FullInv' /\ Silent /\ [Next]_vars => [Team!Revise]_<<weight, threshold>>
  BY StepRevises
<1> QED
  BY <1>1, <1>2, SilentUntilInitialize, FullInvariant, PTL
  DEF Spec, ImplementsSignerSet, Team!Spec

-----------------------------------------------------------------------------
(* The proposal contract on top of it                                       *)

\* Only a tick moves the clock.
LEMMA CallKeepsClock ==
  ASSUME Next, ~Tick
  PROVE  now' = now
<1>1. ASSUME NEW w \in InitialWeights, NEW th \in Thresholds, Initialize(w, th)
      PROVE  now' = now
  BY <1>1 DEF Initialize
<1>2. ASSUME NEW caller \in Addr, Management(caller) PROVE now' = now
  BY <1>2 DEF Management, AddSigner, RemoveSigner, SetThreshold, FinalizeThreshold,
              SetEmergencyLock
<1>3. ASSUME NEW caller \in Addr, Governance(caller) PROVE now' = now
  BY <1>3 DEF Governance, ProposeChange, ExecuteThresholdChange, CancelThresholdChange
<1>4. ASSUME NEW caller \in Addr, Voting(caller) PROVE now' = now
  BY <1>4 DEF Voting, Propose, Approve, Execute, ExecuteBatch
<1> QED
  BY <1>1, <1>2, <1>3, <1>4 DEF Next

\* The proposal contract weighs signers as the multisig does.
LEMMA SameWeights ==
  ASSUME NEW w, NEW S
  PROVE  P!WeightOf(w, S) = WeightOf(w, S)
<1>1. P!Votes(w, S) = Votes(w, S)
  BY DEF P!Votes, Votes
<1>2. ASSUME NEW T PROVE P!Cardinality(T) = Cardinality(T)
  BY DEF P!Cardinality, Cardinality
<1> QED
  BY <1>1, <1>2 DEF P!WeightOf, WeightOf

\* To the proposal contract a step of the multisig is a tick, a revision of
\* the signers, or nothing.
LEMMA MultisigStepSeen ==
  ASSUME FullInv, FullInv', Silent, OnMultisig
  PROVE  [P!Next]_(P!vars)
<1>1. Next /\ UNCHANGED requesting
  BY DEF OnMultisig
<1>2. CASE Tick
  <2>1. now \in Nat /\ MaxTime \in Nat
    BY ArgumentsAssumption DEF FullInv, GovernanceInv, TypeOK
  <2>2. P!Tick
    BY <1>1, <1>2, <2>1 DEF Tick, P!Tick, P!multisig, P!config, requesting
  <2> QED
    BY <2>2 DEF P!Next
<1>3. CASE ~Tick
  <2>1. now' = now
    BY <1>1, <1>3, CallKeepsClock
  <2>2. [Team!Revise]_<<weight, threshold>>
    BY <1>1, StepRevises
  <2>3. CASE Team!Revise
    <3>1. P!Team!Revise
      BY <2>3, SameWeights DEF Team!Revise, Team!Quorate, P!Team!Revise, P!Team!Quorate
    <3>2. P!ReviseSigners
      BY <1>1, <2>1, <3>1 DEF P!ReviseSigners, P!config, requesting
    <3> QED
      BY <3>2 DEF P!Next
  <2>4. CASE UNCHANGED <<weight, threshold>>
    BY <1>1, <2>1, <2>4 DEF P!vars, requesting
  <2> QED
    BY <2>2, <2>3, <2>4
<1> QED
  BY <1>2, <1>3

\* Wired to the real multisig, the proposal contract behaves as it does over
\* the abstract signer set: whatever is proved of Proposal holds of the pair.
THEOREM ProposalsOnMultisig == JointSpec => ImplementsProposal
<1> DEFINE joint == <<vars, requesting>>
           Step == OnMultisig \/ OnProposal
<1>1. JointSpec => Spec
  <2>1. JointInit => Init
    BY DEF JointInit
  <2>2. [Step]_joint => [Next]_vars
    BY DEF OnMultisig, OnProposal, vars
  <2> QED
    BY <2>1, <2>2, PTL DEF JointSpec, Spec
<1>2. JointInit => P!Init
  BY DEF JointInit
<1>3. FullInv /\ FullInv' /\ Silent /\ [Step]_joint => [P!Next]_(P!vars)
  <2> SUFFICES ASSUME FullInv, FullInv', Silent, [Step]_joint PROVE [P!Next]_(P!vars)
    OBVIOUS
  <2>1. CASE OnMultisig
    BY <2>1, MultisigStepSeen
  <2>2. CASE OnProposal
    BY <2>2 DEF OnProposal, P!Next
  <2>3. CASE UNCHANGED joint
    BY <2>3 DEF vars, requesting, P!vars
  <2> QED
    BY <2>1, <2>2, <2>3
<1> QED
  BY <1>1, <1>2, <1>3, FullInvariant, SilentUntilInitialize, PTL
  DEF JointSpec, ImplementsProposal, P!Spec
=============================================================================
