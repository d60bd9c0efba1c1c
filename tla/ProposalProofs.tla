--------------------------- MODULE ProposalProofs ---------------------------
(* Machine-checked proofs about Proposal, for every value of its constants. *)
EXTENDS Proposal, FiniteSetTheorems, TLAPS

-----------------------------------------------------------------------------
(* Amounts                                                                  *)

\* The units of finitely many deposits are finitely many.
LEMMA UnitsFinite ==
  ASSUME NEW d, NEW S, IsFiniteSet(S)
  PROVE  IsFiniteSet(Units(d, S)) /\ Total(d, S) \in Nat
<1>1. IsFiniteSet(1..MaxDeposit)
  BY FS_Interval, ProposalAssumption
<1>2. IsFiniteSet(S \X (1..MaxDeposit))
  BY <1>1, FS_Product
<1>3. Units(d, S) \in SUBSET (S \X (1..MaxDeposit))
  BY DEF Units
<1>4. IsFiniteSet(Units(d, S))
  BY <1>2, <1>3, FS_Subset
<1> QED
  BY <1>4, FS_CardinalityType DEF Total

\* The deposits of disjoint sets of proposals add up.
LEMMA TotalDisjoint ==
  ASSUME NEW d, NEW S, NEW T, IsFiniteSet(S), IsFiniteSet(T), S \cap T = {}
  PROVE  Total(d, S \cup T) = Total(d, S) + Total(d, T)
<1> DEFINE A == Units(d, S)
           B == Units(d, T)
<1>1. Units(d, S \cup T) = A \cup B
  BY DEF Units
<1>2. A \cap B = {}
  BY DEF Units
<1>3. /\ IsFiniteSet(A) /\ IsFiniteSet(B)
      /\ Cardinality(A) \in Nat /\ Cardinality(B) \in Nat
  BY UnitsFinite DEF Total
<1>4. Cardinality(A \cup B) = Cardinality(A) + Cardinality(B) - Cardinality(A \cap B)
  BY <1>3, FS_Union
<1>5. Cardinality(A \cap B) = 0
  BY <1>2, FS_EmptySet
<1> HIDE DEF A, B
<1>6. Cardinality(A \cup B) = Cardinality(A) + Cardinality(B)
  BY <1>3, <1>4, <1>5
<1> QED
  BY <1>1, <1>6 DEF Total, A, B

\* One proposal's deposit has as many units as its amount says.
LEMMA TotalOfOne ==
  ASSUME NEW d, NEW id, NEW n \in 0..MaxDeposit, d[id] = n
  PROVE  Total(d, {id}) = n
<1>1. n \in Nat /\ MaxDeposit \in Nat
  BY ProposalAssumption
<1>2. Units(d, {id}) = {id} \X (1..n)
  <2>1. ASSUME NEW u \in Units(d, {id}) PROVE u \in {id} \X (1..n)
    <3>1. u[1] = id /\ u[2] \in 1..MaxDeposit /\ u[2] <= d[u[1]] /\ u = <<u[1], u[2]>>
      BY DEF Units
    <3> QED
      BY <1>1, <3>1
  <2>2. ASSUME NEW u \in {id} \X (1..n) PROVE u \in Units(d, {id})
    <3>1. u[1] = id /\ u[2] \in 1..n /\ u = <<u[1], u[2]>>
      OBVIOUS
    <3> QED
      BY <1>1, <3>1 DEF Units
  <2> QED
    BY <2>1, <2>2
<1>3. IsFiniteSet(1..n) /\ Cardinality(1..n) = n
  BY <1>1, FS_Interval
<1>4. IsFiniteSet({id}) /\ Cardinality({id}) = 1
  BY FS_Singleton
<1>5. Cardinality({id} \X (1..n)) = Cardinality({id}) * Cardinality(1..n)
  BY <1>3, <1>4, FS_Product
<1>6. Cardinality({id} \X (1..n)) = n
  BY <1>1, <1>3, <1>4, <1>5
<1> QED
  BY <1>2, <1>6 DEF Total

\* What is owed after settling some of the proposals that are owed.
LEMMA TotalWithout ==
  ASSUME NEW d, NEW S, NEW T \in SUBSET S, IsFiniteSet(S)
  PROVE  Total(d, S \ T) = Total(d, S) - Total(d, T)
<1>1. IsFiniteSet(T) /\ IsFiniteSet(S \ T)
  BY FS_Subset
<1>2. Total(d, (S \ T) \cup T) = Total(d, S \ T) + Total(d, T)
  BY <1>1, TotalDisjoint
<1>3. (S \ T) \cup T = S
  OBVIOUS
<1>4. Total(d, S \ T) \in Nat /\ Total(d, T) \in Nat
  BY <1>1, UnitsFinite
<1>5. Total(d, S) = Total(d, S \ T) + Total(d, T)
  BY <1>2, <1>3
<1> QED
  BY <1>4, <1>5

\* Only the deposits of the proposals counted matter.
LEMMA TotalSame ==
  ASSUME NEW d, NEW e, NEW S, \A id \in S : d[id] = e[id]
  PROVE  Total(d, S) = Total(e, S)
<1>1. \A u \in S \X (1..MaxDeposit) : d[u[1]] = e[u[1]]
  OBVIOUS
<1>2. Units(d, S) = Units(e, S)
  BY <1>1 DEF Units
<1> QED
  BY <1>2 DEF Total

-----------------------------------------------------------------------------
(* The invariant                                                            *)

\* A proposal's clocks lie in the past, and whatever last carried it set the
\* clock of its time-lock, or something later did.
Stamps ==
  /\ now >= 1
  /\ \A id \in Ids :
       /\ proposals[id].carried_at <= proposals[id].approved_at
       /\ proposals[id].approved_at <= now
       /\ proposals[id].state = "Approved" => proposals[id].approved_at >= 1

\* Prerequisites are older than their dependents.
Backward ==
  \A id \in Ids : \A dep \in TermsOf(id).dependencies : dep \in 1..(id - 1)

Inv == TypeOK /\ Stamps /\ Backward /\ ChainInOrder /\ DepositsHeld

Owed == {id \in Ids : ~DepositSettled(proposals[id].state)}

\* Storing a proposal's record again leaves the other records, the ids and the
\* deposits alone.
LEMMA Replaced ==
  ASSUME TypeOK, NEW id \in Ids, NEW q \in ProposalRecord, q.terms = TermsOf(id),
         proposals' = [proposals EXCEPT ![id] = q]
  PROVE  /\ proposals' \in Seq(ProposalRecord)
         /\ Len(proposals') = Len(proposals)
         /\ Ids' = Ids
         /\ proposals'[id] = q
         /\ \A j \in Ids : j # id => proposals'[j] = proposals[j]
         /\ \A j \in Ids : TermsOf(j)' = TermsOf(j)
         /\ Deposits' = Deposits
<1>1. proposals \in Seq(ProposalRecord)
  BY DEF TypeOK
<1>2. /\ proposals' \in Seq(ProposalRecord)
      /\ Len(proposals') = Len(proposals)
      /\ proposals'[id] = q
      /\ \A j \in Ids : j # id => proposals'[j] = proposals[j]
  BY <1>1 DEF Ids
<1>3. Ids' = Ids
  BY <1>2 DEF Ids
<1>4. \A j \in Ids : TermsOf(j)' = TermsOf(j)
  BY <1>2 DEF TermsOf
<1> QED
  BY <1>2, <1>3, <1>4 DEF Deposits

\* A move along the lifecycle that leaves the clocks alone keeps the rest of
\* the invariant, provided that what executes has its prerequisites.
LEMMA MoveKeeps ==
  ASSUME Inv, NEW id \in Ids, NEW q \in ProposalRecord, q.terms = TermsOf(id),
         q.approved_at = proposals[id].approved_at,
         q.carried_at = proposals[id].carried_at,
         <<proposals[id].state, q.state>> \in LegalEdges, q.state # "Approved",
         q.state = "Executed" => DependenciesMet(id),
         proposals' = [proposals EXCEPT ![id] = q], now' = now
  PROVE  Stamps' /\ Backward' /\ ChainInOrder'
<1>1. /\ Ids' = Ids
      /\ proposals'[id] = q
      /\ \A j \in Ids : j # id => proposals'[j] = proposals[j]
      /\ \A j \in Ids : TermsOf(j)' = TermsOf(j)
  BY Replaced DEF Inv
<1>2. Stamps'
  BY <1>1 DEF Inv, Stamps
<1>3. Backward'
  BY <1>1 DEF Inv, Backward
<1>4. \A j \in Ids : HasExecuted(proposals[j].state) => HasExecuted(proposals'[j].state)
  BY <1>1 DEF HasExecuted, LegalEdges
<1>5. HasExecuted(q.state) => q.state = "Executed" \/ HasExecuted(proposals[id].state)
  BY DEF HasExecuted, LegalEdges
<1>6. ASSUME NEW j \in Ids, HasExecuted(proposals'[j].state), NEW dep \in TermsOf(j).dependencies
      PROVE  dep < j /\ HasExecuted(proposals[dep].state) /\ dep \in Ids
  <2>1. dep \in 1..(j - 1) /\ j \in 1..Len(proposals) /\ Len(proposals) \in Nat
    BY DEF Inv, Backward, TypeOK, Ids
  <2>2. dep < j /\ dep \in Ids
    BY <2>1 DEF Ids
  <2>3. CASE HasExecuted(proposals[j].state)
    BY <2>2, <2>3 DEF Inv, ChainInOrder
  <2>4. CASE ~HasExecuted(proposals[j].state)
    <3>1. j = id /\ q.state = "Executed"
      BY <1>1, <1>5, <1>6, <2>4
    <3> QED
      BY <2>2, <3>1 DEF DependenciesMet
  <2> QED
    BY <2>2, <2>3, <2>4
<1>7. ChainInOrder'
  BY <1>1, <1>4, <1>6 DEF ChainInOrder
<1> QED
  BY <1>2, <1>3, <1>7

\* Settling a deposit that is owed, and paying it out, keeps the books.
LEMMA SettleKeeps ==
  ASSUME Inv, NEW id \in Ids, NEW q \in ProposalRecord, q.terms = TermsOf(id),
         ~DepositSettled(proposals[id].state), DepositSettled(q.state), Refund(id),
         proposals' = [proposals EXCEPT ![id] = q]
  PROVE  held' \in Nat /\ DepositsHeld'
<1>1. /\ Ids' = Ids
      /\ proposals'[id] = q
      /\ \A j \in Ids : j # id => proposals'[j] = proposals[j]
      /\ Deposits' = Deposits
  BY Replaced DEF Inv
<1>2. Owed' = Owed \ {id} /\ {id} \in SUBSET Owed
  BY <1>1 DEF Owed
<1>3. TermsOf(id).deposit \in 0..MaxDeposit
  <2>1. proposals[id] \in ProposalRecord
    BY DEF Inv, TypeOK, Ids
  <2> QED
    BY <2>1 DEF TermsOf, ProposalRecord, Term
<1>4. IsFiniteSet(Owed)
  <2>1. IsFiniteSet(Ids)
    BY FS_Interval DEF Ids, Inv, TypeOK
  <2> QED
    BY <2>1, FS_Subset DEF Owed
<1>5. Total(Deposits, {id}) = TermsOf(id).deposit
  <2>1. Deposits[id] = TermsOf(id).deposit
    BY DEF Deposits
  <2> QED
    BY <1>3, <2>1, TotalOfOne
<1>6. Total(Deposits, Owed \ {id}) = Total(Deposits, Owed) - Total(Deposits, {id})
  BY <1>2, <1>4, TotalWithout
<1>7. held = Total(Deposits, Owed)
  BY DEF Inv, DepositsHeld, Owed
<1>8. held' = Total(Deposits, Owed \ {id})
  BY <1>5, <1>6, <1>7 DEF Refund
<1>9. held' = Total(Deposits', Owed')
  BY <1>1, <1>2, <1>8
<1>10. held' \in Nat
  BY <1>3, ProposalAssumption DEF Refund, Inv, TypeOK
<1> QED
  BY <1>9, <1>10 DEF DepositsHeld, Owed

\* A step after which the same proposals are owed the same keeps the books.
LEMMA OwedKeeps ==
  ASSUME Inv, NEW id \in Ids, NEW q \in ProposalRecord, q.terms = TermsOf(id),
         DepositSettled(proposals[id].state) <=> DepositSettled(q.state),
         proposals' = [proposals EXCEPT ![id] = q], held' = held
  PROVE  DepositsHeld'
<1>1. /\ Ids' = Ids
      /\ proposals'[id] = q
      /\ \A j \in Ids : j # id => proposals'[j] = proposals[j]
      /\ Deposits' = Deposits
  BY Replaced DEF Inv
<1>2. Owed' = Owed
  BY <1>1 DEF Owed
<1>3. held = Total(Deposits, Owed)
  BY DEF Inv, DepositsHeld, Owed
<1> QED
  BY <1>1, <1>2, <1>3 DEF DepositsHeld, Owed

\* Moving a proposal to a state that is neither Approved nor Executed, along an
\* edge of the lifecycle, keeps everything but the books, and those too when
\* the deposit is paid out exactly if the move settles it.
LEMMA MovedTo ==
  ASSUME Inv, NEW id \in Ids, NEW s \in States \ {"Approved", "Executed"},
         <<proposals[id].state, s>> \in LegalEdges, MoveTo(id, s),
         IF DepositSettled(s) /\ ~DepositSettled(proposals[id].state)
           THEN Refund(id) ELSE held' = held,
         UNCHANGED <<now, multisig, config, approvals, purged>>
  PROVE  Inv'
<1> DEFINE q == [proposals[id] EXCEPT !.state = s]
<1>1. proposals[id] \in ProposalRecord
  BY DEF Inv, TypeOK, Ids
<1>2. /\ q \in ProposalRecord /\ q.state = s /\ q.terms = TermsOf(id)
      /\ q.approved_at = proposals[id].approved_at
      /\ q.carried_at = proposals[id].carried_at
  BY <1>1 DEF ProposalRecord, TermsOf
<1>3. proposals' = [proposals EXCEPT ![id] = q]
  BY DEF MoveTo
<1> HIDE DEF q
<1>4. /\ proposals' \in Seq(ProposalRecord) /\ Len(proposals') = Len(proposals)
      /\ Ids' = Ids
  BY <1>2, <1>3, Replaced DEF Inv
<1>5. Stamps' /\ Backward' /\ ChainInOrder'
  BY <1>2, <1>3, MoveKeeps
<1>6. held' \in Nat /\ DepositsHeld'
  <2>1. CASE DepositSettled(s) /\ ~DepositSettled(proposals[id].state)
    BY <1>2, <1>3, <2>1, SettleKeeps
  <2>2. CASE DepositSettled(s) <=> DepositSettled(proposals[id].state)
    BY <1>2, <1>3, <2>2, OwedKeeps DEF Inv, TypeOK
  <2>3. DepositSettled(proposals[id].state) => DepositSettled(s)
    BY DEF DepositSettled, LegalEdges
  <2> QED
    BY <2>1, <2>2, <2>3
<1> QED
  BY <1>4, <1>5, <1>6 DEF Inv, TypeOK, multisig, config

\* Expiry, rejection, cancellation, failure and closing keep the invariant.
LEMMA LifecycleStep ==
  ASSUME Inv, NEW id \in Ids,
         \/ ExpireIfDue(id)
         \/ \E a \in Addr : Reject(a, id)
         \/ Cancel(id)
         \/ Fail(id)
         \/ Close(id)
  PROVE  Inv'
<1> USE DEF LegalEdges, DepositSettled, IsLive
<1>1. CASE ExpireIfDue(id)
  BY <1>1, MovedTo DEF ExpireIfDue, Due, States
<1>2. ASSUME NEW a \in Addr, Reject(a, id) PROVE Inv'
  BY <1>2, MovedTo DEF Reject, States
<1>3. CASE Cancel(id)
  <2>1. proposals[id].state \in {"Pending", "Approved"}
    BY <1>3 DEF Cancel, MayTransition
  <2> QED
    BY <1>3, <2>1, MovedTo DEF Cancel, States
<1>4. CASE Fail(id)
  BY <1>4, MovedTo DEF Fail, States
<1>5. CASE Close(id)
  BY <1>5, MovedTo DEF Close, States
<1> QED
  BY <1>1, <1>2, <1>3, <1>4, <1>5

\* Tallies are natural numbers.
LEMMA TallyTyped ==
  ASSUME TypeOK, NEW id \in Ids, NEW given
  PROVE  LiveApprovals(id, given) \in Nat /\ LiveWeight(id, given) \in Nat
<1>1. proposals[id] \in ProposalRecord
  BY DEF TypeOK, Ids
<1>2. Counted(id, given) \in SUBSET Addr
  BY <1>1 DEF Counted, TermsOf, ProposalRecord, Term
<1>3. IsFiniteSet(Counted(id, given))
  BY <1>2, FS_Subset, ProposalAssumption
<1>4. IsFiniteSet(Counted(id, given) \X (1..MaxWeight))
  <2>1. IsFiniteSet(1..MaxWeight)
    BY FS_Interval, ProposalAssumption
  <2> QED
    BY <1>3, <2>1, FS_Product
<1>5. Votes(weight, Counted(id, given)) \in SUBSET (Counted(id, given) \X (1..MaxWeight))
  BY DEF Votes
<1>6. IsFiniteSet(Votes(weight, Counted(id, given)))
  BY <1>4, <1>5, FS_Subset
<1> QED
  BY <1>3, <1>6, FS_CardinalityType DEF LiveApprovals, LiveWeight, WeightOf

\* Executing a proposal keeps the invariant.
LEMMA ExecuteStep ==
  ASSUME Inv, NEW id \in Ids, Execute(id)
  PROVE  Inv'
<1> DEFINE n == LiveApprovals(id, approvals[id])
           w == LiveWeight(id, approvals[id])
           q == [proposals[id] EXCEPT !.state = "Executed", !.approvals = n,
                                      !.approval_weight = w]
<1>1. proposals[id] \in ProposalRecord
  BY DEF Inv, TypeOK, Ids
<1>2. n \in Nat /\ w \in Nat
  BY TallyTyped DEF Inv
<1>3. proposals' = [proposals EXCEPT ![id] = q]
  BY DEF Execute
<1>4. /\ q \in ProposalRecord /\ q.state = "Executed" /\ q.terms = TermsOf(id)
      /\ q.approved_at = proposals[id].approved_at
      /\ q.carried_at = proposals[id].carried_at
  <2> HIDE DEF n, w
  <2> QED
    BY <1>1, <1>2 DEF ProposalRecord, TermsOf, States
<1> HIDE DEF q
<1>5. /\ proposals[id].state = "Approved" /\ DependenciesMet(id) /\ Refund(id)
      /\ UNCHANGED <<now, multisig, config, approvals, purged>>
  BY DEF Execute
<1>6. /\ proposals' \in Seq(ProposalRecord) /\ Len(proposals') = Len(proposals)
      /\ Ids' = Ids
  BY <1>3, <1>4, Replaced DEF Inv
<1>7. Stamps' /\ Backward' /\ ChainInOrder'
  BY <1>3, <1>4, <1>5, MoveKeeps DEF LegalEdges
<1>8. held' \in Nat /\ DepositsHeld'
  BY <1>3, <1>4, <1>5, SettleKeeps DEF DepositSettled
<1> QED
  BY <1>5, <1>6, <1>7, <1>8 DEF Inv, TypeOK, multisig, config

\* Approving a proposal keeps the invariant: an approval that carries the
\* proposal sets the clock of its time-lock.
LEMMA ApproveStep ==
  ASSUME Inv, NEW id \in Ids, NEW a \in Addr, Approve(a, id)
  PROVE  Inv'
<1> DEFINE given == approvals[id] \cup {a}
           p == proposals[id]
           n == LiveApprovals(id, given)
           w == LiveWeight(id, given)
           s == IF n >= p.terms.threshold THEN "Approved" ELSE p.state
           at == ApprovedAt(id, given)
           carried == IF Carries(id, given) THEN now ELSE p.carried_at
           q == [p EXCEPT !.approvals = n, !.approval_weight = w, !.state = s,
                          !.approved_at = at, !.carried_at = carried]
<1>1. /\ p \in ProposalRecord /\ now \in Nat /\ now >= 1
      /\ p.carried_at <= p.approved_at /\ p.approved_at <= now
      /\ p.state = "Approved" => p.approved_at >= 1
      /\ p.state \in {"Pending", "Approved"}
  BY DEF Inv, TypeOK, Ids, Stamps, Approve, IsLive
<1>2. /\ p.approved_at \in Nat /\ p.carried_at \in Nat /\ p.terms.threshold \in Nat
      /\ p.terms = TermsOf(id) /\ p.created_at \in Nat
  BY <1>1 DEF ProposalRecord, TermsOf, Term
<1>3. n \in Nat /\ w \in Nat
  BY TallyTyped DEF Inv
<1>4. s \in {"Pending", "Approved"}
  BY <1>1
<1>5. at \in {now, p.approved_at} /\ carried \in {now, p.carried_at}
  BY DEF ApprovedAt
<1>6. carried <= at
  <2>1. CASE Carries(id, given)
    <3>1. at = now /\ carried = now
      BY <1>1, <2>1, <1>2 DEF Carries, ApprovedAt
    <3> QED
      BY <1>1, <3>1
  <2>2. CASE ~Carries(id, given)
    BY <1>1, <1>2, <1>5, <2>2
  <2> QED
    BY <2>1, <2>2
<1>7. s = "Approved" => at >= 1
  BY <1>1, <1>2 DEF ApprovedAt
<1>8. /\ approvals' = [approvals EXCEPT ![id] = given]
      /\ proposals' = [proposals EXCEPT ![id] = q]
      /\ UNCHANGED <<now, multisig, config, purged, held>>
  BY DEF Approve
<1>9. /\ q \in ProposalRecord /\ q.terms = TermsOf(id) /\ q.state = s
      /\ q.approved_at = at /\ q.carried_at = carried
  <2>1. s \in States /\ at \in Nat /\ carried \in Nat
    BY <1>1, <1>2, <1>4, <1>5 DEF States
  <2> HIDE DEF n, w, s, at, carried
  <2> QED
    BY <1>1, <1>2, <1>3, <2>1 DEF ProposalRecord
<1> HIDE DEF q
<1>10. /\ proposals' \in Seq(ProposalRecord)
       /\ Len(proposals') = Len(proposals)
       /\ Ids' = Ids
       /\ proposals'[id] = q
       /\ \A j \in Ids : j # id => proposals'[j] = proposals[j]
       /\ \A j \in Ids : TermsOf(j)' = TermsOf(j)
  BY <1>8, <1>9, Replaced DEF Inv
<1>11. approvals' \in Seq(SUBSET Addr) /\ Len(approvals') = Len(approvals)
  <2>1. approvals \in Seq(SUBSET Addr) /\ id \in 1..Len(approvals)
    BY DEF Inv, TypeOK, Ids
  <2>2. given \in SUBSET Addr
    BY <2>1
  <2> HIDE DEF given
  <2> QED
    BY <1>8, <2>1, <2>2
<1>12. Stamps'
  <2>1. now' = now /\ at <= now
    BY <1>1, <1>2, <1>5, <1>8
  <2>2. q.carried_at <= q.approved_at /\ q.approved_at <= now
        /\ (q.state = "Approved" => q.approved_at >= 1)
    BY <1>6, <1>7, <1>9, <2>1
  <2> HIDE DEF p, n, w, s, at, carried, given
  <2> QED
    BY <1>10, <2>1, <2>2 DEF Stamps, Inv
<1>13. Backward'
  BY <1>10 DEF Inv, Backward
<1>14. \A j \in Ids : HasExecuted(proposals'[j].state) <=> HasExecuted(proposals[j].state)
  <2>1. ~HasExecuted(q.state) /\ ~HasExecuted(proposals[id].state)
    BY <1>1, <1>4, <1>9 DEF HasExecuted
  <2> QED
    BY <1>10, <2>1
<1>15. ChainInOrder'
  <2>1. ASSUME NEW j \in Ids, HasExecuted(proposals'[j].state),
               NEW dep \in TermsOf(j).dependencies
        PROVE  dep < j /\ HasExecuted(proposals'[dep].state)
    <3>1. dep < j /\ HasExecuted(proposals[dep].state)
      BY <1>14, <2>1 DEF Inv, ChainInOrder
    <3>2. dep \in Ids
      BY DEF Inv, Backward, TypeOK, Ids
    <3> QED
      BY <1>14, <3>1, <3>2
  <2> QED
    BY <1>10, <2>1 DEF ChainInOrder
<1>16. DepositsHeld'
  <2>1. DepositSettled(proposals[id].state) <=> DepositSettled(q.state)
    BY <1>1, <1>4, <1>9 DEF DepositSettled
  <2> QED
    BY <1>8, <1>9, <2>1, OwedKeeps
<1> QED
  BY <1>8, <1>10, <1>11, <1>12, <1>13, <1>15, <1>16 DEF Inv, TypeOK, multisig, config

\* There are finitely many proposals, so finitely many are owed a deposit.
LEMMA OwedFinite ==
  ASSUME TypeOK
  PROVE  IsFiniteSet(Ids) /\ IsFiniteSet(Owed)
<1>1. IsFiniteSet(Ids)
  BY FS_Interval DEF Ids, TypeOK
<1> QED
  BY <1>1, FS_Subset DEF Owed

\* Creating a proposal keeps the invariant: its prerequisites exist already,
\* and its deposit is taken in.
LEMMA CreateStep ==
  ASSUME Inv, NEW t \in Terms, Create(t)
  PROVE  Inv'
<1> DEFINE r == NewProposal(t)
<1>1. /\ proposals \in Seq(ProposalRecord) /\ approvals \in Seq(SUBSET Addr)
      /\ Len(approvals) = Len(proposals) /\ Len(proposals) \in Nat
      /\ now \in Nat /\ now >= 1 /\ held \in Nat
  BY DEF Inv, TypeOK, Stamps
<1>2. PICK n \in Nat : n = Len(proposals) + 1
  BY <1>1
<1>3. t \in Term /\ t.deposit \in 0..MaxDeposit /\ MaxDeposit \in Nat
  BY ProposalAssumption DEF Term
<1>4. /\ r \in ProposalRecord /\ r.terms = t /\ r.state = "Pending"
      /\ r.approved_at = 0 /\ r.carried_at = 0
  BY <1>1, <1>3 DEF NewProposal, ProposalRecord, States
<1>5. /\ proposals' = Append(proposals, r)
      /\ approvals' = Append(approvals, {})
      /\ held' = held + t.deposit
      /\ \A dep \in t.dependencies : Stored(dep)
      /\ UNCHANGED <<now, multisig, config, purged>>
  BY DEF Create
<1> HIDE DEF r
<1>6. /\ proposals' \in Seq(ProposalRecord) /\ Len(proposals') = n
      /\ proposals'[n] = r
      /\ \A j \in Ids : proposals'[j] = proposals[j]
  BY <1>2, <1>1, <1>4, <1>5 DEF Ids
<1>7. approvals' \in Seq(SUBSET Addr) /\ Len(approvals') = n
  BY <1>2, <1>1, <1>5
<1>8. Ids' = Ids \cup {n} /\ n \notin Ids
  BY <1>2, <1>1, <1>6 DEF Ids
<1>9. proposals'[n].terms = t /\ \A j \in Ids : TermsOf(j)' = TermsOf(j)
  BY <1>4, <1>6 DEF TermsOf
<1>10. Stamps'
  <2>1. \A j \in Ids : /\ proposals[j].carried_at <= proposals[j].approved_at
                       /\ proposals[j].approved_at <= now
                       /\ proposals[j].state = "Approved" => proposals[j].approved_at >= 1
    BY DEF Inv, Stamps
  <2>2. ASSUME NEW j \in Ids'
        PROVE  /\ proposals'[j].carried_at <= proposals'[j].approved_at
               /\ proposals'[j].approved_at <= now
               /\ proposals'[j].state = "Approved" => proposals'[j].approved_at >= 1
    <3>1. CASE j \in Ids
      BY <1>6, <2>1, <3>1
    <3>2. CASE j = n
      BY <1>1, <1>4, <1>6, <3>2
    <3> QED
      BY <1>8, <3>1, <3>2
  <2>3. now' = now
    BY <1>5
  <2> QED
    BY <1>1, <2>2, <2>3 DEF Stamps
<1>11. Backward'
  <2>1. \A dep \in t.dependencies : dep \in 1..(n - 1)
    BY <1>2, <1>1, <1>5 DEF Stored, Ids
  <2>2. \A j \in Ids : \A dep \in TermsOf(j).dependencies : dep \in 1..(j - 1)
    BY DEF Inv, Backward
  <2>3. ASSUME NEW j \in Ids', NEW dep \in proposals'[j].terms.dependencies
        PROVE  dep \in 1..(j - 1)
    <3>1. CASE j \in Ids
      BY <1>9, <2>2, <2>3, <3>1 DEF TermsOf
    <3>2. CASE j = n
      BY <1>9, <2>1, <2>3, <3>2
    <3> QED
      BY <1>8, <3>1, <3>2
  <2> QED
    BY <2>3 DEF Backward, TermsOf
<1>12. ChainInOrder'
  <2>1. ASSUME NEW j \in Ids, HasExecuted(proposals'[j].state),
               NEW dep \in TermsOf(j).dependencies
        PROVE  dep < j /\ HasExecuted(proposals'[dep].state)
    <3>1. dep < j /\ HasExecuted(proposals[dep].state)
      BY <1>6, <2>1 DEF Inv, ChainInOrder
    <3>2. dep \in Ids
      BY DEF Inv, Backward, TypeOK, Ids
    <3> QED
      BY <1>6, <3>1, <3>2
  <2>2. ~HasExecuted(proposals'[n].state)
    BY <1>4, <1>6 DEF HasExecuted
  <2> QED
    BY <1>8, <1>9, <2>1, <2>2 DEF ChainInOrder
<1>13. held' \in Nat
  BY <1>1, <1>3, <1>5
<1>14. DepositsHeld'
  <2>1. Owed' = Owed \cup {n} /\ n \notin Owed
    <3>1. ~DepositSettled(r.state)
      BY <1>4 DEF DepositSettled
    <3> QED
      BY <1>6, <1>8, <3>1 DEF Owed
  <2>2. \A j \in Owed : Deposits'[j] = Deposits[j]
    BY <1>8, <1>9 DEF Owed, Deposits
  <2>3. Deposits'[n] = t.deposit
    BY <1>8, <1>9 DEF Deposits, TermsOf
  <2>4. Total(Deposits', Owed) = Total(Deposits, Owed)
    BY <2>2, TotalSame
  <2>5. Total(Deposits', {n}) = t.deposit
    BY <1>3, <2>3, TotalOfOne
  <2>6. IsFiniteSet(Owed) /\ IsFiniteSet({n})
    BY OwedFinite, FS_Singleton DEF Inv
  <2>7. Total(Deposits', Owed \cup {n}) = Total(Deposits', Owed) + Total(Deposits', {n})
    <3>1. Owed \cap {n} = {}
      BY <2>1
    <3> QED
      BY <2>6, <3>1, TotalDisjoint
  <2>8. held = Total(Deposits, Owed)
    BY DEF Inv, DepositsHeld, Owed
  <2>9. held' = Total(Deposits', Owed')
    BY <1>5, <2>1, <2>4, <2>5, <2>7, <2>8
  <2> QED
    BY <2>9 DEF DepositsHeld, Owed
<1>15. purged' \subseteq Ids'
  BY <1>5, <1>8 DEF Inv, TypeOK
<1> QED
  BY <1>5, <1>6, <1>7, <1>10, <1>11, <1>12, <1>13, <1>14, <1>15
  DEF Inv, TypeOK, multisig, config

\* Pruning keeps the invariant: it settles what was due before it forgets it.
LEMMA PruneStep ==
  ASSUME Inv, NEW ids \in SUBSET Ids, PruneExpired(ids)
  PROVE  Inv'
<1> DEFINE gone == {id \in ids : Prunable(id)}
           due == {id \in gone : Due(id)}
           refunds == Total(Deposits, due)
           closed(id) == [proposals[id] EXCEPT !.state = "Expired"]
<1>1. /\ proposals \in Seq(ProposalRecord) /\ approvals \in Seq(SUBSET Addr)
      /\ Len(approvals) = Len(proposals) /\ Len(proposals) \in Nat /\ held \in Nat
  BY DEF Inv, TypeOK
<1>2. /\ held >= refunds /\ held' = held - refunds
      /\ proposals' = [id \in Ids |-> IF id \in due THEN closed(id) ELSE proposals[id]]
      /\ approvals' = [id \in Ids |-> IF id \in gone THEN {} ELSE approvals[id]]
      /\ purged' = purged \cup gone
      /\ UNCHANGED <<now, multisig, config>>
  BY DEF PruneExpired
<1>3. \A id \in due : id \in Ids /\ IsLive(proposals[id].state)
  BY DEF Due
<1>4. \A id \in Ids : /\ closed(id) \in ProposalRecord
                      /\ closed(id).state = "Expired" /\ closed(id).terms = TermsOf(id)
                      /\ closed(id).approved_at = proposals[id].approved_at
                      /\ closed(id).carried_at = proposals[id].carried_at
  <2>1. \A id \in Ids : proposals[id] \in ProposalRecord
    BY <1>1 DEF Ids
  <2> QED
    BY <2>1 DEF ProposalRecord, TermsOf, States
<1> HIDE DEF closed, gone, due
<1>5. gone \in SUBSET Ids /\ due \in SUBSET Owed
  BY <1>3 DEF gone, due, Owed, IsLive, DepositSettled
<1>6. \A id \in Ids : proposals'[id] = IF id \in due THEN closed(id) ELSE proposals[id]
  BY <1>2
<1>7. proposals' \in Seq(ProposalRecord) /\ Len(proposals') = Len(proposals)
  <2>1. \A id \in Ids : proposals'[id] \in ProposalRecord
    BY <1>1, <1>4, <1>6 DEF Ids
  <2>2. proposals' \in [1..Len(proposals) -> ProposalRecord]
    BY <1>2, <2>1 DEF Ids
  <2> QED
    BY <1>1, <2>2
<1>8. approvals' \in Seq(SUBSET Addr) /\ Len(approvals') = Len(proposals)
  <2>1. \A id \in Ids : approvals[id] \in SUBSET Addr
    BY <1>1 DEF Ids
  <2>2. approvals' \in [1..Len(proposals) -> SUBSET Addr]
    BY <1>2, <2>1 DEF Ids
  <2> QED
    BY <1>1, <2>2
<1>9. Ids' = Ids
  BY <1>7 DEF Ids
<1>10. \A j \in Ids : TermsOf(j)' = TermsOf(j)
  BY <1>4, <1>6 DEF TermsOf
<1>11. Stamps'
  BY <1>2, <1>4, <1>6, <1>9 DEF Inv, Stamps
<1>12. Backward'
  BY <1>9, <1>10 DEF Inv, Backward
<1>13. \A j \in Ids : HasExecuted(proposals'[j].state) <=> HasExecuted(proposals[j].state)
  BY <1>3, <1>4, <1>6 DEF HasExecuted, IsLive
<1>14. ChainInOrder'
  <2>1. ASSUME NEW j \in Ids, HasExecuted(proposals'[j].state),
               NEW dep \in TermsOf(j).dependencies
        PROVE  dep < j /\ HasExecuted(proposals'[dep].state)
    <3>1. dep < j /\ HasExecuted(proposals[dep].state)
      BY <1>13, <2>1 DEF Inv, ChainInOrder
    <3>2. dep \in Ids
      BY DEF Inv, Backward, TypeOK, Ids
    <3> QED
      BY <1>13, <3>1, <3>2
  <2> QED
    BY <1>9, <1>10, <2>1 DEF ChainInOrder
<1>15. held' \in Nat /\ DepositsHeld'
  <2>1. Deposits' = Deposits
    BY <1>9, <1>10 DEF Deposits
  <2>2. Owed' = Owed \ due
    <3>1. \A id \in Ids : ~DepositSettled(proposals'[id].state)
                            <=> ~DepositSettled(proposals[id].state) /\ id \notin due
      BY <1>4, <1>6 DEF DepositSettled
    <3> QED
      BY <1>9, <3>1 DEF Owed
  <2>3. IsFiniteSet(Owed)
    BY OwedFinite DEF Inv
  <2>4. Total(Deposits, Owed \ due) = Total(Deposits, Owed) - refunds
    BY <1>5, <2>3, TotalWithout
  <2>5. held = Total(Deposits, Owed)
    BY DEF Inv, DepositsHeld, Owed
  <2>6. held' = Total(Deposits', Owed')
    BY <1>2, <2>1, <2>2, <2>4, <2>5
  <2>7. IsFiniteSet(due)
    BY <1>5, <2>3, FS_Subset
  <2>8. refunds \in Nat
    BY <2>7, UnitsFinite
  <2>9. held' \in Nat
    <3> HIDE DEF refunds
    <3> QED
      BY <1>1, <1>2, <2>8
  <2> QED
    BY <2>6, <2>9 DEF DepositsHeld, Owed
<1>16. purged' \subseteq Ids'
  BY <1>2, <1>5, <1>9 DEF Inv, TypeOK
<1> QED
  BY <1>2, <1>7, <1>8, <1>11, <1>12, <1>14, <1>15, <1>16
  DEF Inv, TypeOK, multisig, config
-----------------------------------------------------------------------------
(* The invariant holds                                                      *)

\* The invariant depends on nothing that a step of the clock, of the multisig
\* or of the configuration changes, but for the time, which only grows.
LEMMA ElsewhereStep ==
  ASSUME Inv, now' \in Nat, now' >= now, weight' \in [Addr -> 0..MaxWeight],
         quorum' \in 0..MaxWeight, ready' \in BOOLEAN, timelock' \in 0..MaxU64,
         UNCHANGED <<proposals, approvals, purged, held>>
  PROVE  Inv'
<1>1. Ids' = Ids /\ Deposits' = Deposits /\ \A j \in Ids : TermsOf(j)' = TermsOf(j)
  BY DEF Ids, Deposits, TermsOf
<1>2. TypeOK'
  BY <1>1 DEF Inv, TypeOK
<1>3. Stamps'
  <2>1. now \in Nat
    BY DEF Inv, TypeOK
  <2>2. \A j \in Ids : proposals[j].approved_at \in Nat
    <3>1. \A j \in Ids : proposals[j] \in ProposalRecord
      BY DEF Inv, TypeOK, Ids
    <3> QED
      BY <3>1 DEF ProposalRecord
  <2> QED
    BY <1>1, <2>1, <2>2 DEF Inv, Stamps
<1>4. Backward' /\ ChainInOrder' /\ DepositsHeld'
  BY <1>1 DEF Inv, Backward, ChainInOrder, DepositsHeld
<1> QED
  BY <1>2, <1>3, <1>4 DEF Inv

\* The first state satisfies the invariant.
LEMMA InvInit == Init => Inv
<1> SUFFICES ASSUME Init PROVE Inv
  OBVIOUS
<1>1. Ids = {}
  BY DEF Init, Ids
<1>2. TypeOK
  <2>1. weight \in [Addr -> 0..MaxWeight] /\ quorum \in 0..MaxWeight
    BY ProposalAssumption DEF Init, Team!Init
  <2>2. proposals = <<>> /\ approvals = <<>> /\ purged = {} /\ now = 1 /\ held = 0
        /\ ready = FALSE /\ timelock = 0
    BY DEF Init
  <2>3. timelock \in 0..MaxU64 /\ now \in Nat /\ held \in Nat
    BY <2>2, ProposalAssumption
  <2>4. proposals \in Seq(ProposalRecord) /\ approvals \in Seq(SUBSET Addr)
    BY <2>2
  <2>5. Len(approvals) = Len(proposals) /\ purged \subseteq Ids /\ ready \in BOOLEAN
    BY <2>2
  <2> QED
    BY <2>1, <2>3, <2>4, <2>5 DEF TypeOK
<1>3. Stamps /\ Backward /\ ChainInOrder
  BY <1>1 DEF Init, Stamps, Backward, ChainInOrder
<1>4. DepositsHeld
  <2>1. Units(Deposits, {}) = {}
    BY DEF Units
  <2> QED
    BY <1>1, <2>1, FS_EmptySet DEF Init, DepositsHeld, Total
<1> QED
  BY <1>2, <1>3, <1>4 DEF Inv

\* Every step preserves the invariant.
LEMMA InvStep == Inv /\ [Next]_vars => Inv'
<1> SUFFICES ASSUME Inv, [Next]_vars PROVE Inv'
  OBVIOUS
<1>1. /\ now \in Nat /\ weight \in [Addr -> 0..MaxWeight] /\ quorum \in 0..MaxWeight
      /\ ready \in BOOLEAN /\ timelock \in 0..MaxU64
  BY DEF Inv, TypeOK
<1>2. CASE Tick
  BY <1>1, <1>2, ElsewhereStep DEF Tick, multisig, config
<1>3. CASE ReviseSigners
  <2>1. weight' \in [Addr -> 0..MaxWeight] /\ quorum' \in 0..MaxWeight
    BY <1>3, ProposalAssumption DEF ReviseSigners, Team!Revise
  <2> QED
    BY <1>1, <1>3, <2>1, ElsewhereStep DEF ReviseSigners, config
<1>4. ASSUME NEW delay \in Timelocks, Initialize(delay) PROVE Inv'
  <2>1. delay \in 0..MaxU64
    BY ProposalAssumption
  <2> QED
    BY <1>1, <1>4, <2>1, ElsewhereStep DEF Initialize, multisig
<1>5. ASSUME NEW t \in Terms, Create(t) PROVE Inv'
  BY <1>5, CreateStep
<1>6. ASSUME NEW id \in Ids, NEW a \in Addr, Approve(a, id) PROVE Inv'
  BY <1>6, ApproveStep
<1>7. ASSUME NEW id \in Ids, Execute(id) PROVE Inv'
  BY <1>7, ExecuteStep
<1>8. ASSUME NEW id \in Ids,
             \/ ExpireIfDue(id)
             \/ \E a \in Addr : Reject(a, id)
             \/ Cancel(id)
             \/ Fail(id)
             \/ Close(id)
      PROVE  Inv'
  BY <1>8, LifecycleStep
<1>9. ASSUME NEW ids \in SUBSET Ids, PruneExpired(ids) PROVE Inv'
  BY <1>9, PruneStep
<1>10. CASE UNCHANGED vars
  BY <1>1, <1>10, ElsewhereStep DEF vars
<1> QED
  BY <1>2, <1>3, <1>4, <1>5, <1>6, <1>7, <1>8, <1>9, <1>10 DEF Next, Entrypoint

\* The invariant holds in every reachable state.
THEOREM Invariant == Spec => []Inv
<1> QED
  BY InvInit, InvStep, PTL DEF Spec

\* Type correctness of the proposal contract's storage.
THEOREM TypeCorrect == Spec => []TypeOK
<1>1. Inv => TypeOK
  BY DEF Inv
<1> QED
  BY <1>1, Invariant, PTL

\* The deposits of proposals that did not settle theirs lie within what is
\* held: a part of a sum of naturals is no more than the sum.
LEMMA RefundsWithinHeld ==
  ASSUME Inv
  PROVE  RefundsCovered
<1>1. /\ IsFiniteSet(Owed)
      /\ held = Total(Deposits, Owed)
      /\ held \in Nat
  BY OwedFinite DEF Inv, TypeOK, DepositsHeld, Owed
<1>2. ASSUME NEW S \in SUBSET Owed PROVE held >= Total(Deposits, S)
  <2>1. IsFiniteSet(S) /\ IsFiniteSet(Owed \ S)
    BY <1>1, FS_Subset
  <2>2. Total(Deposits, S) \in Nat /\ Total(Deposits, Owed \ S) \in Nat
    BY <2>1, UnitsFinite
  <2>3. Total(Deposits, Owed \ S) = Total(Deposits, Owed) - Total(Deposits, S)
    BY <1>1, TotalWithout
  <2> QED
    BY <1>1, <2>2, <2>3
<1>3. ASSUME NEW id \in Ids, ~DepositSettled(proposals[id].state)
      PROVE  held >= TermsOf(id).deposit
  <2>1. TermsOf(id).deposit \in 0..MaxDeposit /\ Deposits[id] = TermsOf(id).deposit
    <3>1. proposals \in Seq(ProposalRecord)
      BY DEF Inv, TypeOK
    <3>2. proposals[id] \in ProposalRecord
      BY <3>1 DEF Ids
    <3>3. TermsOf(id) \in Term
      BY <3>2 DEF ProposalRecord, TermsOf
    <3> QED
      BY <3>3 DEF Deposits, Term
  <2>2. Total(Deposits, {id}) = TermsOf(id).deposit
    BY <2>1, TotalOfOne
  <2>3. {id} \in SUBSET Owed
    BY <1>3 DEF Owed
  <2> QED
    BY <1>2, <2>2, <2>3
<1>4. ASSUME NEW ids \in SUBSET Ids PROVE held >= Total(Deposits, {id \in ids : Due(id)})
  <2>1. {id \in ids : Due(id)} \in SUBSET Owed
    BY DEF Owed, Due, IsLive, DepositSettled
  <2> QED
    BY <1>2, <2>1
<1> QED
  BY <1>3, <1>4 DEF RefundsCovered

\* Custody: whatever the order of rejecting, cancelling, expiring, executing
\* and pruning, the contract holds exactly the deposits it still owes, and no
\* refund it owes ever fails for lack of balance.
THEOREM DepositsAreSound == Spec => []DepositsSound
<1>1. Inv => DepositsSound
  BY RefundsWithinHeld DEF Inv, DepositsSound
<1> QED
  BY <1>1, Invariant, PTL

\* Prerequisites of an executed proposal have executed.
THEOREM ChainsRunInOrder == Spec => []ChainInOrder
<1>1. Inv => ChainInOrder
  BY DEF Inv
<1> QED
  BY <1>1, Invariant, PTL
-----------------------------------------------------------------------------
(* What a step may do to a proposal                                         *)

\* A change of a proposal's state is an edge of the lifecycle, nothing happens
\* to a pruned record, and only Execute executes.
Obedient(id) ==
  /\ proposals[id].state # proposals'[id].state =>
       <<proposals[id].state, proposals'[id].state>> \in LegalEdges
  /\ id \in purged => proposals'[id] = proposals[id]
  /\ Executes(id) => Execute(id)

\* A step that leaves a record as it is does all of that.
LEMMA Untouched ==
  ASSUME NEW id, proposals'[id] = proposals[id]
  PROVE  Obedient(id)
<1> QED
  BY DEF Obedient, Executes

\* Replacing the record of a stored proposal along an edge of the lifecycle
\* touches no other proposal.
LEMMA ReplacedAlong ==
  ASSUME TypeOK, NEW k \in Ids, Stored(k), NEW q \in ProposalRecord,
         proposals' = [proposals EXCEPT ![k] = q],
         \/ q.state = proposals[k].state
         \/ <<proposals[k].state, q.state>> \in LegalEdges,
         q.state # proposals[k].state => q.state # "Executed" \/ Execute(k),
         NEW id \in Ids
  PROVE  Obedient(id)
<1>1. proposals \in Seq(ProposalRecord)
  BY DEF TypeOK
<1>2. proposals'[k] = q /\ \A j \in Ids : j # k => proposals'[j] = proposals[j]
  BY <1>1 DEF Ids
<1>3. CASE id # k
  BY <1>2, <1>3, Untouched
<1>4. CASE id = k
  <2>1. id \notin purged
    BY <1>4 DEF Stored
  <2> QED
    BY <1>2, <1>4, <2>1 DEF Obedient, Executes
<1> QED
  BY <1>3, <1>4

\* The same for a move that changes nothing but the state.
LEMMA MovedAlong ==
  ASSUME TypeOK, NEW k \in Ids, Stored(k), NEW s \in States \ {"Executed"},
         MoveTo(k, s), <<proposals[k].state, s>> \in LegalEdges, NEW id \in Ids
  PROVE  Obedient(id)
<1> DEFINE q == [proposals[k] EXCEPT !.state = s]
<1>1. proposals[k] \in ProposalRecord
  BY DEF TypeOK, Ids
<1>2. q \in ProposalRecord /\ q.state = s
  BY <1>1 DEF ProposalRecord
<1>3. proposals' = [proposals EXCEPT ![k] = q]
  BY DEF MoveTo
<1> HIDE DEF q
<1> QED
  BY <1>2, <1>3, ReplacedAlong

\* Every step is obedient.
LEMMA EveryStep ==
  ASSUME Inv, [Next]_vars, NEW id \in Ids
  PROVE  Obedient(id)
<1>1. TypeOK
  BY DEF Inv
<1>2. CASE proposals' = proposals
  BY <1>2, Untouched
<1>3. CASE Tick \/ ReviseSigners \/ (\E delay \in Timelocks : Initialize(delay)) \/ UNCHANGED vars
  BY <1>2, <1>3 DEF Tick, ReviseSigners, Initialize, vars
<1>4. ASSUME NEW t \in Terms, Create(t) PROVE Obedient(id)
  <2>1. proposals \in Seq(ProposalRecord) /\ id \in 1..Len(proposals)
    BY <1>1 DEF TypeOK, Ids
  <2>2. proposals' = Append(proposals, NewProposal(t))
    BY <1>4 DEF Create
  <2>3. proposals'[id] = proposals[id]
    BY <2>1, <2>2
  <2> QED
    BY <2>3, Untouched
<1>5. ASSUME NEW k \in Ids, NEW a \in Addr, Approve(a, k) PROVE Obedient(id)
  <2> DEFINE given == approvals[k] \cup {a}
             s == IF LiveApprovals(k, given) >= proposals[k].terms.threshold
                    THEN "Approved" ELSE proposals[k].state
             q == [proposals[k] EXCEPT
                     !.approvals = LiveApprovals(k, given),
                     !.approval_weight = LiveWeight(k, given),
                     !.state = s,
                     !.approved_at = ApprovedAt(k, given),
                     !.carried_at = IF Carries(k, given) THEN now ELSE @]
  <2>1. proposals' = [proposals EXCEPT ![k] = q]
    BY <1>5 DEF Approve
  <2>2. proposals[k] \in ProposalRecord /\ now \in Nat
    BY <1>1 DEF TypeOK, Ids
  <2>3. /\ proposals[k].approved_at \in Nat /\ proposals[k].carried_at \in Nat
        /\ proposals[k].state \in {"Pending", "Approved"} /\ Stored(k)
    BY <1>5, <2>2 DEF ProposalRecord, Approve, IsLive, Addressed
  <2>4. ApprovedAt(k, given) \in Nat
    BY <2>2, <2>3 DEF ApprovedAt
  <2>5. LiveApprovals(k, given) \in Nat /\ LiveWeight(k, given) \in Nat
    BY <1>1, TallyTyped
  <2>6. s \in {"Approved", proposals[k].state}
    OBVIOUS
  <2>7. q \in ProposalRecord /\ q.state = s
    <3> HIDE DEF given, s
    <3> QED
      BY <2>2, <2>3, <2>4, <2>5, <2>6 DEF ProposalRecord, States
  <2> HIDE DEF q, s, given
  <2>8. \/ q.state = proposals[k].state
        \/ <<proposals[k].state, q.state>> \in LegalEdges
    BY <2>3, <2>6, <2>7 DEF LegalEdges
  <2>9. q.state # "Executed"
    BY <2>3, <2>6, <2>7
  <2> QED
    BY <1>1, <2>1, <2>3, <2>7, <2>8, <2>9, ReplacedAlong
<1>6. ASSUME NEW k \in Ids, Execute(k) PROVE Obedient(id)
  <2> DEFINE q == [proposals[k] EXCEPT
                     !.state = "Executed",
                     !.approvals = LiveApprovals(k, approvals[k]),
                     !.approval_weight = LiveWeight(k, approvals[k])]
  <2>1. /\ proposals' = [proposals EXCEPT ![k] = q]
        /\ proposals[k].state = "Approved" /\ Stored(k)
    BY <1>6 DEF Execute
  <2>2. proposals[k] \in ProposalRecord
    BY <1>1 DEF TypeOK, Ids
  <2>3. LiveApprovals(k, approvals[k]) \in Nat /\ LiveWeight(k, approvals[k]) \in Nat
    BY <1>1, TallyTyped
  <2>4. q \in ProposalRecord /\ q.state = "Executed"
    BY <2>2, <2>3 DEF ProposalRecord, States
  <2> HIDE DEF q
  <2>5. <<proposals[k].state, q.state>> \in LegalEdges
    BY <2>1, <2>4 DEF LegalEdges
  <2> QED
    BY <1>1, <1>6, <2>1, <2>4, <2>5, ReplacedAlong
<1>7. ASSUME NEW k \in Ids,
             \/ ExpireIfDue(k)
             \/ \E a \in Addr : Reject(a, k)
             \/ Cancel(k)
             \/ Fail(k)
             \/ Close(k)
      PROVE  Obedient(id)
  <2>1. \E s \in States \ {"Executed"} :
          /\ Stored(k) /\ MoveTo(k, s) /\ <<proposals[k].state, s>> \in LegalEdges
    BY <1>7 DEF ExpireIfDue, Reject, Cancel, Fail, Close, Addressed, Due, IsLive,
                MayTransition, LegalEdges, States
  <2> QED
    BY <1>1, <2>1, MovedAlong
<1>8. ASSUME NEW ids \in SUBSET Ids, PruneExpired(ids) PROVE Obedient(id)
  <2>1. proposals'[id] = IF id \in ids /\ Prunable(id) /\ Due(id)
                           THEN [proposals[id] EXCEPT !.state = "Expired"]
                           ELSE proposals[id]
    BY <1>8 DEF PruneExpired
  <2>2. CASE id \in ids /\ Prunable(id) /\ Due(id)
    <3>1. /\ id \notin purged /\ proposals[id].state \in {"Pending", "Approved"}
          /\ proposals'[id] = [proposals[id] EXCEPT !.state = "Expired"]
      BY <2>1, <2>2 DEF Prunable, Stored, Due, IsLive
    <3>2. proposals[id] \in ProposalRecord
      BY <1>1 DEF TypeOK, Ids
    <3>3. proposals'[id].state = "Expired"
      BY <3>1, <3>2 DEF ProposalRecord
    <3> QED
      BY <3>1, <3>3 DEF Obedient, Executes, LegalEdges
  <2> QED
    BY <2>1, <2>2, Untouched
<1> QED
  BY <1>3, <1>4, <1>5, <1>6, <1>7, <1>8 DEF Next, Entrypoint

\* The lifecycle of the interfaces crate is kept by every entrypoint.
THEOREM LifecycleIsKept == Spec => LifecycleKept
<1>1. Inv /\ [Next]_vars =>
        [\A id \in Ids :
           LET from == proposals[id].state to == proposals'[id].state IN
           /\ from # to => <<from, to>> \in LegalEdges
           /\ id \in purged => proposals'[id] = proposals[id]]_vars
  BY EveryStep DEF Obedient
<1> QED
  BY <1>1, Invariant, PTL DEF Spec, LifecycleKept

\* Cooling off: what executes has been carried for at least the time-lock.
THEOREM CoolsOff == Spec => CoolingOff
<1>1. ASSUME Inv, [Next]_vars, NEW id \in Ids, Executes(id)
      PROVE  /\ now >= proposals[id].carried_at + timelock
             /\ now >= proposals[id].approved_at + timelock
  <2>1. Execute(id)
    BY <1>1, EveryStep DEF Obedient
  <2>2. Released(id) /\ proposals[id].state = "Approved"
    BY <2>1 DEF Execute
  <2>3. proposals[id] \in ProposalRecord
    BY <1>1 DEF Inv, TypeOK, Ids
  <2>4. /\ proposals[id].carried_at \in Nat /\ proposals[id].approved_at \in Nat
        /\ timelock \in Nat /\ now \in Nat
    <3>1. timelock \in Nat /\ now \in Nat
      BY <1>1, ProposalAssumption DEF Inv, TypeOK
    <3> QED
      BY <2>3, <3>1 DEF ProposalRecord
  <2>5. /\ proposals[id].carried_at <= proposals[id].approved_at
        /\ proposals[id].approved_at <= now /\ proposals[id].approved_at >= 1
    BY <1>1, <2>2 DEF Inv, Stamps
  <2> QED
    BY <2>2, <2>4, <2>5 DEF Released, IsArmed
<1>2. Inv /\ [Next]_vars =>
        [\A id \in Ids : Executes(id) =>
           /\ now >= proposals[id].carried_at + timelock
           /\ now >= proposals[id].approved_at + timelock]_vars
  BY <1>1
<1> QED
  BY <1>2, Invariant, PTL DEF Spec, CoolingOff

\* Execution rests on a strict majority of the allow-list who are signers at
\* that moment and weigh what the multisig asks for.
THEOREM ExecutesOnSupport == Spec => ExecutedOnSupport
<1> DEFINE backers(id) == {a \in approvals[id] \cap TermsOf(id).approvers : weight[a] > 0}
<1>1. ASSUME Inv, [Next]_vars, NEW id \in Ids, Executes(id)
      PROVE  /\ 2 * Cardinality(backers(id)) > Cardinality(TermsOf(id).approvers)
             /\ Cardinality(backers(id)) >= TermsOf(id).threshold
             /\ WeightOf(weight, backers(id)) >= quorum
  <2>1. Execute(id)
    BY <1>1, EveryStep DEF Obedient
  <2>2. Supported(id)
    BY <2>1 DEF Execute
  <2>3. backers(id) = Counted(id, approvals[id])
    BY DEF Counted, IsSigner
  <2> HIDE DEF backers
  <2>4. proposals[id] \in ProposalRecord
    BY <1>1 DEF Inv, TypeOK, Ids
  <2>5. TermsOf(id).approvers \in SUBSET Addr
    BY <2>4 DEF TermsOf, ProposalRecord, Term
  <2>6. Cardinality(TermsOf(id).approvers) \in Nat
    BY <2>5, FS_Subset, FS_CardinalityType, ProposalAssumption
  <2>7. LiveApprovals(id, approvals[id]) \in Nat
    BY <1>1, TallyTyped DEF Inv
  <2>8. /\ LiveApprovals(id, approvals[id]) >= Cardinality(TermsOf(id).approvers) \div 2 + 1
        /\ LiveApprovals(id, approvals[id]) >= TermsOf(id).threshold
        /\ LiveWeight(id, approvals[id]) >= quorum
    BY <2>2 DEF Supported, BarsMet, MajorityRequired
  <2>9. 2 * LiveApprovals(id, approvals[id]) > Cardinality(TermsOf(id).approvers)
    BY <2>6, <2>7, <2>8
  <2> QED
    BY <2>3, <2>8, <2>9 DEF LiveApprovals, LiveWeight
<1>2. Inv /\ [Next]_vars =>
        [\A id \in Ids : Executes(id) =>
           /\ 2 * Cardinality(backers(id)) > Cardinality(TermsOf(id).approvers)
           /\ Cardinality(backers(id)) >= TermsOf(id).threshold
           /\ WeightOf(weight, backers(id)) >= quorum]_vars
  BY <1>1
<1> QED
  BY <1>2, Invariant, PTL DEF Spec, ExecutedOnSupport
=============================================================================
