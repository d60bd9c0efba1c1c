--------------------------- MODULE RegistryProofs ---------------------------
(* Machine-checked proofs about Registry, for every value of its constants. *)
EXTENDS Registry, SumProofs

-----------------------------------------------------------------------------
(* The filtering loop of the administrator list                             *)

\* g holds the list built so far after each turn of the loop.
Keeps(g, s, gone) ==
  g = [i \in 0..Len(s) |->
         IF i = 0 THEN <<>>
         ELSE IF s[i] \in gone THEN g[i - 1] ELSE Append(g[i - 1], s[i])]

\* Such a g exists, built for one turn more at a time.
LEMMA KeepsExists ==
  ASSUME NEW s, NEW gone, Len(s) \in Nat
  PROVE  \E g : Keeps(g, s, gone)
<1> DEFINE Step(g, i) == IF i = 0 THEN <<>>
                         ELSE IF s[i] \in gone THEN g[i - 1] ELSE Append(g[i - 1], s[i])
           Good(n) == \E g : g = [i \in 0..n |-> Step(g, i)]
           Bad == {n \in Nat : ~ Good(n)}
<1>1. Good(0)
  <2> DEFINE h == [i \in 0..0 |-> <<>>]
  <2>1. h = [i \in 0..0 |-> Step(h, i)]
    OBVIOUS
  <2> QED
    BY <2>1
<1>2. ASSUME NEW n \in Nat, Good(n) PROVE Good(n + 1)
  <2>1. PICK g : g = [i \in 0..n |-> Step(g, i)]
    BY <1>2
  <2> DEFINE h == [i \in 0..(n + 1) |-> Step(g, i)]
  <2>2. \A i \in 0..n : h[i] = g[i]
    <3> HIDE DEF Step
    <3>1. \A i \in 0..n : g[i] = Step(g, i)
      BY <2>1
    <3>2. \A i \in 0..n : i \in 0..(n + 1)
      OBVIOUS
    <3> QED
      BY <3>1, <3>2
  <2>3. \A i \in 1..(n + 1) : h[i - 1] = g[i - 1]
    <3> HIDE DEF h
    <3>1. \A i \in 1..(n + 1) : i - 1 \in 0..n
      OBVIOUS
    <3> QED
      BY <2>2, <3>1
  <2>4. \A i \in 0..(n + 1) : Step(g, i) = Step(h, i)
    <3> HIDE DEF h
    <3> QED
      BY <2>3
  <2>5. h = [i \in 0..(n + 1) |-> Step(h, i)]
    <3> HIDE DEF Step
    <3> QED
      BY <2>4
  <2> HIDE DEF h
  <2> QED
    BY <2>5
<1>3. Bad = {}
  <2> SUFFICES ASSUME Bad # {} PROVE FALSE
    OBVIOUS
  <2> HIDE DEF Good
  <2>1. PICK n \in Bad : \A m \in Bad : n <= m
    BY LeastNatural
  <2>2. n # 0 /\ n - 1 \in Nat /\ n - 1 \notin Bad
    BY <1>1, <2>1
  <2> QED
    BY <1>2, <2>1, <2>2
<1>4. Good(Len(s))
  <2> HIDE DEF Good
  <2> QED
    BY <1>3
<1> QED
  BY <1>4 DEF Keeps

NoDuplicates(s) == \A i, j \in DOMAIN s : s[i] = s[j] => i = j

\* What the loop leaves: the entries of s that are not in gone, each as often
\* as before, in a list that is shorter when one was dropped.
LEMMA WithoutFacts ==
  ASSUME NEW A, NEW s \in Seq(A), NEW gone
  PROVE  /\ Without(s, gone) \in Seq(A)
         /\ Range(Without(s, gone)) = Range(s) \ gone
         /\ NoDuplicates(s) => NoDuplicates(Without(s, gone))
         /\ Len(Without(s, gone)) <= Len(s)
         /\ (\E x \in Range(s) : x \in gone) => Len(Without(s, gone)) < Len(s)
<1> DEFINE g == CHOOSE h : Keeps(h, s, gone)
<1>1. Without(s, gone) = g[Len(s)]
  BY DEF Without, Keeps
<1>2. Keeps(g, s, gone)
  BY KeepsExists
<1> HIDE DEF g
<1>3. g[0] = <<>>
  BY <1>2 DEF Keeps
<1>4. \A i \in 1..Len(s) :
        g[i] = IF s[i] \in gone THEN g[i - 1] ELSE Append(g[i - 1], s[i])
  <2> DEFINE Step(i) == IF i = 0 THEN <<>>
                        ELSE IF s[i] \in gone THEN g[i - 1] ELSE Append(g[i - 1], s[i])
  <2>1. g = [i \in 0..Len(s) |-> Step(i)]
    BY <1>2 DEF Keeps
  <2>2. \A i \in 1..Len(s) : i \in 0..Len(s) /\ i # 0
    OBVIOUS
  <2>3. \A i \in 1..Len(s) : g[i] = Step(i)
    <3> HIDE DEF Step
    <3> QED
      BY <2>1, <2>2
  <2> QED
    BY <2>2, <2>3
<1> DEFINE Kept(i) == {j \in 1..i : s[j] \notin gone}
           Law(i) == /\ g[i] \in Seq(A)
                     /\ Len(g[i]) <= i
                     /\ \A k \in 1..Len(g[i]) : \E j \in Kept(i) : g[i][k] = s[j]
                     /\ \A j \in Kept(i) : \E k \in 1..Len(g[i]) : g[i][k] = s[j]
                     /\ NoDuplicates(s) => NoDuplicates(g[i])
                     /\ (\E j \in 1..i : s[j] \in gone) => Len(g[i]) < i
<1>5. Law(0)
  BY <1>3 DEF NoDuplicates
<1>6. ASSUME NEW i \in 1..Len(s), Law(i - 1) PROVE Law(i)
  <2>1. s[i] \in A /\ i \in Nat /\ i - 1 \in Nat
    OBVIOUS
  <2>2. CASE s[i] \in gone
    <3>1. g[i] = g[i - 1] /\ Kept(i) = Kept(i - 1)
      BY <1>4, <2>2
    <3>2. Law(i - 1)
      BY <1>6
    <3>4. Len(g[i]) \in Nat /\ Len(g[i]) <= i - 1
      BY <3>1, <3>2
    <3> HIDE DEF Kept
    <3>5. /\ g[i] \in Seq(A)
          /\ \A k \in 1..Len(g[i]) : \E j \in Kept(i) : g[i][k] = s[j]
          /\ \A j \in Kept(i) : \E k \in 1..Len(g[i]) : g[i][k] = s[j]
          /\ NoDuplicates(s) => NoDuplicates(g[i])
      BY <3>1, <3>2
    <3>6. Len(g[i]) <= i /\ Len(g[i]) < i
      BY <2>1, <3>4
    <3> QED
      BY <3>5, <3>6
  <2>3. CASE s[i] \notin gone
    <3> DEFINE w == g[i - 1]
    <3>1. g[i] = Append(w, s[i]) /\ w \in Seq(A)
      BY <1>4, <1>6, <2>3
    <3>2. /\ g[i] \in Seq(A) /\ Len(g[i]) = Len(w) + 1
          /\ \A k \in 1..Len(w) : g[i][k] = w[k]
          /\ g[i][Len(w) + 1] = s[i]
      BY <2>1, <3>1
    <3>3. Len(w) <= i - 1 /\ ((\E j \in 1..(i - 1) : s[j] \in gone) => Len(w) < i - 1)
      BY <1>6
    <3>4. /\ \A k \in 1..Len(w) : \E j \in Kept(i - 1) : w[k] = s[j]
          /\ \A j \in Kept(i - 1) : \E k \in 1..Len(w) : w[k] = s[j]
      BY <1>6
    <3>5. Kept(i - 1) \subseteq Kept(i) /\ i \in Kept(i)
          /\ \A j \in Kept(i) : j = i \/ j \in Kept(i - 1)
      BY <2>3
    <3>6. NoDuplicates(s) => NoDuplicates(g[i])
      <4> SUFFICES ASSUME NoDuplicates(s), NEW k \in 1..(Len(w) + 1), NEW l \in 1..(Len(w) + 1),
                          g[i][k] = g[i][l]
                   PROVE  k = l
        <5>1. DOMAIN g[i] = 1..(Len(w) + 1)
          BY <3>2
        <5> HIDE DEF w
        <5> QED
          BY <5>1 DEF NoDuplicates
      <4>1. NoDuplicates(w)
        BY <1>6
      <4>2. \A m \in 1..Len(w) : w[m] # s[i]
        <5> SUFFICES ASSUME NEW m \in 1..Len(w), w[m] = s[i] PROVE FALSE
          OBVIOUS
        <5>1. PICK j \in Kept(i - 1) : s[j] = s[i]
          BY <3>4
        <5>2. j \in DOMAIN s /\ i \in DOMAIN s /\ j # i
          OBVIOUS
        <5> QED
          BY <5>1, <5>2 DEF NoDuplicates
      <4>3. Len(w) \in Nat
        BY <3>1
      <4>4. CASE k <= Len(w) /\ l <= Len(w)
        <5>1. w[k] = w[l]
          BY <3>2, <4>3, <4>4
        <5> QED
          BY <3>1, <4>1, <4>3, <4>4, <5>1 DEF NoDuplicates
      <4>5. CASE k = Len(w) + 1 /\ l <= Len(w)
        <5>1. l \in 1..Len(w) /\ w[l] = s[i]
          BY <3>2, <4>3, <4>5
        <5> QED
          BY <4>2, <5>1
      <4>6. CASE l = Len(w) + 1 /\ k <= Len(w)
        <5>1. k \in 1..Len(w) /\ w[k] = s[i]
          BY <3>2, <4>3, <4>6
        <5> QED
          BY <4>2, <5>1
      <4> QED
        BY <4>3, <4>4, <4>5, <4>6
    <3>7. \A k \in 1..Len(g[i]) : \E j \in Kept(i) : g[i][k] = s[j]
      <4> TAKE k \in 1..Len(g[i])
      <4>0. Len(w) \in Nat
        BY <3>1
      <4>1. CASE k = Len(w) + 1
        BY <3>2, <3>5, <4>1
      <4>2. CASE k \in 1..Len(w)
        BY <3>2, <3>4, <3>5, <4>2
      <4> QED
        BY <3>2, <4>0, <4>1, <4>2
    <3>8. \A j \in Kept(i) : \E k \in 1..Len(g[i]) : g[i][k] = s[j]
      <4> TAKE j \in Kept(i)
      <4>0. Len(w) \in Nat /\ Len(w) + 1 \in 1..Len(g[i]) /\ 1..Len(w) \subseteq 1..Len(g[i])
        BY <3>1, <3>2
      <4>1. CASE j = i
        BY <3>2, <4>0, <4>1
      <4>2. CASE j \in Kept(i - 1)
        <5>1. PICK k \in 1..Len(w) : w[k] = s[j]
          BY <3>4, <4>2
        <5> QED
          BY <3>2, <4>0, <5>1
      <4> QED
        BY <3>5, <4>1, <4>2
    <3>9. (\E j \in 1..i : s[j] \in gone) => (\E j \in 1..(i - 1) : s[j] \in gone)
      BY <2>3
    <3>10. Len(w) \in Nat
      BY <3>1
    <3> HIDE DEF Kept, w
    <3>11. PICK l \in Nat : l = Len(w) /\ Len(g[i]) = l + 1 /\ l <= i - 1
      BY <3>2, <3>3, <3>10
    <3>12. Len(g[i]) <= i
      BY <2>1, <3>11
    <3>13. (\E j \in 1..i : s[j] \in gone) => Len(g[i]) < i
      <4> SUFFICES ASSUME \E j \in 1..i : s[j] \in gone PROVE Len(g[i]) < i
        OBVIOUS
      <4>1. l < i - 1
        BY <3>3, <3>9, <3>11
      <4> QED
        BY <2>1, <3>11, <4>1
    <3> QED
      BY <3>2, <3>6, <3>7, <3>8, <3>12, <3>13
  <2> QED
    BY <2>2, <2>3
<1>7. \A i \in 0..Len(s) : Law(i)
  <2> HIDE DEF Law
  <2> DEFINE Bad == {i \in 0..Len(s) : ~ Law(i)}
  <2> SUFFICES ASSUME Bad # {} PROVE FALSE
    OBVIOUS
  <2>1. PICK n \in Bad : \A m \in Bad : n <= m
    <3>1. Bad \in SUBSET Nat
      OBVIOUS
    <3> HIDE DEF Bad
    <3> QED
      BY <3>1, LeastNatural
  <2>2. n # 0 /\ n - 1 \in 0..Len(s) /\ n - 1 \notin Bad
    BY <1>5, <2>1
  <2> QED
    BY <1>6, <2>1, <2>2
<1>8. Law(Len(s))
  <2> HIDE DEF Law
  <2> QED
    BY <1>7
<1>9. Range(g[Len(s)]) = Range(s) \ gone
  <2> DEFINE w == g[Len(s)]
  <2>1. w \in Seq(A) /\ DOMAIN w = 1..Len(w) /\ DOMAIN s = 1..Len(s)
    BY <1>8
  <2>2. \A x \in Range(w) : x \in Range(s) \ gone
    <3> SUFFICES ASSUME NEW k \in 1..Len(w) PROVE w[k] \in Range(s) \ gone
      BY <2>1 DEF Range
    <3>1. PICK j \in Kept(Len(s)) : w[k] = s[j]
      BY <1>8
    <3> QED
      BY <2>1, <3>1 DEF Range
  <2>3. \A x \in Range(s) \ gone : x \in Range(w)
    <3> SUFFICES ASSUME NEW j \in 1..Len(s), s[j] \notin gone PROVE s[j] \in Range(w)
      BY <2>1 DEF Range
    <3>1. PICK k \in 1..Len(w) : w[k] = s[j]
      BY <1>8
    <3> QED
      BY <2>1, <3>1 DEF Range
  <2> QED
    BY <2>2, <2>3
<1>10. (\E x \in Range(s) : x \in gone) => \E j \in 1..Len(s) : s[j] \in gone
  BY DEF Range
<1> QED
  BY <1>1, <1>8, <1>9, <1>10

\* A nonempty bounded set of naturals has a greatest element, and Max is it.
LEMMA MaxFacts ==
  ASSUME NEW n \in Nat, NEW S \in SUBSET (0..n), S # {}
  PROVE  Max(S) \in S /\ \A y \in S : y <= Max(S)
<1> DEFINE B == {m \in Nat : m <= n /\ n - m \in S}
<1>1. B \in SUBSET Nat /\ B # {}
  <2>1. PICK x \in S : TRUE
    OBVIOUS
  <2>2. n - x \in B
    BY <2>1
  <2> QED
    BY <2>2
<1>2. PICK m \in B : \A k \in B : m <= k
  <2> HIDE DEF B
  <2> QED
    BY <1>1, LeastNatural
<1>3. n - m \in S /\ \A y \in S : n - m >= y
  <2>1. n - m \in S
    BY <1>2
  <2>2. ASSUME NEW y \in S PROVE n - m >= y
    <3>1. n - y \in B
      OBVIOUS
    <3>2. m \in Nat /\ m <= n - y /\ y \in Nat
      BY <1>2, <3>1
    <3> QED
      BY <3>2
  <2> QED
    BY <2>1, <2>2
<1>4. \E x \in S : \A y \in S : x >= y
  BY <1>3
<1>5. Max(S) \in S /\ \A y \in S : Max(S) >= y
  BY <1>4 DEF Max
<1> QED
  BY <1>5

-----------------------------------------------------------------------------
(* Type correctness                                                         *)

GovernanceOK ==
  /\ admin \in Addr \cup {Unset} /\ multisig \in Addr \cup {Unset} /\ frozen \in BOOLEAN
  /\ admins \in Seq(Addr) /\ Len(admins) <= MaxApprovers
  /\ NoDuplicates(admins)
  /\ admin # Unset => admin \in Range(admins)

OrganizationsOK ==
  /\ owner \in [Org -> Addr \cup {Unset}]
  /\ role \in [Org -> [Addr -> RegistryRole \cup {Unset}]]
  /\ module \in [Org -> [Kind -> Addr \cup {Unset}]]
  /\ deprecated \in [Org -> [Kind -> BOOLEAN]]
  /\ pin \in [Org -> [Kind -> 0..MaxVersion]]

VersionsOK ==
  /\ record \in [Kind -> [Version -> VersionRecord \cup {Unset}]]
  /\ legacy \in [Kind -> [Version -> Addr \cup {Unset}]]
  /\ latest \in [Kind -> 0..MaxVersion]

ProposalsOK ==
  /\ pending \in [Kind -> UpgradeProposal \cup {Unset}]
  /\ audit \in Seq(UpgradeAuditRecord) /\ Len(audit) <= MaxAudit

OthersOK ==
  /\ now \in 0..MaxTime
  /\ approved \subseteq Kind \X Hash
  /\ registryVersion \in 0..MaxVersion
  /\ GateTypeOK
  /\ calls \in [Area -> Nat]

\* The type invariant is the conjunction of its parts.
LEMMA TypeParts ==
  /\ TypeOK <=> GovernanceOK /\ OrganizationsOK /\ VersionsOK /\ ProposalsOK /\ OthersOK
  /\ TypeOK' <=>
       GovernanceOK' /\ OrganizationsOK' /\ VersionsOK' /\ ProposalsOK' /\ OthersOK'
  BY DEF TypeOK, GovernanceOK, OrganizationsOK, VersionsOK, ProposalsOK, OthersOK,
         NoDuplicates

\* What an action leaves alone keeps its type.
LEMMA TypeFrame ==
  /\ GovernanceOK /\ UNCHANGED governance => GovernanceOK'
  /\ OrganizationsOK /\ UNCHANGED organizations => OrganizationsOK'
  /\ VersionsOK /\ UNCHANGED versions => VersionsOK'
  /\ ProposalsOK /\ UNCHANGED proposals => ProposalsOK'
  /\ OthersOK /\ UNCHANGED <<now, approved, registryVersion, gate>>
       /\ calls' \in [Area -> Nat] => OthersOK'
  BY DEF GovernanceOK, OrganizationsOK, VersionsOK, ProposalsOK, OthersOK, governance,
         organizations, versions, proposals, gate, GateTypeOK, NoDuplicates, Range

\* The call counters are numbers.
LEMMA CountedType ==
  ASSUME calls \in [Area -> Nat], NEW area \in Area, Counted(area)
  PROVE  calls' \in [Area -> Nat]
  BY DEF Counted

\* Governance calls keep the types.
LEMMA GovernanceType ==
  ASSUME TypeOK, NEW caller \in Caller, Governance(caller)
  PROVE  TypeOK'
<1> USE GateAssumption, RegistryAssumption
<1>0. /\ GovernanceOK /\ OrganizationsOK /\ VersionsOK /\ ProposalsOK /\ OthersOK
      /\ Caller \subseteq Addr /\ "governance" \in Area /\ MaxApprovers \in Nat
      /\ calls \in [Area -> Nat]
  BY TypeParts DEF Area, OthersOK
<1> SUFFICES /\ GovernanceOK'
             /\ UNCHANGED <<now, organizations, versions, approved, proposals,
                            registryVersion, gate>>
             /\ calls' \in [Area -> Nat]
  BY <1>0, TypeParts, TypeFrame
<1>1. CASE Initialize(caller)
  <2>1. <<caller>> \in Seq(Addr) /\ Len(<<caller>>) = 1 /\ caller \in Range(<<caller>>)
        /\ NoDuplicates(<<caller>>)
    BY <1>0 DEF Range, NoDuplicates
  <2> QED
    BY <1>0, <1>1, <2>1 DEF Initialize, GovernanceOK
<1>2. CASE RemoveMultisig(caller)
  BY <1>0, <1>2, CountedType DEF RemoveMultisig, GovernanceOK, NoDuplicates, Range
<1>3. ASSUME NEW a \in Caller, SetAdmin(caller, a)
      PROVE  GovernanceOK' /\ calls' \in [Area -> Nat]
  <2> DEFINE w == Without(admins, {admin, a})
  <2>1. /\ w \in Seq(Addr) /\ Range(w) = Range(admins) \ {admin, a}
        /\ NoDuplicates(w) /\ Len(w) < Len(admins)
    <3>1. admin \in Range(admins) /\ admins \in Seq(Addr) /\ NoDuplicates(admins)
      BY <1>0, <1>3 DEF SetAdmin, RequireAdmin, GovernanceOK
    <3> QED
      BY <3>1, WithoutFacts
  <2>2. admin' = a /\ admins' = Append(w, a) /\ UNCHANGED <<multisig, frozen>>
    BY <1>3 DEF SetAdmin
  <2> HIDE DEF w
  <2>3. /\ admins' \in Seq(Addr) /\ Len(admins') = Len(w) + 1
        /\ \A i \in 1..Len(w) : admins'[i] = w[i]
        /\ admins'[Len(w) + 1] = a
    BY <1>0, <2>1, <2>2
  <2>4. \A i \in 1..Len(w) : w[i] # a
    BY <2>1 DEF Range
  <2>5. Len(w) \in Nat /\ Len(admins) \in Nat
    BY <1>0, <2>1 DEF GovernanceOK
  <2>6. NoDuplicates(admins')
    <3> SUFFICES ASSUME NEW i \in 1..(Len(w) + 1), NEW j \in 1..(Len(w) + 1),
                        admins'[i] = admins'[j]
                 PROVE  i = j
      <4>1. DOMAIN admins' = 1..(Len(w) + 1)
        BY <2>3
      <4> QED
        BY <4>1 DEF NoDuplicates
    <3>1. CASE i <= Len(w) /\ j <= Len(w)
      <4>1. w[i] = w[j] /\ i \in DOMAIN w /\ j \in DOMAIN w
        BY <2>1, <2>3, <2>5, <3>1
      <4> QED
        BY <2>1, <4>1 DEF NoDuplicates
    <3>2. CASE i = Len(w) + 1 /\ j <= Len(w)
      BY <2>3, <2>4, <2>5, <3>2
    <3>3. CASE j = Len(w) + 1 /\ i <= Len(w)
      BY <2>3, <2>4, <2>5, <3>3
    <3> QED
      BY <2>5, <3>1, <3>2, <3>3
  <2>7. a \in Range(admins')
    BY <2>3, <2>5 DEF Range
  <2>8. calls' \in [Area -> Nat]
    BY <1>0, <1>3, CountedType DEF SetAdmin
  <2> QED
    BY <1>0, <2>1, <2>2, <2>3, <2>5, <2>6, <2>7, <2>8 DEF GovernanceOK
<1>4. ASSUME NEW a \in Caller, AddAdmin(caller, a)
      PROVE  GovernanceOK' /\ calls' \in [Area -> Nat]
  <2>1. /\ admins \in Seq(Addr) /\ a \in Addr /\ a \notin Range(admins)
        /\ admins' = Append(admins, a) /\ Len(admins) < MaxApprovers
        /\ UNCHANGED <<admin, multisig, frozen>>
    BY <1>0, <1>4 DEF AddAdmin, GovernanceOK
  <2>2. /\ admins' \in Seq(Addr) /\ Len(admins') = Len(admins) + 1 /\ Len(admins) \in Nat
        /\ \A i \in 1..Len(admins) : admins'[i] = admins[i]
        /\ admins'[Len(admins) + 1] = a
    BY <2>1
  <2>3. \A i \in 1..Len(admins) : admins[i] # a
    BY <2>1 DEF Range
  <2>4. NoDuplicates(admins')
    <3> SUFFICES ASSUME NEW i \in 1..(Len(admins) + 1), NEW j \in 1..(Len(admins) + 1),
                        admins'[i] = admins'[j]
                 PROVE  i = j
      <4>1. DOMAIN admins' = 1..(Len(admins) + 1)
        BY <2>2
      <4> QED
        BY <4>1 DEF NoDuplicates
    <3>1. CASE i <= Len(admins) /\ j <= Len(admins)
      <4>1. admins[i] = admins[j] /\ i \in DOMAIN admins /\ j \in DOMAIN admins
        BY <2>1, <2>2, <3>1
      <4> QED
        BY <1>0, <4>1 DEF NoDuplicates, GovernanceOK
    <3>2. CASE i = Len(admins) + 1 /\ j <= Len(admins)
      BY <2>2, <2>3, <3>2
    <3>3. CASE j = Len(admins) + 1 /\ i <= Len(admins)
      BY <2>2, <2>3, <3>3
    <3> QED
      BY <2>2, <3>1, <3>2, <3>3
  <2>5. Range(admins) \subseteq Range(admins')
    <3>1. \A i \in DOMAIN admins : i \in DOMAIN admins' /\ admins'[i] = admins[i]
      BY <2>1, <2>2
    <3> QED
      BY <3>1 DEF Range
  <2>6. calls' \in [Area -> Nat]
    BY <1>0, <1>4, CountedType DEF AddAdmin
  <2> QED
    BY <1>0, <2>1, <2>2, <2>4, <2>5, <2>6 DEF GovernanceOK
<1>5. ASSUME NEW a \in Caller, RemoveAdmin(caller, a)
      PROVE  GovernanceOK' /\ calls' \in [Area -> Nat]
  <2>1. /\ admins \in Seq(Addr) /\ NoDuplicates(admins) /\ a \in Range(admins)
        /\ Len(admins) > 1 /\ admin \in Range(admins) /\ Len(admins) \in Nat
        /\ admins' = Without(admins, {a})
        /\ admin' = IF a = admin THEN Head(admins') ELSE admin
        /\ UNCHANGED <<multisig, frozen>>
    BY <1>0, <1>5 DEF RemoveAdmin, RequireAdmin, GovernanceOK
  <2>2. /\ admins' \in Seq(Addr) /\ Range(admins') = Range(admins) \ {a}
        /\ NoDuplicates(admins') /\ Len(admins') < Len(admins)
    BY <2>1, WithoutFacts
  <2>3. \E x \in Range(admins) : x # a
    <3>1. 1 \in DOMAIN admins /\ 2 \in DOMAIN admins
      BY <2>1
    <3>2. admins[1] # admins[2]
      BY <2>1, <3>1 DEF NoDuplicates
    <3> QED
      BY <3>1, <3>2 DEF Range
  <2>4. Len(admins') # 0
    <3> SUFFICES ASSUME Len(admins') = 0 PROVE FALSE
      OBVIOUS
    <3>1. DOMAIN admins' = {}
      BY <2>2
    <3> QED
      BY <2>2, <2>3, <3>1 DEF Range
  <2>5. Head(admins') \in Range(admins')
    <3>1. 1 \in DOMAIN admins' /\ Head(admins') = admins'[1]
      BY <2>2, <2>4
    <3> QED
      BY <3>1 DEF Range
  <2>6. Range(admins') \subseteq Addr
    BY <2>2 DEF Range
  <2>7. admin' \in Range(admins')
    BY <2>1, <2>2, <2>5
  <2>8. Len(admins') \in Nat
    BY <2>2
  <2>9. Len(admins') <= MaxApprovers
    BY <1>0, <2>1, <2>2, <2>8 DEF GovernanceOK
  <2>10. calls' \in [Area -> Nat]
    BY <1>0, <1>5, CountedType DEF RemoveAdmin
  <2> QED
    BY <1>0, <2>1, <2>2, <2>6, <2>7, <2>9, <2>10 DEF GovernanceOK
<1>6. ASSUME NEW a \in Caller, SetMultisig(caller, a)
      PROVE  GovernanceOK' /\ calls' \in [Area -> Nat]
  BY <1>0, <1>6, CountedType DEF SetMultisig, GovernanceOK, NoDuplicates, Range
<1>7. ASSUME NEW o \in Org, Freeze(caller, o) \/ Unfreeze(caller, o)
      PROVE  GovernanceOK' /\ calls' \in [Area -> Nat]
  BY <1>0, <1>7, CountedType DEF Freeze, Unfreeze, GovernanceOK, NoDuplicates, Range
<1>8. UNCHANGED <<now, organizations, versions, approved, proposals, registryVersion, gate>>
  BY DEF Governance, Initialize, RemoveMultisig, SetAdmin, AddAdmin, RemoveAdmin,
         SetMultisig, Freeze, Unfreeze
<1> QED
  BY <1>1, <1>2, <1>3, <1>4, <1>5, <1>6, <1>7, <1>8 DEF Governance

\* A version that was read is a record of the table.
LEMMA ReadVersionType ==
  ASSUME VersionsOK, NEW k \in Kind, NEW v \in Version, ReadVersion(k, v) # Unset
  PROVE  ReadVersion(k, v) \in VersionRecord
  BY DEF ReadVersion, VersionsOK, VersionRecord

\* Calls on an organization keep the types.
LEMMA OrganizationType ==
  ASSUME TypeOK, NEW caller \in Caller, NEW o \in Org, Organization(caller, o)
  PROVE  TypeOK'
<1> USE GateAssumption, RegistryAssumption
<1>0. /\ GovernanceOK /\ OrganizationsOK /\ VersionsOK /\ ProposalsOK /\ OthersOK
      /\ Caller \subseteq Addr /\ "organization" \in Area /\ calls \in [Area -> Nat]
  BY TypeParts DEF Area, OthersOK
<1> SUFFICES OrganizationsOK' /\ UNCHANGED others /\ calls' \in [Area -> Nat]
  BY <1>0, TypeParts, TypeFrame DEF others
<1>1. ASSUME NEW a \in Caller,
             RegisterOrg(caller, o, a) \/ SetOrgOwner(caller, o, a)
      PROVE  OrganizationsOK' /\ UNCHANGED others /\ calls' \in [Area -> Nat]
  BY <1>0, <1>1, CountedType DEF RegisterOrg, SetOrgOwner, OrganizationsOK
<1>2. ASSUME NEW a \in Caller, NEW r \in Roles \cup {Unset},
             /\ role' = [role EXCEPT ![o][a] = r]
             /\ UNCHANGED <<owner, module, deprecated, pin>>
      PROVE  OrganizationsOK'
  BY <1>0, <1>2 DEF OrganizationsOK
<1>3. ASSUME NEW a \in Caller, RevokeRole(caller, o, a)
      PROVE  OrganizationsOK' /\ UNCHANGED others /\ calls' \in [Area -> Nat]
  BY <1>0, <1>2, <1>3, CountedType DEF RevokeRole
<1>4. ASSUME NEW a \in Caller, NEW r \in Roles, GrantRole(caller, o, a, r)
      PROVE  OrganizationsOK' /\ UNCHANGED others /\ calls' \in [Area -> Nat]
  BY <1>0, <1>2, <1>4, CountedType DEF GrantRole
<1>5. ASSUME NEW k \in Kind, NEW a \in Addr \cup {Unset}, NEW v \in 0..MaxVersion,
             Repoint(o, k, a, v), Counted("organization")
      PROVE  OrganizationsOK' /\ UNCHANGED others /\ calls' \in [Area -> Nat]
  <2>1. calls' \in [Area -> Nat]
    BY <1>0, <1>5, CountedType
  <2>2. /\ module' = [module EXCEPT ![o][k] = a]
        /\ pin' = [pin EXCEPT ![o][k] = v]
        /\ deprecated' = [deprecated EXCEPT ![o][k] = FALSE]
        /\ UNCHANGED <<owner, role, others>>
    BY <1>5 DEF Repoint
  <2>3. module' \in [Org -> [Kind -> Addr \cup {Unset}]]
    BY <1>0, <2>2 DEF OrganizationsOK
  <2>4. pin' \in [Org -> [Kind -> 0..MaxVersion]]
    BY <1>0, <2>2 DEF OrganizationsOK
  <2>5. deprecated' \in [Org -> [Kind -> BOOLEAN]]
    BY <1>0, <2>2 DEF OrganizationsOK
  <2> QED
    BY <1>0, <2>1, <2>2, <2>3, <2>4, <2>5 DEF OrganizationsOK
<1>6. ASSUME NEW k \in Kind, NEW v \in Version, ResolveUpgradeTarget(o, k, v)
      PROVE  ReadVersion(k, v).address \in Addr /\ v \in 0..MaxVersion
  <2>1. ReadVersion(k, v) \in VersionRecord
    BY <1>0, <1>6, ReadVersionType DEF ResolveUpgradeTarget, Bound, Published
  <2> QED
    BY <2>1 DEF VersionRecord, Version
<1>7. ASSUME NEW k \in Kind, NEW flag \in BOOLEAN, SetDeprecated(caller, o, k, flag)
      PROVE  OrganizationsOK' /\ UNCHANGED others /\ calls' \in [Area -> Nat]
  <2>1. calls' \in [Area -> Nat]
    BY <1>0, <1>7, CountedType DEF SetDeprecated
  <2>2. deprecated' \in [Org -> [Kind -> BOOLEAN]]
    BY <1>0, <1>7 DEF SetDeprecated, OrganizationsOK
  <2> QED
    BY <1>0, <1>7, <2>1, <2>2 DEF SetDeprecated, OrganizationsOK
<1>8. ASSUME NEW k \in Kind,
             \/ \E a \in Target : RegisterModule(caller, o, k, a)
             \/ \E v \in Version : \/ UpgradeModule(caller, o, k, v)
                                   \/ RegisterModuleVersion(caller, o, k, v)
             \/ RemoveModule(caller, o, k)
             \/ DeprecateModule(caller, o, k)
             \/ ReactivateModule(caller, o, k)
      PROVE  OrganizationsOK' /\ UNCHANGED others /\ calls' \in [Area -> Nat]
  <2>1. 0 \in 0..MaxVersion
    OBVIOUS
  <2>2. ASSUME NEW a \in Target, RegisterModule(caller, o, k, a)
        PROVE  OrganizationsOK' /\ UNCHANGED others /\ calls' \in [Area -> Nat]
    BY <1>5, <2>1, <2>2 DEF RegisterModule
  <2>3. ASSUME NEW v \in Version,
               UpgradeModule(caller, o, k, v) \/ RegisterModuleVersion(caller, o, k, v)
        PROVE  OrganizationsOK' /\ UNCHANGED others /\ calls' \in [Area -> Nat]
    BY <1>5, <1>6, <2>3 DEF UpgradeModule, RegisterModuleVersion
  <2>4. CASE RemoveModule(caller, o, k)
    BY <1>5, <2>1, <2>4 DEF RemoveModule
  <2>5. CASE DeprecateModule(caller, o, k) \/ ReactivateModule(caller, o, k)
    BY <1>7, <2>5 DEF DeprecateModule, ReactivateModule
  <2> QED
    BY <1>8, <2>2, <2>3, <2>4, <2>5
<1> QED
  BY <1>1, <1>3, <1>4, <1>8 DEF Organization

\* The log stays a list of records within its limit.
LEMMA AuditType ==
  ASSUME ProposalsOK, NEW action \in UpgradeAction, NEW k \in Kind, NEW p \in UpgradeProposal,
         AppendAudit(action, k, p)
  PROVE  /\ audit' \in Seq(UpgradeAuditRecord) /\ Len(audit') <= MaxAudit
         /\ Len(audit') >= 1
         /\ audit'[1] = [action |-> action, kind |-> k, version |-> p.version,
                         wasm_hash |-> p.wasm_hash]
         /\ \A i \in 2..Len(audit') : i - 1 \in 1..Len(audit) /\ audit'[i] = audit[i - 1]
<1> USE RegistryAssumption
<1> DEFINE r == [action |-> action, kind |-> k, version |-> p.version,
                 wasm_hash |-> p.wasm_hash]
           log == <<r>> \o audit
           n == Min({Len(log), MaxAudit})
<1>1. r \in UpgradeAuditRecord
  BY DEF UpgradeAuditRecord, UpgradeProposal
<1>2. audit \in Seq(UpgradeAuditRecord) /\ Len(audit) \in Nat /\ Len(audit) <= MaxAudit
  BY DEF ProposalsOK
<1>3. audit' = SubSeq(log, 1, n)
  BY DEF AppendAudit
<1> HIDE DEF r
<1>4. /\ log \in Seq(UpgradeAuditRecord) /\ Len(log) = Len(audit) + 1
      /\ log[1] = r /\ \A i \in 2..Len(log) : log[i] = audit[i - 1]
  BY <1>1, <1>2
<1>5. n \in {Len(log), MaxAudit} /\ n <= Len(log) /\ n <= MaxAudit
  <2>1. \E x \in {Len(log), MaxAudit} : \A y \in {Len(log), MaxAudit} : x =< y
    BY <1>2, <1>4
  <2>2. n \in {Len(log), MaxAudit} /\ \A y \in {Len(log), MaxAudit} : n =< y
    BY <2>1 DEF Min
  <2> QED
    BY <2>2
<1> HIDE DEF log, n
<1>6. n \in Nat /\ n >= 1 /\ n <= Len(log)
  BY <1>2, <1>4, <1>5
<1>7. audit' \in Seq(UpgradeAuditRecord) /\ Len(audit') = n
      /\ \A i \in 1..n : audit'[i] = log[i]
  BY <1>3, <1>4, <1>6
<1>8. Len(audit') <= MaxAudit /\ Len(audit') >= 1
  BY <1>5, <1>6, <1>7
<1>9. audit'[1] = r
  BY <1>4, <1>6, <1>7
<1>10. \A i \in 2..Len(audit') : i - 1 \in 1..Len(audit) /\ audit'[i] = audit[i - 1]
  <2> TAKE i \in 2..Len(audit')
  <2>1. i \in 1..n /\ i \in 2..Len(log) /\ i - 1 \in 1..Len(audit)
    BY <1>2, <1>4, <1>6, <1>7
  <2> QED
    BY <1>4, <1>7, <2>1
<1> QED
  BY <1>7, <1>8, <1>9, <1>10 DEF r

\* Publications and proposals keep the types.
LEMMA PublicationType ==
  ASSUME TypeOK, NEW caller \in Caller, Publication(caller)
  PROVE  TypeOK'
<1> USE GateAssumption, RegistryAssumption
<1>0. /\ GovernanceOK /\ OrganizationsOK /\ VersionsOK /\ ProposalsOK /\ OthersOK
      /\ Caller \subseteq Addr /\ "publication" \in Area /\ calls \in [Area -> Nat]
      /\ now \in Nat
  BY TypeParts DEF Area, OthersOK
<1>1. ASSUME VersionsOK', ProposalsOK', approved' \subseteq Kind \X Hash,
             calls' \in [Area -> Nat],
             UNCHANGED <<now, governance, organizations, registryVersion, gate>>
      PROVE  TypeOK'
  <2>1. OthersOK'
    BY <1>0, <1>1 DEF OthersOK, gate, GateTypeOK
  <2> QED
    BY <1>0, <1>1, <2>1, TypeParts, TypeFrame
<1>2. ASSUME NEW r \in Release,
             AddApprovedWasm(caller, r.kind, r.hash) \/ RemoveApprovedWasm(caller, r.kind, r.hash)
      PROVE  TypeOK'
  <2>1. <<r.kind, r.hash>> \in Kind \X Hash
    BY DEF Release
  <2>2. approved' \subseteq Kind \X Hash
    BY <1>0, <1>2, <2>1 DEF AddApprovedWasm, RemoveApprovedWasm, OthersOK
  <2>3. calls' \in [Area -> Nat] /\ UNCHANGED <<now, governance, organizations, versions,
                                               proposals, registryVersion, gate>>
    BY <1>0, <1>2, CountedType DEF AddApprovedWasm, RemoveApprovedWasm
  <2> QED
    BY <1>0, <1>1, <2>2, <2>3, TypeFrame
<1>3. ASSUME NEW r \in Release,
             RegisterVersion(caller, r.kind, r.version, r.address, r.hash)
      PROVE  TypeOK'
  <2>1. /\ r.kind \in Kind /\ r.version \in Version
        /\ [address |-> r.address, hash |-> r.hash] \in VersionRecord
    BY DEF Release, VersionRecord
  <2>2. record' \in [Kind -> [Version -> VersionRecord \cup {Unset}]]
    BY <1>0, <1>3, <2>1 DEF RegisterVersion, VersionsOK
  <2>3. latest[r.kind] \in 0..MaxVersion /\ r.version \in 0..MaxVersion
    BY <1>0, <2>1 DEF VersionsOK, Version
  <2>4. Max({latest[r.kind], r.version}) \in 0..MaxVersion
    <3>1. Max({latest[r.kind], r.version}) \in {latest[r.kind], r.version}
      BY <2>3, MaxFacts
    <3> QED
      BY <2>3, <3>1
  <2>5. latest' \in [Kind -> 0..MaxVersion]
    BY <1>0, <1>3, <2>1, <2>4 DEF RegisterVersion, VersionsOK
  <2>6. VersionsOK'
    BY <1>0, <1>3, <2>2, <2>5 DEF RegisterVersion, VersionsOK
  <2>7. calls' \in [Area -> Nat] /\ UNCHANGED <<now, governance, organizations, approved,
                                               proposals, registryVersion, gate>>
    BY <1>0, <1>3, CountedType DEF RegisterVersion
  <2>8. ProposalsOK' /\ approved' \subseteq Kind \X Hash
    BY <1>0, <2>7, TypeFrame DEF OthersOK
  <2> QED
    BY <1>1, <2>6, <2>7, <2>8
<1>4. ASSUME NEW r \in Release, NEW o \in Org,
             ProposeUpgrade(caller, o, r.kind, r.version, r.hash, r.address)
      PROVE  TypeOK'
  <2> DEFINE p == [version |-> r.version, wasm_hash |-> r.hash, address |-> r.address,
                   org |-> o, proposer |-> caller, expires_at |-> now + Expiry]
  <2>1. p \in UpgradeProposal /\ r.kind \in Kind
    BY <1>0 DEF Release, UpgradeProposal
  <2>2. /\ pending' = [pending EXCEPT ![r.kind] = p]
        /\ AppendAudit("Proposed", r.kind, p)
        /\ Counted("publication")
        /\ UNCHANGED <<now, governance, organizations, versions, approved, registryVersion, gate>>
    BY <1>4 DEF ProposeUpgrade
  <2> HIDE DEF p
  <2>3. pending' \in [Kind -> UpgradeProposal \cup {Unset}]
    BY <1>0, <2>1, <2>2 DEF ProposalsOK
  <2>4. audit' \in Seq(UpgradeAuditRecord) /\ Len(audit') <= MaxAudit
    BY <1>0, <2>1, <2>2, AuditType DEF UpgradeAction
  <2>5. ProposalsOK'
    BY <2>3, <2>4 DEF ProposalsOK
  <2>6. VersionsOK' /\ approved' \subseteq Kind \X Hash /\ calls' \in [Area -> Nat]
    BY <1>0, <2>2, TypeFrame, CountedType DEF OthersOK
  <2> QED
    BY <1>1, <2>2, <2>5, <2>6
<1>5. ASSUME NEW k \in Kind, CommitUpgrade(caller, k)
      PROVE  TypeOK'
  <2> DEFINE p == pending[k]
  <2>1. p \in UpgradeProposal
    BY <1>0, <1>5 DEF CommitUpgrade, ProposalsOK
  <2>2. p.version \in Version /\ p.address \in Addr /\ p.wasm_hash \in Hash
        /\ p.version \in 0..MaxVersion
    BY <2>1 DEF UpgradeProposal, Version
  <2>3. /\ legacy' = [legacy EXCEPT ![k][p.version] = p.address]
        /\ latest' = [latest EXCEPT ![k] = p.version]
        /\ approved' = approved \cup {<<k, p.wasm_hash>>}
        /\ pending' = [pending EXCEPT ![k] = Unset]
        /\ AppendAudit("Committed", k, p)
        /\ Counted("publication")
        /\ UNCHANGED <<now, governance, organizations, record, registryVersion, gate>>
    BY <1>5 DEF CommitUpgrade
  <2> HIDE DEF p
  <2>4. VersionsOK'
    <3>1. legacy' \in [Kind -> [Version -> Addr \cup {Unset}]]
      BY <1>0, <2>2, <2>3 DEF VersionsOK
    <3>2. latest' \in [Kind -> 0..MaxVersion]
      BY <1>0, <2>2, <2>3 DEF VersionsOK
    <3> QED
      BY <1>0, <2>3, <3>1, <3>2 DEF VersionsOK
  <2>5. pending' \in [Kind -> UpgradeProposal \cup {Unset}]
    BY <1>0, <2>3 DEF ProposalsOK
  <2>6. audit' \in Seq(UpgradeAuditRecord) /\ Len(audit') <= MaxAudit
    BY <1>0, <2>1, <2>3, AuditType DEF UpgradeAction
  <2>7. ProposalsOK'
    BY <2>5, <2>6 DEF ProposalsOK
  <2>8. approved' \subseteq Kind \X Hash /\ calls' \in [Area -> Nat]
    BY <1>0, <2>2, <2>3, CountedType DEF OthersOK
  <2> QED
    BY <1>1, <2>3, <2>4, <2>7, <2>8
<1>6. ASSUME NEW k \in Kind, RejectUpgrade(caller, k)
      PROVE  TypeOK'
  <2> DEFINE p == pending[k]
  <2>1. p \in UpgradeProposal
    BY <1>0, <1>6 DEF RejectUpgrade, ProposalsOK
  <2>2. /\ pending' = [pending EXCEPT ![k] = Unset]
        /\ AppendAudit("Rejected", k, p)
        /\ Counted("publication")
        /\ UNCHANGED <<now, governance, organizations, versions, approved, registryVersion, gate>>
    BY <1>6 DEF RejectUpgrade
  <2> HIDE DEF p
  <2>3. pending' \in [Kind -> UpgradeProposal \cup {Unset}]
    BY <1>0, <2>2 DEF ProposalsOK
  <2>4. audit' \in Seq(UpgradeAuditRecord) /\ Len(audit') <= MaxAudit
    BY <1>0, <2>1, <2>2, AuditType DEF UpgradeAction
  <2>5. ProposalsOK'
    BY <2>3, <2>4 DEF ProposalsOK
  <2>6. VersionsOK' /\ approved' \subseteq Kind \X Hash /\ calls' \in [Area -> Nat]
    BY <1>0, <2>2, TypeFrame, CountedType DEF OthersOK
  <2> QED
    BY <1>1, <2>2, <2>5, <2>6
<1> QED
  BY <1>2, <1>3, <1>4, <1>5, <1>6 DEF Publication

\* The versions that carry a hash are finitely many, and Max picks one.
LEMMA CarryingFacts ==
  ASSUME VersionsOK, NEW hash, Carrying(hash) # {}
  PROVE  /\ Max(Carrying(hash)) \in Version
         /\ Max(Carrying(hash)) \in Carrying(hash)
<1> USE GateAssumption, RegistryAssumption
<1>1. Carrying(hash) \subseteq Version
  BY DEF Carrying, Bound, Published
<1>2. Carrying(hash) \in SUBSET (0..MaxVersion)
  BY <1>1 DEF Version
<1> QED
  BY <1>1, <1>2, MaxFacts

\* Code upgrades keep the types.
LEMMA CodeUpgradeType ==
  ASSUME TypeOK, NEW caller \in Caller, CodeUpgrade(caller)
  PROVE  TypeOK'
<1> USE GateAssumption, RegistryAssumption
<1>0. /\ GovernanceOK /\ OrganizationsOK /\ VersionsOK /\ ProposalsOK /\ OthersOK
      /\ Caller \subseteq Addr /\ "governance" \in Area /\ calls \in [Area -> Nat]
      /\ authority \in [Kind -> UpgradeAuthority \cup {Unset}]
      /\ running \in [Kind -> Hash \cup {Deployed}]
  BY TypeParts DEF Area, OthersOK, GateTypeOK
<1>1. ASSUME UNCHANGED records, GateTypeOK', calls' \in [Area -> Nat],
             registryVersion' \in 0..MaxVersion
      PROVE  TypeOK'
  <2>1. OthersOK'
    BY <1>0, <1>1 DEF OthersOK, records
  <2> QED
    BY <1>0, <1>1, <2>1, TypeParts, TypeFrame DEF records
<1>2. ASSUME NEW k \in Kind, NEW a \in Caller, NEW r \in Registries,
             SetUpgradeAuthority(k, caller, a, r)
      PROVE  TypeOK'
  <2>1. [admin |-> a, registry |-> r] \in UpgradeAuthority
    BY <1>0 DEF UpgradeAuthority
  <2>2. GateTypeOK'
    BY <1>0, <1>2, <2>1 DEF SetUpgradeAuthority, SetAuthority, GateTypeOK
  <2>3. calls' \in [Area -> Nat] /\ UNCHANGED <<records, registryVersion>>
    BY <1>0, <1>2, CountedType DEF SetUpgradeAuthority
  <2> QED
    BY <1>0, <1>1, <2>2, <2>3 DEF OthersOK
<1>3. ASSUME NEW k \in Kind, NEW h \in Hash, Apply(k, h) PROVE GateTypeOK'
  BY <1>0, <1>3 DEF Apply, GateTypeOK
<1>4. ASSUME NEW k \in Kind, NEW h \in Hash, UpgradeMember(k, caller, h)
      PROVE  TypeOK'
  <2>1. GateTypeOK' /\ UNCHANGED <<records, registryVersion, calls>>
    BY <1>3, <1>4 DEF UpgradeMember, Perform
  <2> QED
    BY <1>0, <1>1, <2>1 DEF OthersOK
<1>5. ASSUME NEW h \in Hash, Upgrade(caller, h)
      PROVE  TypeOK'
  <2>1. GateTypeOK' /\ UNCHANGED <<records, calls>>
    BY <1>3, <1>5 DEF Upgrade
  <2>2. registryVersion' \in Version
    BY <1>0, <1>5, CarryingFacts DEF Upgrade, PlanRegistryUpgrade
  <2> QED
    BY <1>0, <1>1, <2>1, <2>2 DEF Version
<1> QED
  BY <1>2, <1>4, <1>5 DEF CodeUpgrade

\* The registry starts well typed.
LEMMA TypeInit == Init => TypeOK
<1> USE GateAssumption, RegistryAssumption
<1> SUFFICES ASSUME Init PROVE TypeOK
  OBVIOUS
<1>1. GovernanceOK
  <2>1. admins \in Seq(Addr) /\ Len(admins) <= MaxApprovers /\ DOMAIN admins = {}
    BY DEF Init
  <2>2. admin = Unset /\ multisig = Unset /\ frozen = FALSE
    BY DEF Init
  <2> QED
    BY <2>1, <2>2 DEF GovernanceOK, NoDuplicates
<1>2. OrganizationsOK
  BY DEF Init, OrganizationsOK
<1>3. VersionsOK
  BY DEF Init, VersionsOK
<1>4. ProposalsOK
  BY DEF Init, ProposalsOK
<1>5. OthersOK
  BY DEF Init, OthersOK, GateInit, GateTypeOK
<1> QED
  BY <1>1, <1>2, <1>3, <1>4, <1>5, TypeParts

\* Every step keeps the types.
LEMMA TypeStep == TypeOK /\ [Next]_vars => TypeOK'
<1> USE RegistryAssumption
<1> SUFFICES ASSUME TypeOK, [Next]_vars PROVE TypeOK'
  OBVIOUS
<1>0. /\ GovernanceOK /\ OrganizationsOK /\ VersionsOK /\ ProposalsOK /\ OthersOK
  BY TypeParts
<1>1. CASE UNCHANGED vars
  <2>1. OthersOK'
    BY <1>0, <1>1 DEF vars, gate, OthersOK, GateTypeOK
  <2> QED
    BY <1>0, <1>1, <2>1, TypeParts, TypeFrame DEF vars
<1>2. CASE Tick
  <2>1. OthersOK'
    BY <1>0, <1>2 DEF Tick, gate, OthersOK, GateTypeOK
  <2> QED
    BY <1>0, <1>2, <2>1, TypeParts, TypeFrame DEF Tick
<1> QED
  BY <1>1, <1>2, GovernanceType, OrganizationType, PublicationType, CodeUpgradeType DEF Next

\* Every storage entry of the registry keeps its type, the administrator list
\* and the audit log their limits, and the primary administrator its place on
\* the list, in every order of set_admin, add_admin and remove_admin.
THEOREM RegistryTypeCorrect == Spec => []TypeOK
<1>1. Init => TypeOK
  BY TypeInit
<1>2. TypeOK /\ [Next]_vars => TypeOK'
  BY TypeStep
<1> QED
  BY <1>1, <1>2, PTL DEF Spec

-----------------------------------------------------------------------------
(* The version table                                                        *)

\* LatestIsHighest without Max.
Highest ==
  \A k \in Kind : /\ latest[k] \in Published(k) \cup {0}
                  /\ \A v \in Published(k) : v <= latest[k]

\* Highest says what LatestIsHighest says.
LEMMA HighestIsMax ==
  ASSUME TypeOK
  PROVE  Highest <=> LatestIsHighest
<1> USE RegistryAssumption
<1> SUFFICES ASSUME NEW k \in Kind
             PROVE  (/\ latest[k] \in Published(k) \cup {0}
                     /\ \A v \in Published(k) : v <= latest[k])
                    <=> latest[k] = Max(Published(k) \cup {0})
  BY DEF Highest, LatestIsHighest
<1> DEFINE S == Published(k) \cup {0}
<1>1. S \in SUBSET (0..MaxVersion) /\ S # {} /\ MaxVersion \in Nat
  BY DEF Published, Version
<1>2. Max(S) \in S /\ \A y \in S : y <= Max(S)
  BY <1>1, MaxFacts
<1>3. latest[k] \in Nat
  BY DEF TypeOK
<1>4. Max(S) \in Nat /\ \A v \in Published(k) : v \in S /\ v \in Nat
  BY <1>1, <1>2
<1>5. ASSUME latest[k] \in S, \A v \in Published(k) : v <= latest[k]
      PROVE  latest[k] = Max(S)
  <2> HIDE DEF S
  <2>1. latest[k] <= Max(S)
    BY <1>2, <1>5
  <2>2. Max(S) = 0 \/ Max(S) \in Published(k)
    BY <1>2 DEF S
  <2> QED
    BY <1>3, <1>4, <1>5, <2>1, <2>2
<1>6. ASSUME latest[k] = Max(S)
      PROVE  latest[k] \in S /\ \A v \in Published(k) : v <= latest[k]
  <2> HIDE DEF S
  <2> QED
    BY <1>2, <1>4, <1>6
<1> QED
  BY <1>5, <1>6

\* Only register_version and commit_upgrade write the version table.
LEMMA TableWrites ==
  ASSUME [Next]_vars
  PROVE  \/ UNCHANGED versions
         \/ \E caller \in Caller, r \in Releases :
              RegisterVersion(caller, r.kind, r.version, r.address, r.hash)
         \/ \E caller \in Caller, k \in Kind : CommitUpgrade(caller, k)
<1>1. CASE UNCHANGED vars
  BY <1>1 DEF vars
<1>2. ASSUME NEW caller \in Caller, Governance(caller) PROVE UNCHANGED versions
  BY <1>2 DEF Governance, Initialize, RemoveMultisig, SetAdmin, AddAdmin, RemoveAdmin,
              SetMultisig, Freeze, Unfreeze
<1>3. ASSUME NEW caller \in Caller, NEW o \in Org, Organization(caller, o)
      PROVE  UNCHANGED versions
  BY <1>3 DEF Organization, RegisterOrg, SetOrgOwner, RevokeRole, GrantRole, RegisterModule,
              UpgradeModule, RegisterModuleVersion, RemoveModule, DeprecateModule,
              ReactivateModule, SetDeprecated, Repoint, others
<1>4. ASSUME NEW caller \in Caller, CodeUpgrade(caller) PROVE UNCHANGED versions
  BY <1>4 DEF CodeUpgrade, SetUpgradeAuthority, Upgrade, UpgradeMember, records
<1>5. CASE Tick
  BY <1>5 DEF Tick
<1>6. ASSUME NEW caller \in Caller, Publication(caller)
      PROVE  \/ UNCHANGED versions
             \/ \E r \in Releases : RegisterVersion(caller, r.kind, r.version, r.address, r.hash)
             \/ \E k \in Kind : CommitUpgrade(caller, k)
  BY <1>6 DEF Publication, AddApprovedWasm, RemoveApprovedWasm, ProposeUpgrade, RejectUpgrade
<1> QED
  BY <1>1, <1>2, <1>3, <1>4, <1>5, <1>6 DEF Next

\* One version is added at most, and it was not there before.
LEMMA TableStep ==
  ASSUME TypeOK, Highest, [Next]_vars
  PROVE  PublishedIsImmutable /\ Highest'
<1> USE GateAssumption, RegistryAssumption, UnsetIsNoRecord
<1>0. /\ VersionsOK /\ ProposalsOK /\ MaxVersion \in Nat
      /\ \A k \in Kind : latest[k] \in Nat
      /\ \A k \in Kind : \A v \in Published(k) : v \in Version /\ v \in Nat
  BY TypeParts DEF VersionsOK, Published, Version
<1>1. CASE UNCHANGED versions
  BY <1>1 DEF versions, PublishedIsImmutable, Highest, Published, ReadVersion
<1>2. ASSUME NEW kind \in Kind, NEW v \in Version, v \notin Published(kind),
             \A k \in Kind, u \in Version :
               <<k, u>> # <<kind, v>> => ReadVersion(k, u)' = ReadVersion(k, u),
             ReadVersion(kind, v)' # Unset,
             \A k \in Kind \ {kind} : latest'[k] = latest[k],
             latest'[kind] \in {latest[kind], v},
             latest'[kind] >= latest[kind], latest'[kind] >= v
      PROVE  PublishedIsImmutable /\ Highest'
  <2>1. ASSUME NEW k \in Kind
        PROVE  Published(k)' = IF k = kind THEN Published(k) \cup {v} ELSE Published(k)
    <3>1. \A u \in Version : <<k, u>> # <<kind, v>> => (u \in Published(k)' <=> u \in Published(k))
      BY <1>2 DEF Published
    <3>2. v \in Published(kind)'
      BY <1>2 DEF Published
    <3>3. Published(k) \subseteq Version /\ Published(k)' \subseteq Version
      BY DEF Published
    <3> QED
      BY <3>1, <3>2, <3>3
  <2>2. PublishedIsImmutable
    BY <1>2 DEF PublishedIsImmutable, Published
  <2>3. v \in Nat /\ latest'[kind] \in Nat
    BY <1>0, <1>2 DEF Version
  <2>4. ASSUME NEW k \in Kind
        PROVE  /\ latest'[k] \in Published(k)' \cup {0}
               /\ \A u \in Published(k)' : u <= latest'[k]
    <3>1. CASE k = kind
      <4>1. latest[kind] \in Published(kind) \cup {0}
            /\ \A u \in Published(kind) : u <= latest[kind]
        BY DEF Highest
      <4>2. Published(k)' = Published(kind) \cup {v}
        BY <2>1, <3>1
      <4> HIDE DEF Published
      <4> QED
        BY <1>0, <1>2, <2>3, <3>1, <4>1, <4>2
    <3>2. CASE k # kind
      <4>1. Published(k)' = Published(k) /\ latest'[k] = latest[k]
        BY <1>2, <2>1, <3>2
      <4> QED
        BY <4>1 DEF Highest
    <3> QED
      BY <3>1, <3>2
  <2> QED
    BY <2>2, <2>4 DEF Highest
<1>3. ASSUME NEW caller \in Caller, NEW r \in Releases,
             RegisterVersion(caller, r.kind, r.version, r.address, r.hash)
      PROVE  PublishedIsImmutable /\ Highest'
  <2> DEFINE kind == r.kind
             v == r.version
             new == [address |-> r.address, hash |-> r.hash]
  <2>1. kind \in Kind /\ v \in Version /\ new \in VersionRecord /\ v \in 0..MaxVersion
    BY DEF Release, VersionRecord, Version
  <2>2. /\ record' = [record EXCEPT ![kind][v] = new] /\ legacy' = legacy
        /\ latest' = [latest EXCEPT ![kind] = Max({@, v})]
        /\ record[kind][v] = Unset /\ legacy[kind][v] = Unset
    BY <1>3 DEF RegisterVersion
  <2> HIDE DEF kind, v, new
  <2>3. v \notin Published(kind)
    BY <2>2 DEF Published, ReadVersion
  <2>4. record'[kind][v] = new /\ new # Unset
    BY <1>0, <2>1, <2>2 DEF VersionsOK
  <2>5. ReadVersion(kind, v)' # Unset
    BY <2>4 DEF ReadVersion
  <2>6. \A k \in Kind, u \in Version : <<k, u>> # <<kind, v>> => record'[k][u] = record[k][u]
    BY <1>0, <2>1, <2>2 DEF VersionsOK
  <2>7. \A k \in Kind, u \in Version :
          <<k, u>> # <<kind, v>> => ReadVersion(k, u)' = ReadVersion(k, u)
    BY <2>2, <2>6 DEF ReadVersion
  <2>8. latest'[kind] = Max({latest[kind], v}) /\ \A k \in Kind \ {kind} : latest'[k] = latest[k]
    BY <1>0, <2>1, <2>2 DEF VersionsOK
  <2>9. {latest[kind], v} \in SUBSET (0..MaxVersion)
    BY <1>0, <2>1 DEF VersionsOK
  <2>10. /\ latest'[kind] \in {latest[kind], v}
         /\ \A y \in {latest[kind], v} : y <= latest'[kind]
    BY <1>0, <2>8, <2>9, MaxFacts
  <2>11. latest'[kind] >= latest[kind] /\ latest'[kind] >= v
    BY <2>9, <2>10
  <2> QED
    BY <1>2, <2>1, <2>3, <2>5, <2>7, <2>8, <2>10, <2>11
<1>4. ASSUME NEW caller \in Caller, NEW kind \in Kind, CommitUpgrade(caller, kind)
      PROVE  PublishedIsImmutable /\ Highest'
  <2>1. pending[kind] \in UpgradeProposal
    BY <1>0, <1>4 DEF CommitUpgrade, ProposalsOK
  <2>2. PICK v \in Version, a \in Addr : v = pending[kind].version /\ a = pending[kind].address
    BY <2>1 DEF UpgradeProposal
  <2>3. /\ legacy' = [legacy EXCEPT ![kind][v] = a] /\ record' = record
        /\ latest' = [latest EXCEPT ![kind] = v]
        /\ v > latest[kind]
        /\ v \in Nat /\ a # Unset
    BY <1>4, <2>2 DEF CommitUpgrade, Version
  <2>4. v \notin Published(kind)
    <3> SUFFICES ASSUME v \in Published(kind) PROVE FALSE
      OBVIOUS
    <3>1. v <= latest[kind]
      BY DEF Highest
    <3> QED
      BY <1>0, <2>2, <2>3, <3>1
  <2>5. legacy'[kind][v] = a
    BY <1>0, <2>2, <2>3 DEF VersionsOK
  <2>6. ReadVersion(kind, v)' # Unset
    <3>1. [address |-> a, hash |-> Unbound] \in VersionRecord
      BY <2>2 DEF VersionRecord
    <3>2. [address |-> a, hash |-> Unbound] # Unset
      BY <3>1
    <3>3. CASE record'[kind][v] # Unset
      BY <3>3 DEF ReadVersion
    <3>4. CASE record'[kind][v] = Unset
      <4>1. ReadVersion(kind, v)' = [address |-> a, hash |-> Unbound]
        BY <2>3, <2>5, <3>4 DEF ReadVersion
      <4> QED
        BY <3>2, <4>1
    <3> QED
      BY <3>3, <3>4
  <2>7. \A k \in Kind, u \in Version : <<k, u>> # <<kind, v>> => legacy'[k][u] = legacy[k][u]
    BY <1>0, <2>2, <2>3 DEF VersionsOK
  <2>8. \A k \in Kind, u \in Version :
          <<k, u>> # <<kind, v>> => ReadVersion(k, u)' = ReadVersion(k, u)
    BY <2>3, <2>7 DEF ReadVersion
  <2>9. latest'[kind] = v /\ \A k \in Kind \ {kind} : latest'[k] = latest[k]
    BY <1>0, <2>3 DEF VersionsOK
  <2>10. latest'[kind] >= latest[kind] /\ latest'[kind] >= v
    BY <1>0, <2>2, <2>3, <2>9
  <2>11. latest'[kind] \in {latest[kind], v}
    BY <2>9
  <2> HIDE DEF Highest
  <2> QED
    BY <1>2, <2>2, <2>4, <2>6, <2>8, <2>9, <2>10, <2>11
<1> QED
  BY <1>1, <1>3, <1>4, TableWrites

\* No version is published at first.
LEMMA HighestInit == Init => Highest
<1> SUFFICES ASSUME Init, NEW k \in Kind
             PROVE  latest[k] = 0 /\ Published(k) = {}
  BY DEF Highest
<1>1. \A v \in Version : record[k][v] = Unset /\ legacy[k][v] = Unset
  BY DEF Init
<1>2. \A v \in Version : ReadVersion(k, v) = Unset
  BY <1>1 DEF ReadVersion
<1> QED
  BY <1>2 DEF Init, Published

\* The latest version of every kind is the highest published one, however
\* register_version and commit_upgrade interleave: a proposal that was
\* overtaken between proposal and commit cannot lower it.
THEOREM LatestCorrect == Spec => []LatestIsHighest
<1>1. Init => TypeOK /\ Highest
  BY TypeInit, HighestInit
<1>2. TypeOK /\ Highest /\ [Next]_vars => TypeOK' /\ Highest'
  BY TypeStep, TableStep
<1>3. TypeOK /\ Highest => LatestIsHighest
  BY HighestIsMax
<1> QED
  BY <1>1, <1>2, <1>3, PTL DEF Spec

-----------------------------------------------------------------------------
(* What runs is what the table says                                         *)

\* A call moves a module to no version, or to one that is newer than its pin
\* and bound to a hash; no other write reaches modules and pins.
LEMMA ModuleWrites ==
  ASSUME [Next]_vars
  PROVE  \/ UNCHANGED <<module, pin>>
         \/ /\ UNCHANGED <<frozen, versions>> /\ ~frozen
            /\ \E o \in Org, k \in Kind, a \in Target \cup {Unset} : Repoint(o, k, a, 0)
         \/ /\ UNCHANGED <<frozen, versions>> /\ ~frozen
            /\ \E o \in Org, k \in Kind, v \in Version :
                 /\ v \in Bound(k) /\ v > pin[o][k]
                 /\ Repoint(o, k, ReadVersion(k, v).address, v)
<1>1. CASE UNCHANGED vars
  BY <1>1 DEF vars, organizations
<1>2. ASSUME NEW caller \in Caller,
             Governance(caller) \/ Publication(caller) \/ CodeUpgrade(caller)
      PROVE  UNCHANGED <<module, pin>>
  BY <1>2 DEF Governance, Initialize, RemoveMultisig, SetAdmin, AddAdmin, RemoveAdmin,
              SetMultisig, Freeze, Unfreeze, Publication, AddApprovedWasm,
              RemoveApprovedWasm, RegisterVersion, ProposeUpgrade, CommitUpgrade,
              RejectUpgrade, CodeUpgrade, SetUpgradeAuthority, Upgrade, UpgradeMember,
              records, organizations
<1>3. CASE Tick
  BY <1>3 DEF Tick, organizations
<1>4. ASSUME NEW caller \in Caller, NEW o \in Org, Organization(caller, o)
      PROVE  \/ UNCHANGED <<module, pin>>
             \/ \E k \in Kind : \/ \E a \in Target : RegisterModule(caller, o, k, a)
                               \/ RemoveModule(caller, o, k)
                               \/ \E v \in Version : \/ UpgradeModule(caller, o, k, v)
                                                     \/ RegisterModuleVersion(caller, o, k, v)
  BY <1>4 DEF Organization, RegisterOrg, SetOrgOwner, RevokeRole, GrantRole, DeprecateModule,
              ReactivateModule, SetDeprecated
<1>5. ASSUME NEW o \in Org, NEW k \in Kind, NEW a, NEW v, Repoint(o, k, a, v)
      PROVE  UNCHANGED <<frozen, versions>>
  BY <1>5 DEF Repoint, others, governance
<1>6. ASSUME NEW caller \in Caller, NEW o \in Org, NEW k \in Kind,
             NEW a \in Target \cup {Unset},
             RegisterModule(caller, o, k, a) \/ RemoveModule(caller, o, k)
      PROVE  \E b \in Target \cup {Unset} : Repoint(o, k, b, 0) /\ ~frozen
  BY <1>6 DEF RegisterModule, RemoveModule, CheckFrozen
<1>7. ASSUME NEW caller \in Caller, NEW o \in Org, NEW k \in Kind, NEW v \in Version,
             UpgradeModule(caller, o, k, v) \/ RegisterModuleVersion(caller, o, k, v)
      PROVE  /\ v \in Bound(k) /\ v > pin[o][k] /\ ~frozen
             /\ Repoint(o, k, ReadVersion(k, v).address, v)
  BY <1>7 DEF UpgradeModule, RegisterModuleVersion, CheckFrozen, ResolveUpgradeTarget
<1>8. ASSUME NEW caller \in Caller, NEW o \in Org, Organization(caller, o)
      PROVE  \/ UNCHANGED <<module, pin>>
             \/ /\ UNCHANGED <<frozen, versions>> /\ ~frozen
                /\ \E k \in Kind, a \in Target \cup {Unset} : Repoint(o, k, a, 0)
             \/ /\ UNCHANGED <<frozen, versions>> /\ ~frozen
                /\ \E k \in Kind, v \in Version :
                     /\ v \in Bound(k) /\ v > pin[o][k]
                     /\ Repoint(o, k, ReadVersion(k, v).address, v)
  BY <1>4, <1>5, <1>6, <1>7, <1>8
<1> QED
  BY <1>1, <1>2, <1>3, <1>8 DEF Next

\* Only the registry's own upgrade writes the version it runs or its code.
LEMMA RegistryWrites ==
  ASSUME TypeOK, [Next]_vars
  PROVE  \/ registryVersion' = registryVersion
            /\ running'["Organization"] = running["Organization"]
         \/ /\ UNCHANGED <<organizations, versions, proposals>>
            /\ \E hash \in Hash : /\ Carrying(hash) # {}
                                  /\ Max(Carrying(hash)) > registryVersion
                                  /\ registryVersion' = Max(Carrying(hash))
                                  /\ running'["Organization"] = hash
<1> USE GateAssumption
<1>0. running \in [Kind -> Hash \cup {Deployed}]
  BY DEF TypeOK, GateTypeOK
<1>1. CASE UNCHANGED vars
  BY <1>1 DEF vars, gate
<1>2. CASE Tick
  BY <1>2 DEF Tick, gate
<1>3. ASSUME NEW caller \in Caller,
             Governance(caller) \/ Publication(caller)
             \/ \E o \in Org : Organization(caller, o)
      PROVE  UNCHANGED <<registryVersion, running>>
  <2>1. CASE Governance(caller)
    BY <2>1 DEF Governance, Initialize, RemoveMultisig, SetAdmin, AddAdmin, RemoveAdmin,
                SetMultisig, Freeze, Unfreeze, gate
  <2>2. CASE Publication(caller)
    BY <2>2 DEF Publication, AddApprovedWasm, RemoveApprovedWasm, RegisterVersion,
                ProposeUpgrade, CommitUpgrade, RejectUpgrade, gate
  <2>3. ASSUME NEW o \in Org, Organization(caller, o)
        PROVE  UNCHANGED <<registryVersion, running>>
    BY <2>3 DEF Organization, RegisterOrg, SetOrgOwner, RevokeRole, GrantRole, RegisterModule,
                RemoveModule, UpgradeModule, RegisterModuleVersion, DeprecateModule,
                ReactivateModule, SetDeprecated, Repoint, others, gate
  <2> QED
    BY <1>3, <2>1, <2>2, <2>3
<1>4. ASSUME NEW caller \in Caller, NEW k \in Kind, NEW a \in Caller, NEW r \in Registries,
             SetUpgradeAuthority(k, caller, a, r)
      PROVE  UNCHANGED <<registryVersion, running>>
  BY <1>4 DEF SetUpgradeAuthority, SetAuthority
<1>5. ASSUME NEW caller \in Caller, NEW k \in Kind, NEW h \in Hash, UpgradeMember(k, caller, h)
      PROVE  registryVersion' = registryVersion
             /\ running'["Organization"] = running["Organization"]
  BY <1>0, <1>5 DEF UpgradeMember, Perform, Apply
<1>6. ASSUME NEW caller \in Caller, NEW h \in Hash, Upgrade(caller, h)
      PROVE  /\ UNCHANGED <<organizations, versions, proposals>>
             /\ Carrying(h) # {} /\ Max(Carrying(h)) > registryVersion
             /\ registryVersion' = Max(Carrying(h))
             /\ running'["Organization"] = h
  BY <1>0, <1>6 DEF Upgrade, PlanRegistryUpgrade, Apply, records
<1>7. ASSUME NEW caller \in Caller, CodeUpgrade(caller)
      PROVE  \/ registryVersion' = registryVersion
                /\ running'["Organization"] = running["Organization"]
             \/ /\ UNCHANGED <<organizations, versions, proposals>>
                /\ \E hash \in Hash : /\ Carrying(hash) # {}
                                      /\ Max(Carrying(hash)) > registryVersion
                                      /\ registryVersion' = Max(Carrying(hash))
                                      /\ running'["Organization"] = hash
  BY <1>4, <1>5, <1>6, <1>7 DEF CodeUpgrade
<1> QED
  BY <1>1, <1>2, <1>3, <1>7 DEF Next

\* A published version stays published, and reads the same.
LEMMA BoundKept ==
  ASSUME PublishedIsImmutable, NEW k \in Kind, NEW v \in Bound(k)
  PROVE  v \in Bound(k)' /\ ReadVersion(k, v)' = ReadVersion(k, v)
<1>1. v \in Version /\ v \in Published(k) /\ ReadVersion(k, v) # Unset
      /\ ReadVersion(k, v).hash # Unbound
  BY DEF Bound, Published
<1>2. ReadVersion(k, v)' = ReadVersion(k, v)
  BY <1>1 DEF PublishedIsImmutable
<1>3. ReadVersion(k, v)' # Unset /\ ReadVersion(k, v)'.hash # Unbound
  BY <1>1, <1>2
<1> QED
  BY <1>1, <1>2, <1>3 DEF Bound, Published

\* Every step leaves pinned modules and the registry on published versions.
LEMMA RunsStep ==
  ASSUME TypeOK, Highest, RunsItsVersion, [Next]_vars
  PROVE  RunsItsVersion'
<1> USE GateAssumption, RegistryAssumption
<1>0. /\ PublishedIsImmutable
      /\ module \in [Org -> [Kind -> Addr \cup {Unset}]]
      /\ pin \in [Org -> [Kind -> 0..MaxVersion]]
      /\ VersionsOK
  BY TableStep, TypeParts DEF OrganizationsOK
<1>1. PinnedRunsItsVersion'
  <2> SUFFICES ASSUME NEW o \in Org, NEW k \in Kind, pin'[o][k] # 0
               PROVE  /\ pin'[o][k] \in Bound(k)'
                      /\ module'[o][k] = ReadVersion(k, pin[o][k])'.address
    BY DEF PinnedRunsItsVersion
  <2> DEFINE Kept == pin'[o][k] = pin[o][k] /\ module'[o][k] = module[o][k]
  <2>1. CASE Kept
    <3>1. PICK v : v = pin[o][k]
      OBVIOUS
    <3>2. pin'[o][k] = v /\ module'[o][k] = module[o][k]
      BY <2>1, <3>1
    <3>3. v \in Bound(k) /\ module[o][k] = ReadVersion(k, v).address
      BY <3>1, <3>2 DEF RunsItsVersion, PinnedRunsItsVersion
    <3>4. v \in Bound(k)' /\ ReadVersion(k, v)' = ReadVersion(k, v)
      BY <1>0, <3>3, BoundKept
    <3>5. ReadVersion(k, pin[o][k])' = ReadVersion(k, v)'
      BY <3>2 DEF ReadVersion
    <3> QED
      BY <3>2, <3>3, <3>4, <3>5
  <2>2. CASE UNCHANGED <<module, pin>>
    BY <2>1, <2>2
  <2>3. ASSUME NEW o2 \in Org, NEW k2 \in Kind, NEW a \in Target \cup {Unset},
               Repoint(o2, k2, a, 0)
        PROVE  Kept
    <3>1. <<o2, k2>> # <<o, k>>
      BY <1>0, <2>3 DEF Repoint
    <3> QED
      BY <1>0, <2>3, <3>1 DEF Repoint
  <2>4. ASSUME NEW o2 \in Org, NEW k2 \in Kind, NEW v \in Version,
               UNCHANGED versions, v \in Bound(k2), Repoint(o2, k2, ReadVersion(k2, v).address, v)
        PROVE  Kept \/ /\ pin'[o][k] \in Bound(k)'
                       /\ module'[o][k] = ReadVersion(k, pin[o][k])'.address
    <3>1. CASE <<o2, k2>> # <<o, k>>
      BY <1>0, <2>4, <3>1 DEF Repoint
    <3>2. CASE <<o2, k2>> = <<o, k>>
      <4>1. pin'[o][k] = v /\ module'[o][k] = ReadVersion(k, v).address
        BY <1>0, <2>4, <3>2 DEF Repoint
      <4>2. v \in Bound(k)' /\ ReadVersion(k, v)' = ReadVersion(k, v)
        BY <1>0, <2>4, <3>2, BoundKept
      <4>3. ReadVersion(k, pin[o][k])' = ReadVersion(k, v)'
        BY <4>1 DEF ReadVersion
      <4> QED
        BY <4>1, <4>2, <4>3
    <3> QED
      BY <3>1, <3>2
  <2> QED
    BY <2>1, <2>2, <2>3, <2>4, ModuleWrites
<1>2. RegistryRunsItsVersion'
  <2> DEFINE k == "Organization"
  <2> SUFFICES ASSUME registryVersion' # 0
               PROVE  /\ registryVersion' \in Bound(k)'
                      /\ ReadVersion(k, registryVersion)'.hash = running'[k]
    BY DEF RegistryRunsItsVersion
  <2>1. PICK v : v = registryVersion'
    OBVIOUS
  <2>2. ReadVersion(k, registryVersion)' = ReadVersion(k, v)'
    BY <2>1 DEF ReadVersion
  <2>3. v \in Bound(k) /\ ReadVersion(k, v).hash = running'[k]
    <3>1. CASE registryVersion' = registryVersion /\ running'[k] = running[k]
      BY <2>1, <3>1 DEF RunsItsVersion, RegistryRunsItsVersion
    <3>2. ASSUME NEW hash \in Hash, Carrying(hash) # {},
                 registryVersion' = Max(Carrying(hash)), running'[k] = hash
          PROVE  v \in Bound(k) /\ ReadVersion(k, v).hash = running'[k]
      <4>1. v \in Carrying(hash)
        BY <1>0, <2>1, <3>2, CarryingFacts
      <4> QED
        BY <3>2, <4>1 DEF Carrying
    <3> QED
      BY <3>1, <3>2, RegistryWrites
  <2>4. v \in Bound(k)' /\ ReadVersion(k, v)' = ReadVersion(k, v)
    BY <1>0, <2>3, BoundKept
  <2> QED
    BY <2>1, <2>2, <2>3, <2>4
<1> QED
  BY <1>1, <1>2 DEF RunsItsVersion

\* A pinned module runs at the address its version was published at and the
\* registry runs the code its own version was published bound to, in every
\* order of publication, unversioned and versioned registration and upgrade.
THEOREM RunsWhatIsPublished == Spec => []RunsItsVersion
<1>1. Init => TypeOK /\ Highest /\ RunsItsVersion
  <2>1. Init => RunsItsVersion
    BY DEF Init, RunsItsVersion, PinnedRunsItsVersion, RegistryRunsItsVersion
  <2> QED
    BY <2>1, TypeInit, HighestInit
<1>2. TypeOK /\ Highest /\ RunsItsVersion /\ [Next]_vars
      => TypeOK' /\ Highest' /\ RunsItsVersion'
  BY TypeStep, TableStep, RunsStep
<1> QED
  BY <1>1, <1>2, PTL DEF Spec

-----------------------------------------------------------------------------
(* What is recorded is kept                                                 *)

\* No step moves the registry or a pin back.
LEMMA NoRollbackStep ==
  ASSUME TypeOK, [Next]_vars
  PROVE  NoRollback
<1> USE RegistryAssumption
<1>0. /\ pin \in [Org -> [Kind -> 0..MaxVersion]] /\ registryVersion \in Nat
      /\ registryVersion' \in Nat
  BY TypeStep, TypeParts DEF OrganizationsOK, OthersOK
<1>1. registryVersion' >= registryVersion
  BY <1>0, RegistryWrites
<1>2. ASSUME NEW o \in Org, NEW k \in Kind, pin'[o][k] # pin[o][k]
      PROVE  pin'[o][k] = 0 \/ pin'[o][k] > pin[o][k]
  <2>1. ASSUME NEW o2 \in Org, NEW k2 \in Kind, NEW a, NEW v,
               v = 0 \/ v > pin[o2][k2], Repoint(o2, k2, a, v)
        PROVE  pin'[o][k] = 0 \/ pin'[o][k] > pin[o][k]
    BY <1>0, <1>2, <2>1 DEF Repoint
  <2> QED
    BY <1>2, <2>1, ModuleWrites
<1> QED
  BY <1>1, <1>2 DEF NoRollback

\* While frozen no step changes a record.
LEMMA FrozenStep ==
  ASSUME TypeOK, [Next]_vars
  PROVE  FrozenKeepsRecords
<1> SUFFICES ASSUME frozen, frozen'
             PROVE  /\ UNCHANGED <<owner, module, deprecated, pin, versions, proposals>>
                    /\ \A o \in Org, a \in Addr : role'[o][a] \in {role[o][a], Unset}
  BY DEF FrozenKeepsRecords
<1>0. role \in [Org -> [Addr -> RegistryRole \cup {Unset}]] /\ Caller \subseteq Addr
  BY RegistryAssumption, TypeParts DEF OrganizationsOK
<1>1. CASE UNCHANGED vars
  BY <1>1 DEF vars, organizations
<1>2. ASSUME NEW caller \in Caller, Governance(caller) \/ CodeUpgrade(caller)
      PROVE  UNCHANGED <<organizations, versions, proposals>>
  <2>1. CASE Governance(caller)
    BY <2>1 DEF Governance, Initialize, RemoveMultisig, SetAdmin, AddAdmin, RemoveAdmin,
                SetMultisig, Freeze, Unfreeze
  <2>2. CASE CodeUpgrade(caller)
    BY <2>2 DEF CodeUpgrade, SetUpgradeAuthority, Upgrade, UpgradeMember, records
  <2> QED
    BY <1>2, <2>1, <2>2
<1>3. ASSUME NEW caller \in Caller, Publication(caller)
      PROVE  UNCHANGED <<organizations, versions, proposals>>
  BY <1>3 DEF Publication, AddApprovedWasm, RemoveApprovedWasm, RegisterVersion,
              ProposeUpgrade, CommitUpgrade, RejectUpgrade, CheckFrozen
<1>4. ASSUME NEW caller \in Caller, NEW o \in Org, Organization(caller, o)
      PROVE  \E a \in Caller : RevokeRole(caller, o, a)
  BY <1>4 DEF Organization, RegisterOrg, SetOrgOwner, GrantRole, RegisterModule,
              RemoveModule, UpgradeModule, RegisterModuleVersion, DeprecateModule,
              ReactivateModule, SetDeprecated, CheckFrozen
<1>5. ASSUME NEW caller \in Caller, NEW o \in Org, NEW a \in Caller, RevokeRole(caller, o, a)
      PROVE  /\ UNCHANGED <<owner, module, deprecated, pin, versions, proposals>>
             /\ \A o2 \in Org, a2 \in Addr : role'[o2][a2] \in {role[o2][a2], Unset}
  BY <1>0, <1>5 DEF RevokeRole, others
<1>6. CASE Tick
  BY <1>6 DEF Tick, organizations
<1>7. UNCHANGED organizations => \A o \in Org, a \in Addr : role'[o][a] \in {role[o][a], Unset}
  BY DEF organizations
<1>8. UNCHANGED organizations => UNCHANGED <<owner, module, deprecated, pin>>
  BY DEF organizations
<1> QED
  BY <1>1, <1>2, <1>3, <1>4, <1>5, <1>6, <1>7, <1>8 DEF Next, Tick, vars

\* No call rewrites a published version, in either layout, moves a module or
\* the registry back to an older one, or changes a record of a registry that
\* stays frozen.
THEOREM HistoryIsKept == Spec => HistoryKept
<1>1. Init => TypeOK /\ Highest
  BY TypeInit, HighestInit
<1>2. TypeOK /\ Highest /\ [Next]_vars => TypeOK' /\ Highest'
  BY TypeStep, TableStep
<1>3. TypeOK /\ Highest /\ [Next]_vars
      => [PublishedIsImmutable /\ NoRollback /\ FrozenKeepsRecords]_vars
  BY TableStep, NoRollbackStep, FrozenStep
<1> QED
  BY <1>1, <1>2, <1>3, PTL DEF Spec, HistoryKept

-----------------------------------------------------------------------------
(* The audit log                                                            *)

\* What a record of the log says of its kind's slot.
Tells(r, slot) ==
  IF r.action = "Proposed"
    THEN slot # Unset /\ slot.version = r.version /\ slot.wasm_hash = r.wasm_hash
    ELSE slot = Unset

\* A call that writes a kind's slot puts the record that tells it in front.
LEMMA AuditStep ==
  ASSUME TypeOK, AuditTellsPending, NEW action \in UpgradeAction, NEW k \in Kind,
         NEW p \in UpgradeProposal, NEW slot \in UpgradeProposal \cup {Unset},
         AppendAudit(action, k, p),
         pending' = [pending EXCEPT ![k] = slot],
         Tells([action |-> action, kind |-> k, version |-> p.version,
                wasm_hash |-> p.wasm_hash], slot)
  PROVE  AuditTellsPending'
<1> DEFINE new == [action |-> action, kind |-> k, version |-> p.version,
                   wasm_hash |-> p.wasm_hash]
<1>0. ProposalsOK /\ audit \in Seq(UpgradeAuditRecord) /\ pending \in [Kind -> UpgradeProposal \cup {Unset}]
  BY TypeParts DEF ProposalsOK
<1>1. /\ audit' \in Seq(UpgradeAuditRecord) /\ Len(audit') >= 1
      /\ audit'[1] = new
      /\ \A i \in 2..Len(audit') : i - 1 \in 1..Len(audit) /\ audit'[i] = audit[i - 1]
  BY <1>0, AuditType
<1>2. new.kind = k /\ Tells(new, slot)
  OBVIOUS
<1> HIDE DEF new
<1> SUFFICES ASSUME NEW i \in DOMAIN audit',
                    \A j \in 1..(i - 1) : audit'[j].kind # audit'[i].kind
             PROVE  Tells(audit'[i], pending'[audit'[i].kind])
  BY DEF AuditTellsPending, Tells
<1>3. i \in 1..Len(audit') /\ Len(audit') \in Nat /\ Len(audit) \in Nat
  BY <1>0, <1>1
<1>4. CASE i = 1
  <2>1. audit'[i] = new /\ pending'[audit'[i].kind] = slot
    BY <1>0, <1>1, <1>2, <1>4
  <2> QED
    BY <1>2, <2>1
<1>5. CASE i # 1
  <2>1. i \in 2..Len(audit') /\ 1 \in 1..(i - 1)
    BY <1>3, <1>5
  <2>2. i - 1 \in 1..Len(audit) /\ audit'[i] = audit[i - 1]
    BY <1>1, <2>1
  <2>3. audit[i - 1].kind # k
    BY <1>1, <1>2, <2>1, <2>2
  <2>4. audit[i - 1] \in UpgradeAuditRecord /\ audit[i - 1].kind \in Kind
    <3>1. audit[i - 1] \in UpgradeAuditRecord
      BY <1>0, <2>2
    <3> QED
      BY <3>1 DEF UpgradeAuditRecord
  <2>5. pending'[audit[i - 1].kind] = pending[audit[i - 1].kind]
    BY <1>0, <2>3, <2>4
  <2>6. ASSUME NEW j \in 1..((i - 1) - 1) PROVE audit[j].kind # audit[i - 1].kind
    <3>1. j + 1 \in 2..Len(audit') /\ j + 1 \in 1..(i - 1) /\ (j + 1) - 1 = j
      BY <1>3, <2>1
    <3>2. audit'[j + 1] = audit[j]
      BY <1>1, <3>1
    <3> QED
      BY <2>2, <3>1, <3>2
  <2>7. i - 1 \in DOMAIN audit
    BY <1>0, <2>2
  <2>8. Tells(audit[i - 1], pending[audit[i - 1].kind])
    BY <2>6, <2>7 DEF AuditTellsPending, Tells
  <2> QED
    BY <2>2, <2>5, <2>8
<1> QED
  BY <1>4, <1>5

\* The newest record of a kind in the log tells what is pending for it, after
\* any interleaving of proposals, commits and rejections and however many
\* records append_audit has dropped.
THEOREM AuditIsTrue == Spec => []AuditTellsPending
<1>1. Init => TypeOK /\ AuditTellsPending
  <2>1. Init => AuditTellsPending
    BY DEF Init, AuditTellsPending
  <2> QED
    BY <2>1, TypeInit
<1>2. ASSUME TypeOK, AuditTellsPending, [Next]_vars PROVE TypeOK' /\ AuditTellsPending'
  <2> USE GateAssumption, RegistryAssumption, UnsetIsNoRecord
  <2>0. pending \in [Kind -> UpgradeProposal \cup {Unset}] /\ now \in Nat
    BY <1>2, TypeParts DEF ProposalsOK, OthersOK
  <2>1. ASSUME UNCHANGED proposals PROVE AuditTellsPending'
    <3>1. audit' = audit /\ pending' = pending
      BY <2>1 DEF proposals
    <3> SUFFICES ASSUME NEW i \in DOMAIN audit',
                        \A j \in 1..(i - 1) : audit'[j].kind # audit'[i].kind
                 PROVE  Tells(audit'[i], pending'[audit'[i].kind])
      BY DEF AuditTellsPending, Tells
    <3>2. i \in DOMAIN audit /\ \A j \in 1..(i - 1) : audit[j].kind # audit[i].kind
      BY <3>1
    <3>3. Tells(audit[i], pending[audit[i].kind])
      BY <1>2, <3>2 DEF AuditTellsPending, Tells
    <3> QED
      BY <3>1, <3>3
  <2>2. ASSUME NEW caller \in Caller, NEW o \in Org, NEW r \in Releases,
               ProposeUpgrade(caller, o, r.kind, r.version, r.hash, r.address)
        PROVE  AuditTellsPending'
    <3>1. PICK p \in UpgradeProposal :
            /\ AppendAudit("Proposed", r.kind, p)
            /\ pending' = [pending EXCEPT ![r.kind] = p]
      <4> DEFINE p == [version |-> r.version, wasm_hash |-> r.hash, address |-> r.address,
                       org |-> o, proposer |-> caller, expires_at |-> now + Expiry]
      <4>1. p \in UpgradeProposal
        BY <2>0 DEF UpgradeProposal, Release
      <4>2. AppendAudit("Proposed", r.kind, p) /\ pending' = [pending EXCEPT ![r.kind] = p]
        BY <2>2 DEF ProposeUpgrade
      <4> HIDE DEF p
      <4> QED
        BY <4>1, <4>2
    <3>2. Tells([action |-> "Proposed", kind |-> r.kind, version |-> p.version,
                 wasm_hash |-> p.wasm_hash], p)
      BY DEF Tells
    <3>3. r.kind \in Kind /\ "Proposed" \in UpgradeAction
      BY DEF Release, UpgradeAction
    <3> QED
      BY <1>2, <3>1, <3>2, <3>3, AuditStep
  <2>3. ASSUME NEW k \in Kind, NEW action \in {"Committed", "Rejected"},
               pending[k] # Unset, AppendAudit(action, k, pending[k]),
               pending' = [pending EXCEPT ![k] = Unset]
        PROVE  AuditTellsPending'
    <3>1. PICK p \in UpgradeProposal : p = pending[k]
      BY <2>0, <2>3
    <3>2. AppendAudit(action, k, p)
      BY <2>3, <3>1
    <3>3. Tells([action |-> action, kind |-> k, version |-> p.version,
                 wasm_hash |-> p.wasm_hash], Unset)
      BY <2>3 DEF Tells
    <3> QED
      BY <1>2, <2>3, <3>2, <3>3, AuditStep DEF UpgradeAction
  <2>4. ASSUME NEW caller \in Caller, Publication(caller)
        PROVE  \/ UNCHANGED proposals
               \/ \E o \in Org, r \in Releases :
                    ProposeUpgrade(caller, o, r.kind, r.version, r.hash, r.address)
               \/ \E k \in Kind : CommitUpgrade(caller, k) \/ RejectUpgrade(caller, k)
    BY <2>4 DEF Publication, AddApprovedWasm, RemoveApprovedWasm, RegisterVersion
  <2>5. ASSUME NEW caller \in Caller, NEW k \in Kind,
               CommitUpgrade(caller, k) \/ RejectUpgrade(caller, k)
        PROVE  AuditTellsPending'
    BY <2>3, <2>5 DEF CommitUpgrade, RejectUpgrade
  <2>6. ASSUME NEW caller \in Caller,
               \/ Governance(caller) \/ CodeUpgrade(caller)
               \/ \E o \in Org : Organization(caller, o)
        PROVE  UNCHANGED proposals
    <3>1. CASE Governance(caller)
      BY <3>1 DEF Governance, Initialize, RemoveMultisig, SetAdmin, AddAdmin, RemoveAdmin,
                  SetMultisig, Freeze, Unfreeze
    <3>2. CASE CodeUpgrade(caller)
      BY <3>2 DEF CodeUpgrade, SetUpgradeAuthority, Upgrade, UpgradeMember, records
    <3>3. ASSUME NEW o \in Org, Organization(caller, o)
          PROVE  UNCHANGED proposals
      BY <3>3 DEF Organization, RegisterOrg, SetOrgOwner, RevokeRole, GrantRole,
                  RegisterModule, RemoveModule, UpgradeModule, RegisterModuleVersion,
                  DeprecateModule, ReactivateModule, SetDeprecated, Repoint, others
    <3> QED
      BY <2>6, <3>1, <3>2, <3>3
  <2>7. UNCHANGED vars \/ Tick => UNCHANGED proposals
    BY DEF vars, Tick
  <2> QED
    BY <1>2, <2>1, <2>2, <2>4, <2>5, <2>6, <2>7, TypeStep DEF Next
<1> QED
  BY <1>1, <1>2, PTL DEF Spec
=============================================================================
