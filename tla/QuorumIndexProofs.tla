------------------------- MODULE QuorumIndexProofs -------------------------
(***************************************************************************)
(* Proofs about QuorumIndex, for every set of ids and every bound on the   *)
(* match indices.                                                          *)
(*                                                                         *)
(* The inductive invariant says of each of the two sets that it holds      *)
(* current entries only (EntriesCurrent), as many as a majority has        *)
(* members, and that no voter outside the set is ahead of an entry in it   *)
(* (OutsidersBehind).  The first entry of such a set is the index a        *)
(* majority has reached: the voters in the set have reached it, and those  *)
(* beyond it are in the set, the first one excepted.                       *)
(***************************************************************************)
EXTENDS QuorumIndex, FiniteSetTheorems, WellFoundedInduction, TLAPS

Entry(m, id) == <<m[id], id>>

EntriesCurrent(set, ids, m) == \A e \in set : e[2] \in ids /\ e = Entry(m, e[2])

OutsidersBehind(set, ids, m) ==
  \A id \in ids : Entry(m, id) \notin set => \A e \in set : m[id] <= e[1]

TopOf(set, ids, m) ==
  /\ IsFiniteSet(set)
  /\ Cardinality(set) = Majority(ids)
  /\ EntriesCurrent(set, ids, m)
  /\ OutsidersBehind(set, ids, m)

MatchType == [Id -> 0 .. MaxMatch]

QuorumInv ==
  /\ config \in [voters : (SUBSET Id) \ {{}}, new_voters : SUBSET Id]
  /\ match \in MatchType
  /\ TopOf(majority_indices, config.voters, match)
  /\ TopOf(new_majority_indices, config.new_voters, match)

-----------------------------------------------------------------------------
(* Majorities. *)

\* A majority of a non-empty set of voters has a member; that of none has none.
LEMMA MajorityPositive ==
  ASSUME NEW ids \in SUBSET Id
  PROVE  /\ IsFiniteSet(ids)
         /\ Majority(ids) \in Nat
         /\ Majority(ids) = 0 <=> ids = {}
<1>1. IsFiniteSet(ids)
  BY QuorumAssumption, FS_Subset
<1>2. Cardinality(ids) \in Nat
  BY <1>1, FS_CardinalityType
<1>3. Cardinality(ids) \div 2 \in Nat
  BY <1>2
<1> QED
  BY <1>1, <1>3 DEF Majority

-----------------------------------------------------------------------------
(* What one set does. *)

\* Quorum::new makes a set of current entries: all are zero.
LEMMA StartTop ==
  ASSUME NEW ids \in SUBSET Id, NEW taken \in SUBSET ids,
         IsTake(taken, ids, Majority(ids))
  PROVE  TopOf(StartEntries(taken), ids, [id \in Id |-> 0])
<1> DEFINE set == StartEntries(taken)
           m == [id \in Id |-> 0]
           f == [id \in taken |-> <<0, id>>]
<1>1. IsFiniteSet(taken)
  BY MajorityPositive, FS_Subset
<1>2. f \in Bijection(taken, set)
  <2>1. f \in Injection(taken, set)
    BY DEF StartEntries, Injection, IsInjective
  <2>2. f \in Surjection(taken, set)
    BY DEF StartEntries, Surjection
  <2> QED
    BY <2>1, <2>2 DEF Bijection
<1>3. IsFiniteSet(set) /\ Cardinality(set) = Majority(ids)
  BY <1>1, <1>2, FS_Bijection DEF ExistsBijection, IsTake
<1>4. EntriesCurrent(set, ids, m)
  BY DEF EntriesCurrent, Entry, StartEntries
<1>5. OutsidersBehind(set, ids, m)
  BY DEF OutsidersBehind, StartEntries
<1> QED
  BY <1>3, <1>4, <1>5 DEF TopOf

\* An update of a node that is no voter of the set leaves it as it should be.
LEMMA OutsiderUpdate ==
  ASSUME NEW ids \in SUBSET Id, NEW m \in MatchType, NEW set, TopOf(set, ids, m),
         NEW id \in Id \ ids, NEW index \in 0 .. MaxMatch
  PROVE  TopOf(set, ids, [m EXCEPT ![id] = index])
<1> DEFINE m2 == [m EXCEPT ![id] = index]
<1>1. \A v \in ids : m2[v] = m[v]
  BY DEF MatchType
<1>2. EntriesCurrent(set, ids, m2)
  BY <1>1 DEF TopOf, EntriesCurrent, Entry
<1>3. OutsidersBehind(set, ids, m2)
  BY <1>1 DEF TopOf, OutsidersBehind, Entry
<1> QED
  BY <1>2, <1>3 DEF TopOf

\* update_majority keeps the set the top of its voters, as long as an index never
\* goes back.
LEMMA VoterUpdate ==
  ASSUME NEW ids \in SUBSET Id, NEW m \in MatchType, NEW set, TopOf(set, ids, m),
         NEW id \in ids, NEW index \in 0 .. MaxMatch, m[id] <= index,
         NEW set2, UpdateMajority(set, <<m[id], id>>, <<index, id>>, set2)
  PROVE  TopOf(set2, ids, [m EXCEPT ![id] = index])
<1> DEFINE m2 == [m EXCEPT ![id] = index]
           old == <<m[id], id>>
           new == <<index, id>>
<1>1. /\ \A v \in ids : m[v] \in 0 .. MaxMatch
      /\ \A v \in ids \ {id} : m2[v] = m[v]
      /\ m2[id] = index
  BY DEF MatchType
<1>2. \A e \in set : e[2] \in ids /\ e = <<m[e[2]], e[2]>> /\ e[1] \in 0 .. MaxMatch
  BY <1>1 DEF TopOf, EntriesCurrent, Entry
<1>3. \A v \in ids : <<m[v], v>> \notin set => \A e \in set : m[v] <= e[1]
  BY DEF TopOf, OutsidersBehind, Entry
<1>4. MaxMatch \in Nat
  BY QuorumAssumption
<1>5. CASE old = new
  <2>1. set2 = set /\ index = m[id]
    BY <1>5 DEF UpdateMajority, Ignored
  <2>2. m2 = m
    BY <2>1 DEF MatchType
  <2> QED
    BY <2>1, <2>2
<1>6. CASE set = {}
  <2>1. Majority(ids) = 0
    BY <1>6, FS_EmptySet DEF TopOf
  <2> QED
    BY <2>1, MajorityPositive
<1>7. CASE /\ old # new
           /\ set # {}
           /\ Ignored(set, old, new)
  <2>1. set2 = set
    BY <1>7 DEF UpdateMajority
  <2>2. PICK min \in set : IsFirst(min, set) /\ index <= min[1]
    BY <1>7 DEF Ignored
  <2>3. \A e \in set : index <= e[1]
    BY <2>2, <1>1, <1>2, <1>4 DEF IsFirst, EntryLeq
  <2>4. m[id] < index
    BY <1>7, <1>1, <1>4
  <2>5. \A e \in set : e[2] # id
    BY <2>3, <2>4, <1>1, <1>2, <1>4
  <2>6. EntriesCurrent(set, ids, m2)
    BY <2>5, <1>1, <1>2 DEF EntriesCurrent, Entry
  <2>7. OutsidersBehind(set, ids, m2)
    BY <2>3, <1>1, <1>3 DEF OutsidersBehind, Entry
  <2> QED
    BY <2>1, <2>6, <2>7 DEF TopOf
<1>8. CASE ~Ignored(set, old, new)
  <2>1. Advance(set, old, new, set2)
    BY <1>8 DEF UpdateMajority
  <2>2. m[id] < index
    BY <1>8, <1>1, <1>4 DEF Ignored
  <2>3. new \notin set
    BY <2>2, <1>1, <1>2, <1>4
  <2>4. /\ IsFiniteSet(set \cup {new})
        /\ Cardinality(set \cup {new}) = Majority(ids) + 1
    BY <2>3, FS_AddElement DEF TopOf
  <2>5. Majority(ids) \in Nat
    BY MajorityPositive
  <2>6. ASSUME NEW gone \in set \cup {new}, set2 = (set \cup {new}) \ {gone}
        PROVE  IsFiniteSet(set2) /\ Cardinality(set2) = Majority(ids)
    <3>1. /\ IsFiniteSet((set \cup {new}) \ {gone})
          /\ Cardinality((set \cup {new}) \ {gone}) = Cardinality(set \cup {new}) - 1
      BY <2>4, FS_RemoveElement
    <3> QED
      BY <3>1, <2>4, <2>5, <2>6
  <2>7. CASE old \in set /\ set2 = (set \cup {new}) \ {old}
    <3>1. EntriesCurrent(set2, ids, m2)
      BY <2>7, <1>1, <1>2 DEF EntriesCurrent, Entry
    <3>2. OutsidersBehind(set2, ids, m2)
      <4> SUFFICES ASSUME NEW v \in ids, <<m2[v], v>> \notin set2, NEW e \in set2
                   PROVE  m2[v] <= e[1]
        BY DEF OutsidersBehind, Entry
      <4>1. v # id
        BY <2>7, <2>2, <1>1, <1>4
      <4>2. <<m[v], v>> \notin set
        BY <4>1, <2>7, <1>1
      <4>3. m[v] <= m[id]
        BY <4>2, <2>7, <1>3
      <4>4. CASE e = new
        BY <4>1, <4>3, <4>4, <2>2, <1>1, <1>4
      <4>5. CASE e \in set
        BY <4>1, <4>2, <4>5, <1>1, <1>3
      <4> QED
        BY <4>4, <4>5, <2>7
    <3> QED
      BY <3>1, <3>2, <2>6, <2>7 DEF TopOf
  <2>8. ASSUME old \notin set,
               NEW min \in set \cup {new}, IsFirst(min, set \cup {new}),
               set2 = (set \cup {new}) \ {min}
        PROVE  TopOf(set2, ids, m2)
    <3>1. \A e \in set : e[2] # id
      BY <2>8, <1>2
    <3>2. EntriesCurrent(set2, ids, m2)
      BY <3>1, <2>8, <1>1, <1>2 DEF EntriesCurrent, Entry
    <3>3. \A e \in set \cup {new} : min[1] <= e[1]
      BY <2>8, <1>2, <1>4 DEF IsFirst, EntryLeq
    <3>4. OutsidersBehind(set2, ids, m2)
      <4> SUFFICES ASSUME NEW v \in ids, <<m2[v], v>> \notin set2, NEW e \in set2
                   PROVE  m2[v] <= e[1]
        BY DEF OutsidersBehind, Entry
      <4>1. e \in set \cup {new} /\ min[1] <= e[1] /\ e[1] \in 0 .. MaxMatch
        BY <3>3, <2>8, <1>2
      <4>2. CASE v = id
        <5>1. min = new
          BY <4>2, <2>8, <1>1
        <5> QED
          BY <4>1, <4>2, <5>1, <1>1
      <4>3. CASE v # id /\ <<m[v], v>> \in set
        <5>1. min = <<m[v], v>>
          BY <4>3, <2>8, <1>1
        <5> QED
          BY <4>1, <4>3, <5>1, <1>1
      <4>4. CASE v # id /\ <<m[v], v>> \notin set
        <5>1. \A d \in set : m[v] <= d[1]
          BY <4>4, <1>3
        <5>2. CASE e \in set
          BY <4>4, <5>1, <5>2, <1>1
        <5>3. CASE e = new
          <6>1. PICK d \in set : TRUE
            BY <1>8 DEF Ignored
          <6>2. CASE min \in set
            BY <6>2, <5>1, <5>3, <4>1, <4>4, <1>1, <1>2, <1>4
          <6>3. CASE min = new
            BY <6>3, <5>3, <2>8
          <6> QED
            BY <6>2, <6>3
        <5> QED
          BY <4>1, <5>2, <5>3
      <4> QED
        BY <4>2, <4>3, <4>4
    <3>5. IsFiniteSet(set2) /\ Cardinality(set2) = Majority(ids)
      BY <2>6, <2>8
    <3> QED
      BY <3>2, <3>4, <3>5 DEF TopOf
  <2> QED
    BY <2>1, <2>7, <2>8 DEF Advance
<1> QED
  BY <1>5, <1>6, <1>7, <1>8

\* The entries of a set are pairs of naturals.
LEMMA TopIsPairs ==
  ASSUME NEW ids \in SUBSET Id, NEW m \in MatchType, NEW set, TopOf(set, ids, m)
  PROVE  set \subseteq Nat \X Nat
<1> SUFFICES ASSUME NEW e \in set PROVE e \in Nat \X Nat
  OBVIOUS
<1>1. e[2] \in ids /\ e = <<m[e[2]], e[2]>>
  BY DEF TopOf, EntriesCurrent, Entry
<1>2. e[2] \in Id /\ e[2] \in Nat
  BY <1>1, QuorumAssumption
<1>3. m[e[2]] \in 0 .. MaxMatch
  BY <1>2 DEF MatchType
<1>4. m[e[2]] \in Nat
  BY <1>3
<1> QED
  BY <1>1, <1>2, <1>4

\* BTreeSet::first of a set that is not empty is defined: entries are ordered as
\* pairs of naturals are, lexicographically.
LEMMA FirstExists ==
  ASSUME NEW set, set \subseteq Nat \X Nat, set # {}
  PROVE  \E e \in set : IsFirst(e, set)
<1> DEFINE less == OpToRel(<, Nat)
           before == LexPairOrdering(less, less, Nat, Nat)
<1>1. IsWellFoundedOn(before, Nat \X Nat)
  BY NatLessThanWellFounded, WFLexPairOrdering
<1>2. PICK e \in set : \A d \in set : ~ (<<d, e>> \in before)
  <2> HIDE DEF before
  <2> QED
    BY <1>1, WFMin
<1>3. ASSUME NEW d \in set PROVE EntryLeq(e, d)
  <2>1. /\ e = <<e[1], e[2]>> /\ e[1] \in Nat /\ e[2] \in Nat
        /\ d = <<d[1], d[2]>> /\ d[1] \in Nat /\ d[2] \in Nat
    OBVIOUS
  <2>2. ~ (d[1] < e[1] \/ (d[1] = e[1] /\ d[2] < e[2]))
    BY <1>2, <2>1 DEF LexPairOrdering, OpToRel
  <2> QED
    BY <2>1, <2>2 DEF EntryLeq
<1> QED
  BY <1>3 DEF IsFirst

\* The first entry of the top of the voters is what a majority has reached.
LEMMA FirstIsMajorityIndex ==
  ASSUME NEW ids \in SUBSET Id, NEW m \in MatchType, NEW set, TopOf(set, ids, m),
         NEW e, IsFirst(e, set)
  PROVE  e[1] \in 0 .. MaxMatch /\ IsMajorityIndex(e[1], m, ids)
<1> DEFINE reached == {v \in ids : m[v] >= e[1]}
           beyond == {v \in ids : m[v] > e[1]}
           f == [d \in set |-> d[2]]
           g == [v \in beyond |-> <<m[v], v>>]
<1>1. \A d \in set : d[2] \in ids /\ d = <<m[d[2]], d[2]>> /\ d[1] \in 0 .. MaxMatch
  BY DEF TopOf, EntriesCurrent, Entry, MatchType
<1>2. MaxMatch \in Nat /\ e \in set
  BY QuorumAssumption DEF IsFirst
<1>3. \A d \in set : e[1] <= d[1]
  BY <1>1, <1>2 DEF IsFirst, EntryLeq
<1>4. IsFiniteSet(ids) /\ Majority(ids) \in Nat
  BY MajorityPositive
<1>5. IsFiniteSet(reached)
  BY <1>4, FS_Subset
<1>6. Cardinality(reached) >= Majority(ids)
  <2>1. \A d \in set : f[d] \in reached
    BY <1>1, <1>2, <1>3
  <2>2. \A a, b \in set : f[a] = f[b] => a = b
    BY <1>1
  <2>3. f \in Injection(set, reached)
    BY <2>1, <2>2 DEF Injection, IsInjective
  <2>4. Cardinality(set) <= Cardinality(reached)
    BY <2>3, <1>5, FS_Injection
  <2>5. Cardinality(reached) \in Nat
    BY <1>5, FS_CardinalityType
  <2> QED
    BY <2>4, <2>5, <1>4 DEF TopOf
<1>7. Cardinality(beyond) < Majority(ids)
  <2>1. \A v \in beyond : g[v] \in set \ {e}
    BY <1>1, <1>2 DEF TopOf, OutsidersBehind, Entry, MatchType
  <2>2. g \in Injection(beyond, set \ {e})
    BY <2>1 DEF Injection, IsInjective
  <2>3. IsFiniteSet(set \ {e}) /\ Cardinality(set \ {e}) = Majority(ids) - 1
    BY <1>2, FS_RemoveElement DEF TopOf
  <2>4. Cardinality(beyond) <= Majority(ids) - 1
    BY <2>2, <2>3, FS_Injection
  <2>5. Cardinality(beyond) \in Nat
    BY <1>4, FS_Subset, FS_CardinalityType
  <2> QED
    BY <2>4, <2>5, <1>4
<1> QED
  BY <1>1, <1>2, <1>6, <1>7 DEF IsMajorityIndex

-----------------------------------------------------------------------------
(* The specification. *)

LEMMA QuorumInvInit == QuorumInit => QuorumInv
<1> SUFFICES ASSUME QuorumInit PROVE QuorumInv
  OBVIOUS
<1>1. config.voters \in SUBSET Id /\ config.new_voters \in SUBSET Id
  BY DEF QuorumInit
<1>2. match \in MatchType
  BY QuorumAssumption DEF QuorumInit, MatchType
<1>3. TopOf(majority_indices, config.voters, match)
  BY <1>1, StartTop DEF QuorumInit
<1>4. TopOf(new_majority_indices, config.new_voters, match)
  BY <1>1, StartTop DEF QuorumInit
<1> QED
  BY <1>2, <1>3, <1>4 DEF QuorumInv, QuorumInit

LEMMA QuorumInvStep == QuorumInv /\ [QuorumNext]_quorumVars => QuorumInv'
<1> SUFFICES ASSUME QuorumInv, [QuorumNext]_quorumVars PROVE QuorumInv'
  OBVIOUS
<1>1. CASE UNCHANGED quorumVars
  BY <1>1 DEF QuorumInv, quorumVars, TopOf, EntriesCurrent, OutsidersBehind, Entry
<1>2. ASSUME NEW id \in Id, NEW index \in 0 .. MaxMatch, UpdateMatchIndex(id, index)
      PROVE  QuorumInv'
  <2>1. /\ config' = config
        /\ config.voters \in SUBSET Id
        /\ config.new_voters \in SUBSET Id
        /\ match \in MatchType
        /\ match[id] <= index
        /\ match' = [match EXCEPT ![id] = index]
    BY <1>2 DEF UpdateMatchIndex, QuorumInv
  <2>2. /\ TopOf(majority_indices, config.voters, match)
        /\ TopOf(new_majority_indices, config.new_voters, match)
    BY DEF QuorumInv
  <2>3. match' \in MatchType
    BY <2>1 DEF MatchType
  <2>4. TopOf(majority_indices', config.voters, match')
    <3>1. CASE id \in config.voters
      <4>1. UpdateMajority(majority_indices, <<match[id], id>>, <<index, id>>, majority_indices')
        BY <3>1, <1>2 DEF UpdateMatchIndex
      <4>2. TopOf(majority_indices', config.voters, [match EXCEPT ![id] = index])
        BY <3>1, <4>1, <2>2, <2>1, VoterUpdate
      <4> QED
        BY <4>2, <2>1
    <3>2. CASE id \notin config.voters
      <4>1. majority_indices' = majority_indices
        BY <3>2, <1>2 DEF UpdateMatchIndex
      <4>2. TopOf(majority_indices, config.voters, [match EXCEPT ![id] = index])
        BY <3>2, <2>2, <2>1, OutsiderUpdate
      <4> QED
        BY <4>1, <4>2, <2>1
    <3> QED
      BY <3>1, <3>2
  <2>5. TopOf(new_majority_indices', config.new_voters, match')
    <3>1. CASE id \in config.new_voters
      <4>1. UpdateMajority(new_majority_indices, <<match[id], id>>, <<index, id>>, new_majority_indices')
        BY <3>1, <1>2 DEF UpdateMatchIndex
      <4>2. TopOf(new_majority_indices', config.new_voters, [match EXCEPT ![id] = index])
        BY <3>1, <4>1, <2>2, <2>1, VoterUpdate
      <4> QED
        BY <4>2, <2>1
    <3>2. CASE id \notin config.new_voters
      <4>1. new_majority_indices' = new_majority_indices
        BY <3>2, <1>2 DEF UpdateMatchIndex
      <4>2. TopOf(new_majority_indices, config.new_voters, [match EXCEPT ![id] = index])
        BY <3>2, <2>2, <2>1, OutsiderUpdate
      <4> QED
        BY <4>1, <4>2, <2>1
    <3> QED
      BY <3>1, <3>2
  <2> QED
    BY <2>1, <2>3, <2>4, <2>5 DEF QuorumInv
<1> QED
  BY <1>1, <1>2 DEF QuorumNext

LEMMA QuorumInvAlways == QuorumSpec => []QuorumInv
  BY QuorumInvInit, QuorumInvStep, PTL DEF QuorumSpec

\* The sets of a Quorum always have the size of a majority.
THEOREM QuotaIsKept == QuorumSpec => []QuotaKept
<1>1. QuorumInv => QuotaKept
  BY DEF QuorumInv, TopOf, QuotaKept
<1> QED
  BY <1>1, QuorumInvAlways, PTL

\* smallest_majority_index is always the smaller of the indices that a majority of
\* the voters and a majority of the new voters have reached.
THEOREM SmallestMajorityIndexIsCorrect == QuorumSpec => []SmallestMajorityIndexCorrect
<1>1. ASSUME QuorumInv PROVE SmallestMajorityIndexCorrect
  <2>1. /\ config.voters \in (SUBSET Id) \ {{}}
        /\ config.new_voters \in SUBSET Id
        /\ match \in MatchType
        /\ TopOf(majority_indices, config.voters, match)
        /\ TopOf(new_majority_indices, config.new_voters, match)
    BY <1>1 DEF QuorumInv
  <2>2. new_majority_indices = {} <=> config.new_voters = {}
    BY <2>1, MajorityPositive, FS_EmptySet DEF TopOf
  <2>3. majority_indices # {}
    BY <2>1, MajorityPositive, FS_EmptySet DEF TopOf
  <2>4. \A e : IsFirst(e, majority_indices)
          => e[1] \in 0 .. MaxMatch /\ IsMajorityIndex(e[1], match, config.voters)
    BY <2>1, FirstIsMajorityIndex
  <2>5. \A f : IsFirst(f, new_majority_indices)
          => f[1] \in 0 .. MaxMatch /\ IsMajorityIndex(f[1], match, config.new_voters)
    BY <2>1, FirstIsMajorityIndex
  <2>6. \E i \in 0 .. MaxMatch : SmallestMajorityIndexIs(i)
    <3>1. majority_indices \subseteq Nat \X Nat /\ new_majority_indices \subseteq Nat \X Nat
      BY <2>1, TopIsPairs
    <3>2. PICK e \in majority_indices : IsFirst(e, majority_indices)
      BY <2>3, <3>1, FirstExists
    <3>3. CASE new_majority_indices = {}
      BY <2>4, <3>2, <3>3 DEF SmallestMajorityIndexIs
    <3>4. CASE new_majority_indices # {}
      <4>1. PICK f \in new_majority_indices : IsFirst(f, new_majority_indices)
        BY <3>1, <3>4, FirstExists
      <4>2. (IF e[1] <= f[1] THEN e[1] ELSE f[1]) \in 0 .. MaxMatch
        BY <2>4, <2>5, <3>2, <4>1
      <4> QED
        BY <3>2, <4>1, <4>2 DEF SmallestMajorityIndexIs
    <3> QED
      BY <3>3, <3>4
  <2>7. ASSUME NEW i \in 0 .. MaxMatch, SmallestMajorityIndexIs(i)
        PROVE  IF config.new_voters = {}
               THEN IsMajorityIndex(i, match, config.voters)
               ELSE \E a, b \in 0 .. MaxMatch :
                      /\ IsMajorityIndex(a, match, config.voters)
                      /\ IsMajorityIndex(b, match, config.new_voters)
                      /\ i = IF a <= b THEN a ELSE b
    <3>1. PICK e \in majority_indices :
            /\ IsFirst(e, majority_indices)
            /\ \/ new_majority_indices = {} /\ i = e[1]
               \/ \E f \in new_majority_indices :
                    /\ IsFirst(f, new_majority_indices)
                    /\ i = IF e[1] <= f[1] THEN e[1] ELSE f[1]
      BY <2>7 DEF SmallestMajorityIndexIs
    <3>2. CASE config.new_voters = {}
      BY <2>2, <2>4, <3>1, <3>2
    <3>3. CASE config.new_voters # {}
      <4>1. PICK f \in new_majority_indices :
              /\ IsFirst(f, new_majority_indices)
              /\ i = IF e[1] <= f[1] THEN e[1] ELSE f[1]
        BY <2>2, <3>1, <3>3
      <4> QED
        BY <2>4, <2>5, <3>1, <3>3, <4>1
    <3> QED
      BY <3>2, <3>3
  <2> QED
    BY <2>6, <2>7 DEF SmallestMajorityIndexCorrect
<1> QED
  BY <1>1, QuorumInvAlways, PTL
=============================================================================
