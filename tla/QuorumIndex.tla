---------------------------- MODULE QuorumIndex ----------------------------
(***************************************************************************)
(* The Quorum of a leader (src/src/quorum.rs) from Quorum::new on.  Of the *)
(* voters' match indices it keeps only a majority-sized set of the highest *)
(* ones, as pairs <<index, id>>, one set for the voters and one for the    *)
(* new voters of a joint consensus.                                        *)
(*                                                                         *)
(* `match' is what the callers have reported so far: they pass the index   *)
(* they passed last for a node (zero at first) as old_index, and never a   *)
(* smaller new one.  rebuild_quorum, which a change of configuration       *)
(* calls, makes a new Quorum and reports every match index to it again.    *)
(***************************************************************************)
EXTENDS RaftLog

CONSTANTS
  Id,           \* node ids, ordered as NodeId is
  MaxMatch      \* bound on the match indices

ASSUME QuorumAssumption ==
  /\ Id \subseteq Nat
  /\ IsFiniteSet(Id)
  /\ MaxMatch \in Nat

VARIABLES
  config,                \* the configuration the Quorum was made for
  match,                 \* Id -> last index reported
  majority_indices,
  new_majority_indices

quorumVars == <<config, match, majority_indices, new_majority_indices>>

\* The order of (LogIndex, NodeId).
EntryLeq(a, b) == a[1] < b[1] \/ (a[1] = b[1] /\ a[2] <= b[2])

\* BTreeSet::first.
IsFirst(e, set) == e \in set /\ \A d \in set : EntryLeq(e, d)

\* `taken' is what iter().take(n) yields of a set of ids.
IsTake(taken, ids, n) ==
  /\ taken \subseteq ids
  /\ Cardinality(taken) = n
  /\ \A a \in taken, b \in ids \ taken : a < b

StartEntries(taken) == {<<0, id>> : id \in taken}

\* Mutant of Ignored: an index that is reported again is not ignored.
IgnoredByIndex(set, old, new) ==
  set = {} \/ \E min \in set : IsFirst(min, set) /\ new[1] <= min[1]

\* The early returns of update_majority.
Ignored(set, old, new) ==
  \/ old = new
  \/ set = {}
  \/ \E min \in set : IsFirst(min, set) /\ new[1] <= min[1]

\* Mutant of Advance: drops the first entry even if the node's old one is there.
AdvanceByPop(set, old, new, set2) ==
  \E min \in set \cup {new} :
    IsFirst(min, set \cup {new}) /\ set2 = (set \cup {new}) \ {min}

\* The rest of update_majority turns set into set2: the new entry takes the place
\* of the node's old one, or of the first.
Advance(set, old, new, set2) ==
  \/ old \in set /\ set2 = (set \cup {new}) \ {old}
  \/ /\ old \notin set
     /\ \E min \in set \cup {new} :
          IsFirst(min, set \cup {new}) /\ set2 = (set \cup {new}) \ {min}

UpdateMajority(set, old, new, set2) ==
  \/ Ignored(set, old, new) /\ set2 = set
  \/ ~Ignored(set, old, new) /\ Advance(set, old, new, set2)

\* update_match_index.
UpdateMatchIndex(id, index) ==
  /\ match[id] <= index
  /\ match' = [match EXCEPT ![id] = index]
  /\ \/ id \in config.voters
        /\ UpdateMajority(majority_indices, <<match[id], id>>, <<index, id>>, majority_indices')
     \/ id \notin config.voters /\ UNCHANGED majority_indices
  /\ \/ id \in config.new_voters
        /\ UpdateMajority(new_majority_indices, <<match[id], id>>, <<index, id>>,
                          new_majority_indices')
     \/ id \notin config.new_voters /\ UNCHANGED new_majority_indices
  /\ UNCHANGED config

\* smallest_majority_index is i.
SmallestMajorityIndexIs(i) ==
  \E e \in majority_indices :
    /\ IsFirst(e, majority_indices)
    /\ \/ new_majority_indices = {} /\ i = e[1]
       \/ \E f \in new_majority_indices :
            /\ IsFirst(f, new_majority_indices)
            /\ i = IF e[1] <= f[1] THEN e[1] ELSE f[1]

\* Quorum::new.
QuorumInit ==
  /\ config \in [voters : (SUBSET Id) \ {{}}, new_voters : SUBSET Id]
  /\ match = [id \in Id |-> 0]
  /\ \E taken \in SUBSET config.voters :
       /\ IsTake(taken, config.voters, Majority(config.voters))
       /\ majority_indices = StartEntries(taken)
  /\ \E taken \in SUBSET config.new_voters :
       /\ IsTake(taken, config.new_voters, Majority(config.new_voters))
       /\ new_majority_indices = StartEntries(taken)

QuorumNext == \E id \in Id, index \in 0 .. MaxMatch : UpdateMatchIndex(id, index)

QuorumSpec == QuorumInit /\ [][QuorumNext]_quorumVars

-----------------------------------------------------------------------------
(* Properties. *)

\* Each set holds exactly as many entries as a majority of its voters has
\* members; an update that shrank it (the hazard of the early return in
\* update_majority) would make a leader commit with too few replicas.
QuotaKept ==
  /\ Cardinality(majority_indices) = Majority(config.voters)
  /\ Cardinality(new_majority_indices) = Majority(config.new_voters)

\* smallest_majority_index is what a count over all match indices gives: the
\* highest index that a majority of the voters, and of the new voters if there
\* are any, have reached, however the updates were interleaved; and there is one
\* (the code panics if the first set is empty).
SmallestMajorityIndexCorrect ==
  /\ \E i \in 0 .. MaxMatch : SmallestMajorityIndexIs(i)
  /\ \A i \in 0 .. MaxMatch : SmallestMajorityIndexIs(i) =>
       IF config.new_voters = {} THEN IsMajorityIndex(i, match, config.voters)
       ELSE \E a, b \in 0 .. MaxMatch :
              /\ IsMajorityIndex(a, match, config.voters)
              /\ IsMajorityIndex(b, match, config.new_voters)
              /\ i = IF a <= b THEN a ELSE b
=============================================================================
