----------------------------- MODULE CallProofs -----------------------------
(***************************************************************************)
(* What a call does in a cluster whose voters V do not change: to the      *)
(* node's log, its commit index, its match indices and what it sends       *)
(* (Deed), and to the tree of all logs ever written and what nodes have    *)
(* acknowledged of it (Extended, Acted). SafeInv is the invariant on which *)
(* the theorems of SafetyProofs rest; a call that is executed keeps it     *)
(* (CallKeeps).                                                            *)
(*                                                                         *)
(* A position is chosen once a majority has acknowledged it to the leader  *)
(* of its term, and void once a majority has gone to later terms without   *)
(* having acknowledged it. A chosen position is on every line that leads   *)
(* to a later term's position; a void one will never be chosen.            *)
(***************************************************************************)
EXTENDS MatchProofs

-----------------------------------------------------------------------------
(* What a call of an idle node queues.  A node that is Plain has queued no *)
(* message and no write.                                                   *)

SameTasks(nd, nd2) ==
  /\ SameQueues(nd, nd2)
  /\ nd2.actions.install_snapshots = nd.actions.install_snapshots

Silent(nd) ==
  /\ nd.actions.broadcast_message = {}
  /\ DOMAIN nd.actions.send_messages = {}
  /\ nd.actions.install_snapshots = {}

Plain(nd) == Silent(nd) /\ nd.actions.append_log_entries = {}

LEMMA SameTasksTransitive ==
  ASSUME NEW a, NEW b, NEW c, SameTasks(a, b), SameTasks(b, c)
  PROVE  SameTasks(a, c)
BY DEF SameTasks, SameQueues

LEMMA SameTasksPlain ==
  ASSUME NEW nd, NEW nd2, SameTasks(nd, nd2)
  PROVE  /\ Silent(nd) => Silent(nd2)
         /\ Plain(nd) => Plain(nd2)
BY DEF SameTasks, SameQueues, Silent, Plain

LEMMA NoActionsPlain ==
  ASSUME NEW nd, nd.actions = NoActions
  PROVE  Plain(nd)
BY DEF Plain, Silent, NoActions

LEMMA FieldTasks ==
  ASSUME NEW nd, IsNode(nd), NEW x
  PROVE  /\ SameTasks(nd, SetElectionTimeout(nd))
         /\ SameTasks(nd, SetVotedFor(nd, x))
         /\ SameTasks(nd, SetCurrentTerm(nd, x))
         /\ SameTasks(nd, SetRole(nd, x))
         /\ SameTasks(nd, RebuildFollowers(nd))
         /\ SameTasks(nd, AdvanceCommitIndex(nd))
         /\ SameTasks(nd, [nd EXCEPT !.granted_votes = x])
         /\ SameTasks(nd, [nd EXCEPT !.followers = x])
         /\ SameTasks(nd, [nd EXCEPT !.commit_index = x])
<1> USE DEF IsNode, IsRecord, IsActions, SameTasks, SameQueues
<1>1. SameTasks(nd, SetElectionTimeout(nd))
  BY DEF SetElectionTimeout
<1>2. SameTasks(nd, SetVotedFor(nd, x))
  BY DEF SetVotedFor
<1>3. SameTasks(nd, SetCurrentTerm(nd, x))
  BY DEF SetCurrentTerm
<1>4. SameTasks(nd, SetRole(nd, x))
  BY DEF SetRole
<1>5. SameTasks(nd, RebuildFollowers(nd))
  BY DEF RebuildFollowers
<1>6. SameTasks(nd, AdvanceCommitIndex(nd))
  BY DEF AdvanceCommitIndex
<1>7. SameTasks(nd, [nd EXCEPT !.granted_votes = x])
  OBVIOUS
<1>8. SameTasks(nd, [nd EXCEPT !.followers = x])
  OBVIOUS
<1>9. SameTasks(nd, [nd EXCEPT !.commit_index = x])
  OBVIOUS
<1> QED
  BY <1>1, <1>2, <1>3, <1>4, <1>5, <1>6, <1>7, <1>8, <1>9

LEMMA AssertTasks ==
  ASSUME NEW nd, IsNode(nd), NEW name, NEW holds \in BOOLEAN
  PROVE  /\ SameTasks(nd, DebugAssert(nd, name, holds))
         /\ SameState(nd, DebugAssert(nd, name, holds))
BY AssertFacts DEF SameTasks, SameQueues

LEMMA BroadcastTasks ==
  ASSUME NEW nd, IsNode(nd), Silent(nd), NEW m
  PROVE  LET nd2 == QueueBroadcast(nd, m) IN
         /\ SameState(nd, nd2)
         /\ nd2.actions.append_log_entries = nd.actions.append_log_entries
         /\ nd2.actions.broadcast_message = {m}
         /\ DOMAIN nd2.actions.send_messages = {}
         /\ nd2.actions.install_snapshots = {}
<1> DEFINE merged == {Merge(x, m) : x \in nd.actions.broadcast_message}
           held == \A x \in nd.actions.broadcast_message : x.term <= m.term
           a == DebugAssert(nd, "merge term", held)
           queued == IF merged = {} THEN {m} ELSE merged
           nd2 == [a EXCEPT !.actions.broadcast_message = queued]
<1>1. QueueBroadcast(nd, m) = nd2
  BY DEF QueueBroadcast
<1>2. queued = {m}
  BY DEF Silent
<1>3. /\ a.actions = nd.actions /\ SameState(nd, a)
      /\ IsRecord(a) /\ IsActions(a.actions)
  <2>1. held \in BOOLEAN
    OBVIOUS
  <2>2. IsNode(a)
    BY DebugAssertEvolves
  <2> HIDE DEF held
  <2> QED
    BY <2>1, <2>2, AssertFacts DEF IsNode
<1> HIDE DEF queued, a
<1>4. /\ nd2.actions.append_log_entries = nd.actions.append_log_entries
      /\ nd2.actions.broadcast_message = queued
      /\ nd2.actions.send_messages = nd.actions.send_messages
      /\ nd2.actions.install_snapshots = nd.actions.install_snapshots
      /\ SameState(a, nd2)
  BY <1>3 DEF IsRecord, IsActions, SameState
<1>5. SameState(nd, nd2)
  BY <1>3, <1>4 DEF SameState
<1> HIDE DEF nd2
<1> QED
  BY <1>1, <1>2, <1>4, <1>5 DEF Silent

LEMMA SendTasks ==
  ASSUME NEW nd, IsNode(nd), Silent(nd), NEW dest, NEW m
  PROVE  LET nd2 == QueueSend(nd, dest, m) IN
         /\ SameState(nd, nd2)
         /\ nd2.actions.append_log_entries = nd.actions.append_log_entries
         /\ nd2.actions.broadcast_message = {}
         /\ DOMAIN nd2.actions.send_messages = {dest}
         /\ nd2.actions.send_messages[dest] = m
         /\ nd2.actions.install_snapshots = {}
<1> DEFINE queued == nd.actions.send_messages
           old == {queued[d] : d \in DOMAIN queued \cap {dest}}
           held == \A x \in old : x.term <= m.term
           merged == IF old = {} THEN m ELSE Merge(queued[dest], m)
           a == DebugAssert(nd, "merge term", held)
           sends == [d \in DOMAIN queued \cup {dest} |-> IF d = dest THEN merged ELSE queued[d]]
           nd2 == [a EXCEPT !.actions.send_messages = sends]
<1>1. QueueSend(nd, dest, m) = nd2
  BY DEF QueueSend
<1>2. merged = m
  BY DEF Silent
<1>3. DOMAIN sends = {dest} /\ sends[dest] = m
  <2> HIDE DEF merged
  <2> QED
    BY <1>2 DEF Silent
<1>4. /\ a.actions = nd.actions /\ SameState(nd, a)
      /\ IsRecord(a) /\ IsActions(a.actions)
  <2>1. held \in BOOLEAN
    OBVIOUS
  <2>2. IsNode(a)
    BY DebugAssertEvolves
  <2> HIDE DEF held
  <2> QED
    BY <2>1, <2>2, AssertFacts DEF IsNode
<1> HIDE DEF sends, a
<1>5. /\ nd2.actions.append_log_entries = nd.actions.append_log_entries
      /\ nd2.actions.broadcast_message = nd.actions.broadcast_message
      /\ nd2.actions.send_messages = sends
      /\ nd2.actions.install_snapshots = nd.actions.install_snapshots
      /\ SameState(a, nd2)
  BY <1>4 DEF IsRecord, IsActions, SameState
<1>6. SameState(nd, nd2)
  BY <1>4, <1>5 DEF SameState
<1> HIDE DEF nd2
<1> QED
  BY <1>1, <1>3, <1>5, <1>6 DEF Silent

LEMMA InstallTasks ==
  ASSUME NEW nd, IsNode(nd), Silent(nd), NEW dest
  PROVE  LET nd2 == QueueInstallSnapshot(nd, dest) IN
         /\ SameState(nd, nd2)
         /\ SameQueues(nd, nd2)
         /\ nd2.actions.install_snapshots = {dest}
BY DEF QueueInstallSnapshot, IsNode, IsRecord, IsActions, SameState, SameQueues, Silent

LEMMA AppendTasks ==
  ASSUME NEW nd, IsNode(nd), Silent(nd), NEW entries
  PROVE  LET nd2 == QueueAppend(nd, entries)
             merged == {AppendUnchecked(w, entries) : w \in nd.actions.append_log_entries}
         IN  /\ SameState(nd, nd2)
             /\ Silent(nd2)
             /\ nd2.actions.append_log_entries = IF merged = {} THEN {entries} ELSE merged
<1> DEFINE merged == {AppendUnchecked(w, entries) : w \in nd.actions.append_log_entries}
           held == \A w \in nd.actions.append_log_entries : Contains(w, entries.prev)
           a == DebugAssert(nd, "append anchor", held)
           writes == IF merged = {} THEN {entries} ELSE merged
           nd2 == [a EXCEPT !.actions.append_log_entries = writes]
<1>1. QueueAppend(nd, entries) = nd2
  BY DEF QueueAppend
<1>2. /\ a.actions = nd.actions /\ SameState(nd, a)
      /\ IsRecord(a) /\ IsActions(a.actions)
  <2>1. held \in BOOLEAN
    OBVIOUS
  <2>2. IsNode(a)
    BY DebugAssertEvolves
  <2> HIDE DEF held
  <2> QED
    BY <2>1, <2>2, AssertFacts DEF IsNode
<1> HIDE DEF writes, a
<1>3. /\ nd2.actions.append_log_entries = writes
      /\ nd2.actions.broadcast_message = nd.actions.broadcast_message
      /\ nd2.actions.send_messages = nd.actions.send_messages
      /\ nd2.actions.install_snapshots = nd.actions.install_snapshots
      /\ SameState(a, nd2)
  BY <1>2 DEF IsRecord, IsActions, SameState
<1>4. SameState(nd, nd2) /\ Silent(nd2)
  BY <1>2, <1>3 DEF SameState, Silent
<1> HIDE DEF nd2
<1> QED
  BY <1>1, <1>3, <1>4 DEF writes

LEMMA DemotedTasks ==
  ASSUME NEW C, NEW nd, Sound(nd, C), Plain(nd), NEW term \in Nat, nd.current_term <= term
  PROVE  Plain(TransitionToFollower(nd, term))
<1> DEFINE armed == IF nd.role = "Follower" THEN nd ELSE SetElectionTimeout(nd)
           entered == SetCurrentTerm(armed, term)
           unvoted == SetVotedFor(entered, Nil)
           demoted == SetRole(unvoted, "Follower")
           held == nd.current_term <= term
           a == DebugAssert(demoted, "term regression", held)
           stale(m) == IsCall(m) /\ m.term < term
           sends == demoted.actions.send_messages
           keptTo == {d \in DOMAIN sends : ~stale(sends[d])}
           keptSends == [d \in keptTo |-> sends[d]]
           keptBroadcast == {m \in a.actions.broadcast_message : ~stale(m)}
           nd2 == [a EXCEPT !.actions.broadcast_message = keptBroadcast,
                            !.actions.send_messages = keptSends]
<1>1. TransitionToFollower(nd, term) = nd2
  BY DEF TransitionToFollower
<1>2. IsNode(armed) /\ Plain(armed) /\ armed.current_term <= term
  <2>1. IsNode(nd)
    BY DEF Sound
  <2>2. IsNode(SetElectionTimeout(nd)) /\ SetElectionTimeout(nd).current_term = nd.current_term
    BY <2>1, SetElectionTimeoutEvolves, TimerFacts DEF Evolves, SameState
  <2>3. Plain(SetElectionTimeout(nd))
    BY <2>1, FieldTasks, SameTasksPlain
  <2> QED
    BY <2>1, <2>2, <2>3
<1> HIDE DEF armed
<1>3. IsNode(entered) /\ Plain(entered)
  BY <1>2, SetCurrentTermEvolves, FieldTasks, SameTasksPlain DEF Evolves
<1> HIDE DEF entered
<1>4. IsNode(unvoted) /\ Plain(unvoted)
  BY <1>3, SetVotedForEvolves, FieldTasks, SameTasksPlain DEF Evolves
<1> HIDE DEF unvoted
<1>5. IsNode(demoted) /\ Plain(demoted)
  BY <1>4, SetRoleEvolves, FieldTasks, SameTasksPlain DEF Evolves
<1> HIDE DEF demoted
<1>6. IsNode(a) /\ Plain(a)
  <2>1. held \in BOOLEAN
    OBVIOUS
  <2>2. IsNode(a)
    BY <1>5, DebugAssertEvolves
  <2> HIDE DEF held
  <2> QED
    BY <1>5, <2>1, <2>2, AssertTasks, SameTasksPlain
<1> HIDE DEF a
<1>7. keptBroadcast = {} /\ DOMAIN keptSends = {}
  BY <1>5, <1>6 DEF Plain, Silent
<1> HIDE DEF keptBroadcast, keptSends
<1>8. /\ nd2.actions.broadcast_message = keptBroadcast
      /\ nd2.actions.send_messages = keptSends
      /\ nd2.actions.append_log_entries = a.actions.append_log_entries
      /\ nd2.actions.install_snapshots = a.actions.install_snapshots
  BY <1>6 DEF IsNode, IsRecord, IsActions
<1> HIDE DEF nd2
<1> QED
  BY <1>1, <1>6, <1>7, <1>8 DEF Plain, Silent

-----------------------------------------------------------------------------
(* Writes. *)

\* What is queued to be stored takes the log a to that of the node.
Trail(a, nd) ==
  LET es == nd.log.entries
      writes == nd.actions.append_log_entries
  IN  /\ \A w \in writes : /\ w.prev = LastPosition(a)
                           /\ PartOf(w, es)
                           /\ LastPosition(w) = LastPosition(es)
      /\ writes = {} => es = a

LEMMA PushParts ==
  ASSUME NEW C, NEW es \in Entries(C), NEW e \in Entry(C),
         LastIndex(es) = 0 => e.kind = "ClusterConfig"
  PROVE  LET s == Push(es, e)
             one == [prev |-> LastPosition(es), ents |-> <<e>>]
         IN  /\ PartOf(es, s)
             /\ one \in Entries(C)
             /\ PartOf(one, s)
             /\ LastPosition(one) = LastPosition(s)
             /\ \A w \in Entries(C) : PartOf(w, es) /\ LastPosition(w) = LastPosition(es)
                                        /\ es.prev.index <= w.prev.index
                  => LET m == AppendUnchecked(w, one) IN
                     m.prev = w.prev /\ PartOf(m, s) /\ LastPosition(m) = LastPosition(s)
<1> DEFINE s == Push(es, e)
           one == [prev |-> LastPosition(es), ents |-> <<e>>]
           n == LastIndex(es)
<1>1. /\ s \in Entries(C)
      /\ s.prev = es.prev
      /\ LastIndex(s) = n + 1
      /\ EntryAt(s, n + 1) = e
      /\ \A i \in es.prev.index + 1 .. n : EntryAt(s, i) = EntryAt(es, i)
      /\ Extends(es, s)
  <2> HIDE DEF s, n
  <2>1. LET s0 == Push(es, e) IN
         /\ s0 \in Entries(C)
         /\ s0.prev = es.prev
         /\ LastIndex(s0) = LastIndex(es) + 1
         /\ EntryAt(s0, LastIndex(s0)) = e
         /\ \A i \in es.prev.index + 1 .. LastIndex(es) : EntryAt(s0, i) = EntryAt(es, i)
         /\ Extends(es, s0)
    BY PushTyped
  <2> QED
    BY <2>1 DEF s, n
<1>2. /\ one \in Entries(C)
      /\ one.prev = LastPosition(es)
      /\ LastPosition(one) = LastPosition(s)
  BY PushEdges
<1>3. /\ n \in Nat /\ es.prev.index \in Nat /\ es.prev.index <= n
      /\ LastPosition(es).index = n /\ LastPosition(es).term = TermAt(es, n)
  BY EntriesFacts DEF LastPosition, Pos
<1>4. \A i \in es.prev.index .. n : TermAt(s, i) = TermAt(es, i)
  BY <1>1, ExtendsEdges
<1>5. EntryAt(one, n + 1) = e /\ LastIndex(one) = n + 1
  BY <1>3 DEF EntryAt, LastIndex
<1> HIDE DEF s, one, n
<1>6. PartOf(es, s)
  BY <1>1, <1>3, <1>4 DEF PartOf, TermAt, n
<1>7. PartOf(one, s)
  <2>1. \A i \in n + 1 .. n + 1 : EntryAt(one, i) = EntryAt(s, i)
    BY <1>1, <1>3, <1>5
  <2> QED
    BY <1>1, <1>2, <1>3, <1>4, <1>5, <2>1 DEF PartOf
<1>8. ASSUME NEW w \in Entries(C), PartOf(w, es), LastPosition(w) = LastPosition(es),
             es.prev.index <= w.prev.index
      PROVE  LET m == AppendUnchecked(w, one) IN
             m.prev = w.prev /\ PartOf(m, s) /\ LastPosition(m) = LastPosition(s)
  <2> DEFINE m == AppendUnchecked(w, one)
  <2>1. /\ LastIndex(w) = n /\ w.prev.index \in Nat /\ w.prev.index <= n
        /\ Contains(w, LastPosition(w))
    BY <1>3, <1>8, EntriesFacts, LastPositionTyped DEF n
  <2>2. Contains(w, one.prev) /\ ContainsIndex(w, one.prev.index)
    BY <1>2, <1>8, <2>1 DEF Contains
  <2>3. m.prev = w.prev /\ LastPosition(m) = LastPosition(one)
    BY <1>2, <2>2, AppendEdges
  <2>4. /\ LastIndex(m) = LastIndex(one)
        /\ \A i \in w.prev.index + 1 .. one.prev.index : EntryAt(m, i) = EntryAt(w, i)
        /\ \A i \in one.prev.index + 1 .. LastIndex(one) : EntryAt(m, i) = EntryAt(one, i)
    BY <1>2, <2>2, AppendContained
  <2> HIDE DEF m
  <2>5. \A i \in w.prev.index + 1 .. n : EntryAt(w, i) = EntryAt(es, i)
    BY <1>8, <2>1 DEF PartOf
  <2>6. \A i \in w.prev.index + 1 .. n + 1 : EntryAt(m, i) = EntryAt(s, i)
    <3> SUFFICES ASSUME NEW i \in w.prev.index + 1 .. n + 1 PROVE EntryAt(m, i) = EntryAt(s, i)
      OBVIOUS
    <3>1. CASE i <= n
      <4>1. i \in w.prev.index + 1 .. n /\ i \in es.prev.index + 1 .. n
        BY <1>3, <1>8, <2>1, <3>1
      <4> QED
        BY <1>1, <1>2, <1>3, <2>4, <2>5, <4>1
    <3>2. CASE ~(i <= n)
      <4>1. i = n + 1
        BY <1>3, <2>1, <3>2
      <4>2. i \in one.prev.index + 1 .. LastIndex(one)
        BY <1>2, <1>3, <1>5, <4>1
      <4> QED
        BY <1>1, <1>5, <2>4, <4>1, <4>2
    <3> QED
      BY <3>1, <3>2
  <2>7. TermAt(s, w.prev.index) = w.prev.term
    <3>1. TermAt(es, w.prev.index) = w.prev.term
      BY <1>8 DEF PartOf
    <3>2. w.prev.index \in es.prev.index .. n
      BY <1>3, <1>8, <2>1
    <3> QED
      BY <1>4, <3>1, <3>2
  <2>8. LastIndex(m) = LastIndex(s)
    BY <1>1, <1>5, <2>4
  <2>9. m.prev.index = w.prev.index /\ m.prev.term = w.prev.term
    BY <2>3
  <2>10. \A i \in m.prev.index + 1 .. LastIndex(m) : EntryAt(m, i) = EntryAt(s, i)
    BY <1>1, <2>6, <2>8, <2>9
  <2>11. LastIndex(m) <= LastIndex(s)
    BY <1>1, <1>3, <2>8
  <2>12. PartOf(m, s)
    BY <2>7, <2>9, <2>10, <2>11 DEF PartOf
  <2> QED
    BY <1>2, <2>3, <2>12 DEF m
<1> QED
  BY <1>2, <1>6, <1>7, <1>8 DEF s, one

-----------------------------------------------------------------------------
(* Majorities.  A holds what nodes have acknowledged: <<w, t, k>> if node  *)
(* w's log was, in term t, that of the leader of t up to index k.  T are   *)
(* the terms of the nodes.                                                 *)

Acked(A, w, r) == \E a \in A : a[1] = w /\ a[2] = r.term /\ r.index <= a[3]

Ackers(A, r) == {w \in NodeId : Acked(A, w, r)}
Movers(A, T, r) == {w \in NodeId : T[w] > r.term /\ ~Acked(A, w, r)}

Chosen(V, A) == {r \in Position : HasMajority(Ackers(A, r), V)}
Voided(V, A, T) == {r \in Position : HasMajority(Movers(A, T, r), V)}

\* A step raises terms and adds acknowledgements of node x in its new term.
Later(x, A, T, A2, T2) ==
  /\ A \subseteq A2
  /\ \A id \in NodeId : T[id] \in Nat /\ T2[id] \in Nat /\ T[id] <= T2[id]
  /\ \A a \in A2 \ A : a[1] = x /\ a[2] = T2[x]

LEMMA MajorityMore ==
  ASSUME NEW V, IsFiniteSet(V), NEW S, NEW S2, S \cap V \subseteq S2, HasMajority(S, V)
  PROVE  HasMajority(S2, V)
<1>1. IsFiniteSet(S2 \cap V) /\ IsFiniteSet(S \cap V)
  BY FS_Subset
<1>2. S \cap V \subseteq S2 \cap V
  OBVIOUS
<1>3. Cardinality(S \cap V) <= Cardinality(S2 \cap V)
  BY <1>1, <1>2, FS_Subset
<1>4. Cardinality(S \cap V) \in Nat /\ Cardinality(S2 \cap V) \in Nat /\ Cardinality(V) \in Nat
  BY <1>1, FS_CardinalityType
<1>5. Majority(V) \in Nat
  BY <1>4 DEF Majority
<1> QED
  BY <1>3, <1>4, <1>5 DEF HasMajority

\* Two majorities have a member in common.
LEMMA MajoritiesShare ==
  ASSUME NEW V, IsFiniteSet(V), V # {}, NEW S, HasMajority(S, V), NEW S2, HasMajority(S2, V)
  PROVE  \E w \in V : w \in S /\ w \in S2
<1>1. (S \cap V) \cap (S2 \cap V) # {}
  BY MajoritiesMeet DEF HasMajority
<1> QED
  BY <1>1

\* What is chosen is not void.
LEMMA ChosenNotVoided ==
  ASSUME NEW V, IsFiniteSet(V), V # {}, NEW A, NEW T
  PROVE  Chosen(V, A) \cap Voided(V, A, T) = {}
<1> SUFFICES ASSUME NEW r \in Chosen(V, A), r \in Voided(V, A, T) PROVE FALSE
  OBVIOUS
<1>1. HasMajority(Ackers(A, r), V) /\ HasMajority(Movers(A, T, r), V)
  BY DEF Chosen, Voided
<1>2. \E w \in V : w \in Ackers(A, r) /\ w \in Movers(A, T, r)
  BY <1>1, MajoritiesShare
<1> QED
  BY <1>2 DEF Ackers, Movers

LEMMA AckedLater ==
  ASSUME NEW x \in NodeId, NEW A, NEW T, NEW A2, NEW T2, Later(x, A, T, A2, T2)
  PROVE  /\ \A w, r : Acked(A, w, r) => Acked(A2, w, r)
         /\ \A w, r : w # x /\ Acked(A2, w, r) => Acked(A, w, r)
         /\ \A r : Acked(A2, x, r) => Acked(A, x, r) \/ r.term = T2[x]
BY DEF Later, Acked

\* What is chosen or void stays so.
LEMMA VoidedLater ==
  ASSUME NEW V, IsFiniteSet(V), NEW x \in NodeId, NEW A, NEW T, NEW A2, NEW T2,
         Later(x, A, T, A2, T2)
  PROVE  /\ Chosen(V, A) \subseteq Chosen(V, A2)
         /\ Voided(V, A, T) \subseteq Voided(V, A2, T2)
<1>1. ASSUME NEW r \in Chosen(V, A) PROVE r \in Chosen(V, A2)
  <2>1. Ackers(A, r) \subseteq Ackers(A2, r)
    BY AckedLater DEF Ackers
  <2>2. HasMajority(Ackers(A, r), V) /\ r \in Position
    BY DEF Chosen
  <2>3. HasMajority(Ackers(A2, r), V)
    BY <2>1, <2>2, MajorityMore
  <2> QED
    BY <2>2, <2>3 DEF Chosen
<1>2. ASSUME NEW r \in Voided(V, A, T) PROVE r \in Voided(V, A2, T2)
  <2>1. HasMajority(Movers(A, T, r), V) /\ r \in Position
    BY DEF Voided
  <2>2. Movers(A, T, r) \subseteq Movers(A2, T2, r)
    <3> SUFFICES ASSUME NEW w \in Movers(A, T, r) PROVE w \in Movers(A2, T2, r)
      OBVIOUS
    <3>1. w \in NodeId /\ T[w] > r.term /\ ~Acked(A, w, r)
      BY DEF Movers
    <3>2. T[w] \in Nat /\ T2[w] \in Nat /\ T[w] <= T2[w]
      BY <3>1 DEF Later
    <3>3. r.term \in Nat
      BY <2>1 DEF Position
    <3>4. T2[w] > r.term
      BY <3>1, <3>2, <3>3
    <3>5. ~Acked(A2, w, r)
      <4>1. CASE w # x
        BY <3>1, <4>1, AckedLater
      <4>2. CASE w = x
        <5>1. T2[x] # r.term
          BY <3>2, <3>3, <3>4, <4>2
        <5> QED
          BY <3>1, <4>2, <5>1, AckedLater
      <4> QED
        BY <4>1, <4>2
    <3> QED
      BY <3>1, <3>4, <3>5 DEF Movers
  <2>3. HasMajority(Movers(A2, T2, r), V)
    BY <2>1, <2>2, MajorityMore
  <2> QED
    BY <2>1, <2>3 DEF Voided
<1> QED
  BY <1>1, <1>2

-----------------------------------------------------------------------------
(* The invariant: G are the logs of the tree, A the acknowledgements.      *)

Now == [id \in NodeId |-> node[id].current_term]

\* The position of index i on the log.
Spot(g, i) == Pos(TermAt(g, i), i)

FoundingLog(voters) ==
  [prev |-> ZERO, ents |-> <<ConfigEntry(0, [EmptyConfig EXCEPT !.voters = voters])>>]
FoundingLogs == {NewEntries(ZERO)} \cup {FoundingLog(voters) : voters \in Creations}

\* Every position was written by the leader of its term.
TreeLed(G) == \A p : OnTree(G, p) => <<p.term, p.index>> \in Led

AcksOK(G, A, T) ==
  \A a \in A : a[1] \in NodeId /\ a[2] <= T[a[1]] /\ OnTree(G, Pos(a[2], a[3]))

\* What node x acknowledged stays in its log as long as it may be chosen, and so does what
\* it committed; a leader's match indices are acknowledgements.
Keeper(G, A, U, x, es) == \A r : OnTree(G, r) /\ Acked(A, x, r) => Kept(G, U, r, LastPosition(es))

LogsSafe(G, es, ds) ==
  /\ Backed(G, es)
  /\ Backed(G, ds)
  /\ ds.prev = es.prev
  /\ Contains(ds, LastPosition(es))

Matches(A, nd) ==
  \A f \in DOMAIN nd.followers :
    LET es == nd.log.entries IN
    /\ nd.followers[f] <= LastIndex(es)
    /\ \A i \in es.prev.index .. nd.followers[f] :
         TermAt(es, i) = nd.current_term => Acked(A, f, Pos(nd.current_term, i))

CommitSafe(G, X, nd) ==
  /\ ContainsIndex(nd.log.entries, nd.commit_index)
  /\ Decided(G, X, Spot(nd.log.entries, nd.commit_index), nd.current_term)

NodeSafe(G, A, U, X, x, nd, d) ==
  LET es == nd.log.entries IN
  /\ LogsSafe(G, es, d.log.entries)
  /\ LastPosition(es).term = nd.current_term => Acked(A, x, LastPosition(es))
  /\ Keeper(G, A, U, x, es)
  /\ nd.role = "Leader" => Matches(A, nd)
  /\ CommitSafe(G, X, nd)

\* A leader's call has a part of its log and a commit index on it.
CallSafe(G, X, m) ==
  \E g \in G : \E n \in LastIndex(m.entries) .. LastIndex(g) :
    /\ TermAt(g, n) = m.term
    /\ PartOf(m.entries, g)
    /\ m.commit_index <= n
    /\ Decided(G, X, Spot(g, m.commit_index), m.term)

PacketSafe(G, A, X, T, p) ==
  LET m == p.msg IN
  /\ m.type = "RequestVoteCall" => OnTree(G, m.last_position)
  /\ m.type = "AppendEntriesCall" => CallSafe(G, X, m)
  /\ m.type = "AppendEntriesReply" /\ m.last_position.term = m.term
       => Acked(A, m.from, m.last_position)
  /\ m.type = "InstallSnapshot" /\ p.to \in NodeId
       => OnTree(G, m.position) /\ Decided(G, X, m.position, T[p.to])

\* A candidate's log keeps what is before the position it calls with, and what those
\* that voted for it have acknowledged.
CandidateSafe(V, G, A, U, c) ==
  LET last == LastPosition(node[c].log.entries)
      t == node[c].current_term
  IN  /\ \A p \in net :
           p.msg.type = "RequestVoteCall" /\ p.msg.from = c /\ p.msg.term = t
           => \A r : Before(G, r, p.msg.last_position) => Kept(G, U, r, last)
      /\ \A w \in V : Granted(w, t, c) =>
           \A r : OnTree(G, r) /\ r.term < t /\ Acked(A, w, r) => Kept(G, U, r, last)

HistorySafe(G, X) ==
  \A c \in committed : \E h \in G : \E k \in 1 .. LastIndex(h) :
    c[1] \in 1 .. k /\ Spot(h, k) \in X /\ EntryAt(h, c[1]) = c[2]

SafeNow(V, G, A, U, X) ==
  /\ Tree(G, FixedConfigs(V))
  /\ Lined(G, U)
  /\ FoundingLogs \subseteq G
  /\ TreeLed(G)
  /\ AcksOK(G, A, Now)
  /\ \A x \in NodeId : NodeSafe(G, A, U, X, x, node[x], stored[x])
  /\ \A p \in net : PacketSafe(G, A, X, Now, p)
  /\ \A c \in NodeId : node[c].role = "Candidate" => CandidateSafe(V, G, A, U, c)
  /\ HistorySafe(G, X)

SafeInv(V, G, A) == SafeNow(V, G, A, Voided(V, A, Now), Chosen(V, A))

-----------------------------------------------------------------------------
(* Leaders. *)

\* A term with a leader has been entered by a majority.
LEMMA ElectedMajority ==
  ASSUME NEW V, FixedInv(V), NEW t, NEW d \in NodeId, <<t, d>> \in elected,
         node[d].current_term >= t, \A w \in NodeId : node[w].current_term \in Nat
  PROVE  \E Q \in SUBSET V : HasMajority(Q, V) /\ \A w \in Q : w \in NodeId
                                                            /\ node[w].current_term >= t
<1>1. t \in Nat /\ d \in V
  BY DEF FixedInv
<1>2. CASE V = {d}
  <2>1. {d} \cap V = {d}
    BY <1>2
  <2>2. Cardinality({d}) = 1
    BY FS_Singleton
  <2>3. Majority({d}) = 1
    BY <2>2 DEF Majority
  <2>4. HasMajority({d}, V)
    BY <1>2, <2>1, <2>2, <2>3 DEF HasMajority
  <2> QED
    BY <1>1, <2>4
<1>3. CASE V # {d}
  <2>1. PICK Q \in SUBSET V : Cardinality(Q) >= Majority(V) /\ Elects(Q, t, d)
    BY <1>3 DEF FixedInv, LeadersChosen
  <2>2. Q \cap V = Q
    OBVIOUS
  <2>3. HasMajority(Q, V)
    BY <2>1, <2>2 DEF HasMajority
  <2>4. \A w \in Q : w \in NodeId /\ node[w].current_term >= t
    <3> SUFFICES ASSUME NEW w \in Q PROVE w \in NodeId /\ node[w].current_term >= t
      OBVIOUS
    <3>1. w \in NodeId /\ Loyal(node[w], t, {d})
      BY <2>1 DEF Elects, Safe
    <3>2. node[w].current_term > t \/ node[w].current_term = t
      BY <3>1 DEF Loyal
    <3>3. CASE node[w].current_term = t
      BY <1>1, <3>1, <3>3
    <3>4. CASE node[w].current_term > t
      BY <1>1, <3>1, <3>4
    <3> QED
      BY <3>2, <3>3, <3>4
  <2> QED
    BY <2>3, <2>4
<1> QED
  BY <1>2, <1>3

\* A new branch keeps the tree in line if its base keeps everything and a majority is past
\* the new positions where later terms have been.
LEMMA BranchLined ==
  ASSUME NEW C, NEW G, Tree(G, C), NEW U, Lined(G, U), NEW U2, U \subseteq U2,
         NEW g \in G, NEW s \in Entries(C), s.prev = ZERO, NEW last, NEW t \in Nat,
         Branches(G, g, s, last, t),
         \A r : OnTree(G, r) /\ r.term < t => Kept(G, U2, r, last),
         \A i \in Nat : \A p : last.index < i /\ OnTree(G, p) /\ p.term > t => Pos(t, i) \in U2
  PROVE  Lined(G \cup {s}, U2)
<1> DEFINE H == G \cup {s}
<1>1. /\ Tree(H, C)
      /\ \A p : OnTree(H, p) => \/ OnTree(G, p)
                                \/ /\ p.term = t /\ Contains(s, p) /\ last.index < p.index
                                   /\ Before(H, last, p)
  BY BranchGrows
<1>2. G \subseteq H
  OBVIOUS
<1> HIDE DEF H
<1> SUFFICES ASSUME NEW p, NEW r, OnTree(H, p), OnTree(H, r), r.term < p.term
             PROVE  Kept(H, U2, r, p)
  BY DEF Lined, H
<1>3. p.term \in Nat /\ r.term \in Nat /\ r.index \in Nat
  BY <1>1, OnTreeTyped
<1>4. CASE OnTree(G, r) /\ OnTree(G, p)
  <2>1. Kept(G, U, r, p)
    BY <1>4 DEF Lined
  <2>2. Before(G, r, p) => Before(H, r, p)
    BY <1>1, <1>2, BeforeGrown
  <2> QED
    BY <2>1, <2>2 DEF Kept
<1>5. CASE OnTree(G, r) /\ ~OnTree(G, p)
  <2>1. p.term = t /\ Before(H, last, p)
    BY <1>1, <1>5
  <2>2. Kept(G, U2, r, last)
    BY <1>5, <2>1
  <2>3. Before(G, r, last) => Before(H, r, last)
    BY <1>1, <1>2, BeforeGrown
  <2>4. Before(H, r, last) => Before(H, r, p)
    BY <1>1, <2>1, BeforeTransitive
  <2> QED
    BY <2>2, <2>3, <2>4 DEF Kept
<1>6. CASE ~OnTree(G, r)
  <2>1. r.term = t /\ last.index < r.index
    BY <1>1, <1>6
  <2>2. OnTree(G, p)
    <3>1. p.term # t
      BY <1>3, <2>1
    <3> QED
      BY <1>1, <3>1
  <2>3. p.term > t
    BY <1>3, <2>1
  <2> QED
    BY <1>3, <2>1, <2>2, <2>3 DEF Kept
<1> QED
  BY <1>4, <1>5, <1>6

\* No position of t or earlier is chosen past the log's end, once a later term has been.
LEMMA NewIsVoided ==
  ASSUME NEW C, Typed(C), NEW V, IsFiniteSet(V), FixedInv(V), NEW G, Tree(G, C), TreeLed(G),
         NEW A, AcksOK(G, A, Now), NEW x \in NodeId, NEW A2, NEW T2, Later(x, A, Now, A2, T2),
         NEW last, NEW t \in Nat, T2[x] = t, \A q : OnTree(G, q) /\ q.term = t => Before(G, q, last),
         NEW i \in Nat, last.index < i, NEW p, OnTree(G, p), p.term > t
  PROVE  Pos(t, i) \in Voided(V, A2, T2)
<1> DEFINE r == Pos(t, i)
<1>0. r \in Position /\ r.term = t /\ r.index = i
  BY DEF Pos, Position
<1> HIDE DEF r
<1>1. p.term \in Nat /\ p.term > 0
  BY OnTreeTyped
<1>2. PICK d \in NodeId : <<p.term, d>> \in elected /\ Ahead(node[d], p.term, p.index)
  <2>1. <<p.term, p.index>> \in Led
    BY DEF TreeLed
  <2>2. LET q == <<p.term, p.index>>
        IN  q[1] = 0 \/ \E L \in NodeId : <<q[1], L>> \in elected /\ Ahead(node[L], q[1], q[2])
    BY <2>1 DEF Led
  <2> QED
    BY <1>1, <2>2
<1>3. \A w \in NodeId : node[w].current_term \in Nat
  BY TypedFacts DEF IsNode, IsRecord
<1>4. node[d].current_term >= p.term
  BY <1>1, <1>2, <1>3 DEF Ahead, Settled
<1>5. PICK Q \in SUBSET V : HasMajority(Q, V) /\ \A w \in Q : w \in NodeId
                                                           /\ node[w].current_term >= p.term
  BY <1>2, <1>3, <1>4, ElectedMajority
<1>6. ASSUME NEW w \in Q PROVE w \in Movers(A2, T2, r)
  <2>1. w \in NodeId /\ node[w].current_term >= p.term /\ node[w].current_term \in Nat
    BY <1>3, <1>5
  <2>2. Now[w] = node[w].current_term
    BY <2>1 DEF Now
  <2>3. T2[w] \in Nat /\ Now[w] <= T2[w]
    BY <2>1 DEF Later
  <2>4. T2[w] > r.term
    BY <1>0, <1>1, <2>1, <2>2, <2>3
  <2>5. w # x
    BY <1>0, <2>3, <2>4
  <2>6. ~Acked(A2, w, r)
    <3> SUFFICES ASSUME Acked(A2, w, r) PROVE FALSE
      OBVIOUS
    <3>1. Acked(A, w, r)
      BY <2>5, AckedLater
    <3>2. PICK a \in A : a[1] = w /\ a[2] = r.term /\ r.index <= a[3]
      BY <3>1 DEF Acked
    <3>3. OnTree(G, Pos(a[2], a[3])) /\ Pos(a[2], a[3]).term = t /\ Pos(a[2], a[3]).index = a[3]
      BY <1>0, <3>2 DEF AcksOK, Pos
    <3>4. Before(G, Pos(a[2], a[3]), last)
      BY <3>3
    <3>5. a[3] \in Nat /\ last.index \in Nat /\ a[3] <= last.index
      BY <3>3, <3>4, BeforeFacts
    <3> QED
      BY <1>0, <3>2, <3>5
  <2> QED
    BY <2>1, <2>4, <2>6 DEF Movers
<1>7. HasMajority(Movers(A2, T2, r), V)
  BY <1>5, <1>6, MajorityMore
<1> QED
  BY <1>0, <1>7 DEF Voided, r

\* A leader's log keeps what its voters keep, and a majority is past the rest.
LEMMA LeaderKeeps ==
  ASSUME NEW V, IsFiniteSet(V), NEW C, NEW G, Tree(G, C), NEW x \in NodeId, NEW A, NEW T, NEW A2, NEW T2,
         Later(x, A, T, A2, T2), NEW last, NEW t \in Nat, NEW U2, Voided(V, A2, T2) \subseteq U2,
         NEW Q \in SUBSET V, HasMajority(Q, V),
         \A w \in Q : /\ w \in NodeId /\ T2[w] >= t
                      /\ \A r : OnTree(G, r) /\ r.term < t /\ Acked(A, w, r) => Kept(G, U2, r, last)
  PROVE  \A r : OnTree(G, r) /\ r.term < t => Kept(G, U2, r, last)
<1> SUFFICES ASSUME NEW r, OnTree(G, r), r.term < t, ~Kept(G, U2, r, last) PROVE FALSE
  OBVIOUS
<1>1. r.term \in Nat /\ r.index \in Nat
  BY OnTreeTyped
<1>2. ASSUME NEW w \in Q PROVE w \in Movers(A2, T2, r)
  <2>1. w \in NodeId /\ T2[w] >= t /\ ~Acked(A, w, r)
    OBVIOUS
  <2>2. T2[w] \in Nat /\ T2[w] > r.term
    BY <1>1, <2>1 DEF Later
  <2>3. ~Acked(A2, w, r)
    BY <2>1, <2>2, <1>1, AckedLater
  <2> QED
    BY <2>1, <2>2, <2>3 DEF Movers
<1>3. HasMajority(Movers(A2, T2, r), V)
  BY <1>2, MajorityMore
<1>4. /\ Pos(r.term, r.index) \in Position
      /\ Movers(A2, T2, Pos(r.term, r.index)) = Movers(A2, T2, r)
  BY <1>1 DEF Movers, Acked, Pos, Position
<1> QED
  BY <1>3, <1>4 DEF Voided, Kept

-----------------------------------------------------------------------------
(* Commits of a leader whose voters are V. *)

Steady(C, V) ==
  /\ Closed(C)
  /\ IsFiniteSet(V)
  /\ V # {}
  /\ \A c \in C : c.voters = V /\ c.new_voters = {}

LEMMA MajorityIndexReached ==
  ASSUME NEW V, IsFiniteSet(V), V # {}, NEW nd, \A v \in V : MatchIndex(nd, v) \in Nat
  PROVE  LET i == MajorityIndex(nd, V) IN
         i \in Nat /\ HasMajority({v \in V : MatchIndex(nd, v) >= i}, V)
<1> DEFINE match == [v \in V |-> MatchIndex(nd, v)]
           S == {match[v] : v \in V}
           from(i) == {v \in V : match[v] >= i}
           past(i) == {v \in V : match[v] > i}
           reach(i) == Cardinality(from(i))
           beyond(i) == Cardinality(past(i))
<1>1. \A v \in V : match[v] \in Nat /\ match[v] = MatchIndex(nd, v)
  OBVIOUS
<1>2. S \subseteq Nat /\ S # {}
  BY <1>1
<1> HIDE DEF match
<1>3. /\ Cardinality(V) \in Nat /\ Cardinality(V) # 0
      /\ Majority(V) = Cardinality(V) \div 2 + 1
  BY FS_CardinalityType, FS_EmptySet DEF Majority
<1>4. Majority(V) \in Nat /\ 1 <= Majority(V) /\ Majority(V) <= Cardinality(V)
  BY <1>3
<1>5. \A i : /\ IsFiniteSet(from(i)) /\ IsFiniteSet(past(i))
             /\ reach(i) \in Nat /\ beyond(i) \in Nat
  BY FS_Subset, FS_CardinalityType
<1> DEFINE K == {i \in S : reach(i) >= Majority(V)}
           D == {beyond(i) : i \in K}
<1>6. K # {}
  <2>1. PICK m \in S : \A k \in S : m <= k
    BY <1>2, LeastIndex
  <2>2. from(m) = V
    BY <1>1, <1>2, <2>1
  <2> QED
    BY <1>3, <1>4, <2>1, <2>2
<1>7. PICK n \in D : \A k \in D : n <= k
  <2>1. D \subseteq Nat /\ D # {}
    BY <1>5, <1>6
  <2> HIDE DEF D
  <2> QED
    BY <2>1, LeastIndex
<1>8. PICK i \in K : n = beyond(i)
  OBVIOUS
<1>9. i \in Nat /\ i \in S /\ reach(i) >= Majority(V)
  BY <1>2
<1>10. beyond(i) < Majority(V)
  <2> SUFFICES ASSUME ~(beyond(i) < Majority(V)) PROVE FALSE
    OBVIOUS
  <2>0. beyond(i) >= Majority(V)
    <3>1. beyond(i) \in Nat
      BY <1>5
    <3> HIDE DEF beyond
    <3> QED
      BY <1>4, <3>1
  <2>1. past(i) # {}
    BY <1>4, <2>0, FS_EmptySet
  <2> DEFINE M == {match[v] : v \in past(i)}
  <2>2. M \subseteq Nat /\ M # {}
    BY <1>1, <2>1
  <2>3. PICK j \in M : \A k \in M : j <= k
    <3> HIDE DEF M
    <3> QED
      BY <2>2, LeastIndex
  <2>4. PICK w \in past(i) : match[w] = j
    BY <2>3
  <2>5. j \in Nat /\ j > i /\ j \in S /\ w \in V
    BY <2>2, <2>4
  <2>6. from(j) = past(i)
    BY <1>1, <1>9, <2>3, <2>5
  <2>7. j \in K
    <3>1. reach(j) = beyond(i)
      BY <2>6
    <3> HIDE DEF reach, beyond
    <3> QED
      BY <2>0, <2>5, <3>1
  <2>8. past(j) \subseteq past(i) /\ w \notin past(j) /\ w \in past(i)
    BY <1>1, <1>9, <2>4, <2>5
  <2>9. beyond(j) < beyond(i)
    <3>1. past(j) \in SUBSET past(i) /\ past(i) # past(j)
      BY <2>8
    <3>2. beyond(j) <= beyond(i) /\ beyond(i) # beyond(j)
      <4>1. IsFiniteSet(past(i))
        BY <1>5
      <4> HIDE DEF past
      <4> QED
        BY <4>1, <3>1, FS_Subset
    <3>3. beyond(i) \in Nat /\ beyond(j) \in Nat
      BY <1>5
    <3> HIDE DEF beyond
    <3> QED
      BY <3>2, <3>3
  <2>10. beyond(j) \in D
    BY <2>7
  <2>11. n <= beyond(j)
    BY <1>7, <2>10
  <2>12. beyond(i) \in Nat /\ beyond(j) \in Nat
    BY <1>5
  <2> HIDE DEF beyond, D
  <2> QED
    BY <1>8, <2>9, <2>11, <2>12
<1>11. IsMajorityIndex(i, match, V)
  BY <1>9, <1>10 DEF IsMajorityIndex
<1> DEFINE x == MajorityIndex(nd, V)
<1>12. x \in S /\ IsMajorityIndex(x, match, V)
  <2>1. x = CHOOSE k \in S : IsMajorityIndex(k, match, V)
    BY DEF MajorityIndex, match
  <2> HIDE DEF x, S
  <2> QED
    BY <1>9, <1>11, <2>1
<1> HIDE DEF x
<1>13. Cardinality({v \in V : match[v] >= x}) >= Majority(V)
  BY <1>12 DEF IsMajorityIndex
<1>14. {v \in V : match[v] >= x} = {v \in V : MatchIndex(nd, v) >= x} \cap V
  BY <1>1
<1> QED
  BY <1>2, <1>12, <1>13, <1>14 DEF HasMajority, x

\* A commit that a majority's match indices allow.
Commits(V, nd) ==
  /\ ContainsIndex(nd.log.entries, nd.commit_index)
  /\ TermAt(nd.log.entries, nd.commit_index) = nd.current_term
  /\ HasMajority({v \in V : MatchIndex(nd, v) >= nd.commit_index}, V)

\* The commit index is what it was, or a new one.
Recommits(V, nd, nd2) ==
  \/ nd2.commit_index = nd.commit_index
  \/ nd2.commit_index > nd.commit_index /\ Commits(V, nd2)

\* Nothing of the node has changed but the commit index.
SameLeader(nd, nd2) ==
  /\ nd2.id = nd.id
  /\ nd2.role = nd.role
  /\ nd2.current_term = nd.current_term
  /\ nd2.log = nd.log
  /\ nd2.followers = nd.followers

LEMMA MatchIndexTyped ==
  ASSUME NEW C, NEW nd, Sound(nd, C), NEW v
  PROVE  MatchIndex(nd, v) \in Nat
BY SoundLog, EntriesFacts DEF MatchIndex, Sound

LEMMA AdvanceSteady ==
  ASSUME NEW C, NEW V, Steady(C, V), NEW nd, Sound(nd, C), nd.role = "Leader", CanCommit(nd)
  PROVE  LET nd2 == AdvanceCommitIndex(nd) IN
         /\ Sound(nd2, C)
         /\ SameTasks(nd, nd2)
         /\ SameLeader(nd, nd2)
         /\ nd2.commit_index > nd.commit_index
         /\ Commits(V, nd2)
<1> DEFINE nd2 == AdvanceCommitIndex(nd)
           i == SmallestMajorityIndex(nd)
<1>1. Config(nd).voters = V /\ ~IsJointConsensus(Config(nd))
  BY ConfigOfLeader DEF Steady, IsJointConsensus
<1>2. i = MajorityIndex(nd, V)
  BY <1>1 DEF SmallestMajorityIndex
<1>3. HasMajority({v \in V : MatchIndex(nd, v) >= i}, V)
  BY <1>2, MatchIndexTyped, MajorityIndexReached DEF Steady
<1>4. /\ i > nd.commit_index
      /\ ContainsIndex(nd.log.entries, i)
      /\ TermAt(nd.log.entries, i) = nd.current_term
  BY DEF CanCommit
<1>5. Sound(nd2, C)
  BY AdvanceCommitTenure DEF Tenure
<1>6. nd2 = [nd EXCEPT !.commit_index = i]
  BY DEF AdvanceCommitIndex
<1>7. SameTasks(nd, nd2)
  BY FieldTasks DEF Sound
<1> HIDE DEF i
<1>8. SameLeader(nd, nd2) /\ nd2.commit_index = i
  BY <1>6 DEF Sound, IsNode, IsRecord, SameLeader
<1> HIDE DEF nd2
<1>9. \A v \in V : MatchIndex(nd2, v) = MatchIndex(nd, v)
  BY <1>8 DEF SameLeader, MatchIndex
<1>10. {v \in V : MatchIndex(nd2, v) >= nd2.commit_index} = {v \in V : MatchIndex(nd, v) >= i}
  BY <1>8, <1>9
<1>11. Commits(V, nd2)
  BY <1>3, <1>4, <1>8, <1>10 DEF Commits, SameLeader
<1> QED
  BY <1>4, <1>5, <1>7, <1>8, <1>11 DEF nd2

\* What a commit does, if the leader is a voter.
Committed(V, nd, nd2, C) ==
  /\ Sound(nd2, C)
  /\ SameTasks(nd, nd2)
  /\ SameLeader(nd, nd2)
  /\ Recommits(V, nd, nd2)

LEMMA CommitSteady ==
  ASSUME NEW C, NEW V, Steady(C, V), NEW nd, Sound(nd, C), nd.role = "Leader"
  PROVE  /\ Committed(V, nd, UpdateCommitIndexIfPossible(nd), C)
         /\ Committed(V, nd, NestedCommit(nd), C)
<1> DEFINE up == AdvanceCommitIndex(nd)
<1>1. ASSUME NEW final PROVE Committed(V, nd, CommitThen(nd, final), C)
  <2>1. CASE ~CanCommit(nd)
    <3>1. CommitThen(nd, final) = nd
      BY <2>1 DEF CommitThen
    <3> QED
      BY <3>1 DEF Committed, SameTasks, SameQueues, SameLeader, Recommits
  <2>2. CASE CanCommit(nd)
    <3>1. /\ Sound(up, C)
          /\ SameTasks(nd, up)
          /\ SameLeader(nd, up)
          /\ up.commit_index > nd.commit_index
          /\ Commits(V, up)
      BY <2>2, AdvanceSteady
    <3>2. CommitThen(nd, final) =
            IF ~LatestConfigCommitted(up) THEN up
            ELSE IF IsJointConsensus(Config(up)) THEN final
            ELSE IF nd.id \in Config(up).voters THEN up
            ELSE TransitionToFollower(up, up.current_term)
      BY <2>2 DEF CommitThen
    <3> HIDE DEF up
    <3>3. up.role = "Leader"
      BY <3>1 DEF SameLeader
    <3>4. Config(up).voters = V /\ ~IsJointConsensus(Config(up))
      BY <3>1, <3>3, ConfigOfLeader DEF Steady, IsJointConsensus
    <3>5. nd.id \in V
      BY DEF Sound, Stands, Steady, IsVoter
    <3>6. CommitThen(nd, final) = up
      BY <3>2, <3>4, <3>5
    <3> QED
      BY <3>1, <3>6 DEF Committed, Recommits
  <2> QED
    BY <2>1, <2>2
<1> QED
  BY <1>1 DEF UpdateCommitIndexIfPossible, NestedCommit

-----------------------------------------------------------------------------
(* Proposals. *)

\* What follows the leader's log, up to a commit index that it has reached.
Cites(nd, m) ==
  /\ m.type = "AppendEntriesCall"
  /\ m.term = nd.current_term
  /\ PartOf(m.entries, nd.log.entries)
  /\ nd.log.entries.prev.index <= m.entries.prev.index
  /\ m.commit_index <= nd.commit_index

LEMMA ProposalTasks ==
  ASSUME NEW C, NEW nd, Sound(nd, C), nd.role = "Leader", Silent(nd), NEW last, NEW entry,
         [prev |-> last, ents |-> <<entry>>] \in Entries(C)
  PROVE  LET nd2 == BroadcastProposal(nd, last, entry)
             one == [prev |-> last, ents |-> <<entry>>]
         IN  /\ SameState(nd, nd2)
             /\ Sound(nd2, C)
             /\ nd2.actions.append_log_entries = nd.actions.append_log_entries
             /\ nd2.actions.broadcast_message \subseteq {AppendEntriesCall(nd, one)}
             /\ DOMAIN nd2.actions.send_messages = {}
             /\ nd2.actions.install_snapshots = {}
<1> DEFINE one == [prev |-> last, ents |-> <<entry>>]
           held == nd.role = "Leader"
           a == IF DOMAIN nd.followers = {} THEN DebugAssert(nd, "still leader", held)
                ELSE QueueBroadcast(nd, AppendEntriesCall(nd, one))
           nd2 == BroadcastProposal(nd, last, entry)
<1>1. nd2 = SetElectionTimeout(a)
  BY DEF BroadcastProposal
<1>2. /\ IsNode(a)
      /\ SameState(nd, a)
      /\ a.actions.append_log_entries = nd.actions.append_log_entries
      /\ a.actions.broadcast_message \subseteq {AppendEntriesCall(nd, one)}
      /\ DOMAIN a.actions.send_messages = {}
      /\ a.actions.install_snapshots = {}
  <2>1. CASE DOMAIN nd.followers = {}
    <3>1. held \in BOOLEAN /\ a = DebugAssert(nd, "still leader", held)
      BY <2>1
    <3> HIDE DEF a, held
    <3>2. SameTasks(nd, a) /\ SameState(nd, a)
      BY <3>1, AssertTasks DEF Sound
    <3>3. IsNode(a)
      BY <3>1, DebugAssertEvolves DEF Sound, Evolves
    <3> QED
      BY <3>2, <3>3 DEF SameTasks, SameQueues, Silent
  <2>2. CASE DOMAIN nd.followers # {}
    <3> DEFINE m == AppendEntriesCall(nd, one)
    <3>1. a = QueueBroadcast(nd, m)
      BY <2>2
    <3>2. Speaks(m, nd.id, nd.current_term)
      BY NewCallTyped
    <3> HIDE DEF a, m
    <3>3. IsNode(a)
      BY <3>1, <3>2, QueueBroadcastEvolves DEF Sound, Evolves
    <3>4. LET b == QueueBroadcast(nd, m) IN
         /\ SameState(nd, b)
         /\ b.actions.append_log_entries = nd.actions.append_log_entries
         /\ b.actions.broadcast_message = {m}
         /\ DOMAIN b.actions.send_messages = {}
         /\ b.actions.install_snapshots = {}
      BY BroadcastTasks DEF Sound
    <3> QED
      BY <3>1, <3>3, <3>4 DEF m
  <2> QED
    BY <2>1, <2>2
<1> HIDE DEF a
<1>3. SameTasks(a, nd2) /\ SameState(a, nd2)
  BY <1>1, <1>2, FieldTasks, TimerFacts
<1>4. Sound(nd2, C)
  BY BroadcastProposalTenure DEF Tenure
<1> HIDE DEF nd2
<1> QED
  BY <1>2, <1>3, <1>4 DEF SameState, SameTasks, SameQueues, nd2

\* What is queued to be stored still continues what it continued.
KeepsTrail(nd, nd2, C) ==
  \A a \in Entries(C) : a.prev = nd.log.entries.prev /\ Trail(a, nd) => Trail(a, nd2)

LEMMA PushedTasks ==
  ASSUME NEW C, NEW nd, Sound(nd, C), Silent(nd), NEW entry \in Entry(C),
         LastIndex(nd.log.entries) = 0 => entry.kind = "ClusterConfig"
  PROVE  LET nd2 == Pushed(nd, entry) IN Silent(nd2) /\ KeepsTrail(nd, nd2, C)
<1> DEFINE one == [prev |-> LastPosition(nd.log.entries), ents |-> <<entry>>]
           q == QueueAppend(nd, one)
           nd2 == Pushed(nd, entry)
           es == nd.log.entries
           s == Push(es, entry)
           merged == {AppendUnchecked(w, one) : w \in nd.actions.append_log_entries}
<1>1. nd2 = [q EXCEPT !.log.entries = s]
  <2>1. q.log = nd.log
    BY QueueAppendFacts DEF Sound
  <2> QED
    BY <2>1 DEF Pushed
<1>2. /\ IsRecord(q)
      /\ Silent(q)
      /\ q.actions.append_log_entries = IF merged = {} THEN {one} ELSE merged
  <2> HIDE DEF one
  <2>1. LET x == QueueAppend(nd, one)
            m == {AppendUnchecked(w, one) : w \in nd.actions.append_log_entries}
        IN  /\ SameState(nd, x)
            /\ Silent(x)
            /\ x.actions.append_log_entries = IF m = {} THEN {one} ELSE m
    BY AppendTasks DEF Sound
  <2> QED
    BY <2>1, QueueAppendFacts DEF Sound
<1>3. nd2.log.entries = s
  BY PushedFacts
<1> HIDE DEF q, s
<1>4. nd2.actions = q.actions
  BY <1>1, <1>2 DEF IsRecord
<1> HIDE DEF nd2
<1>5. Silent(nd2)
  BY <1>2, <1>4 DEF Silent
<1>6. ASSUME NEW a \in Entries(C), a.prev = es.prev, Trail(a, nd)
      PROVE  Trail(a, nd2)
  <2>1. nd2.actions.append_log_entries = IF merged = {} THEN {one} ELSE merged
    BY <1>2, <1>4
  <2>2. es \in Entries(C) /\ nd.actions.append_log_entries \subseteq Entries(C)
    BY SoundLog DEF Sound, QueuesOK, Writes
  <2>3. /\ PartOf(one, s)
        /\ LastPosition(one) = LastPosition(s)
        /\ \A w \in Entries(C) : PartOf(w, es) /\ LastPosition(w) = LastPosition(es)
                                   /\ es.prev.index <= w.prev.index
             => LET m == AppendUnchecked(w, one) IN
                m.prev = w.prev /\ PartOf(m, s) /\ LastPosition(m) = LastPosition(s)
    BY <2>2, PushParts DEF s
  <2>4. one.prev = LastPosition(es)
    OBVIOUS
  <2> HIDE DEF one
  <2>5. CASE merged = {}
    <3>1. nd.actions.append_log_entries = {}
      BY <2>5
    <3>2. es = a
      BY <1>6, <3>1 DEF Trail
    <3>3. nd2.actions.append_log_entries = {one}
      BY <2>1, <2>5
    <3> QED
      BY <1>3, <2>3, <2>4, <3>2, <3>3 DEF Trail
  <2>6. CASE merged # {}
    <3>1. ASSUME NEW m \in merged
          PROVE  m.prev = LastPosition(a) /\ PartOf(m, s) /\ LastPosition(m) = LastPosition(s)
      <4>1. PICK w \in nd.actions.append_log_entries : m = AppendUnchecked(w, one)
        OBVIOUS
      <4>2. w.prev = LastPosition(a) /\ PartOf(w, es) /\ LastPosition(w) = LastPosition(es)
        BY <1>6 DEF Trail
      <4>3. w \in Entries(C)
        BY <2>2
      <4>4. es.prev.index <= w.prev.index
        <5>1. LastPosition(a).index = LastIndex(a) /\ a.prev.index <= LastIndex(a)
          BY EntriesFacts, LastPositionTyped
        <5> QED
          BY <1>6, <4>2, <5>1
      <4> QED
        BY <2>3, <4>1, <4>2, <4>3, <4>4
    <3>2. nd2.actions.append_log_entries = merged
      BY <2>1, <2>6
    <3> HIDE DEF merged
    <3> QED
      BY <1>3, <2>6, <3>1, <3>2 DEF Trail
  <2> QED
    BY <2>5, <2>6
<1> QED
  BY <1>5, <1>6 DEF KeepsTrail, nd2

\* A match index is one that the leader had, or none.
MatchKept(nd, nd2) ==
  \A f \in DOMAIN nd2.followers :
    \/ nd2.followers[f] = 0
    \/ f \in DOMAIN nd.followers /\ nd2.followers[f] = nd.followers[f]

LEMMA RebuildKeepsMatch ==
  ASSUME NEW nd, IsNode(nd)
  PROVE  MatchKept(nd, RebuildFollowers(nd))
<1> DEFINE followers == [f \in Peers(nd) |-> IF f \in DOMAIN nd.followers THEN nd.followers[f] ELSE 0]
           nd2 == RebuildFollowers(nd)
<1>1. nd2 = [nd EXCEPT !.followers = followers]
  BY DEF RebuildFollowers
<1> HIDE DEF followers
<1>2. nd2.followers = followers
  BY <1>1 DEF IsNode, IsRecord
<1> HIDE DEF nd2
<1> QED
  BY <1>2 DEF MatchKept, followers, nd2

LEMMA AppendedTasks ==
  ASSUME NEW C, NEW nd, Sound(nd, C), nd.role = "Leader", Silent(nd), NEW entry \in Entry(C)
  PROVE  LET nd2 == AppendProposedLogEntry(nd, entry) IN
         /\ Sound(nd2, C)
         /\ nd2.id = nd.id /\ nd2.role = "Leader" /\ nd2.current_term = nd.current_term
         /\ nd2.commit_index = nd.commit_index
         /\ nd2.log.entries = Push(nd.log.entries, entry)
         /\ Silent(nd2)
         /\ KeepsTrail(nd, nd2, C)
         /\ MatchKept(nd, nd2)
<1> DEFINE a == Pushed(nd, entry)
           nd2 == AppendProposedLogEntry(nd, entry)
<1>1. nd2 = IF entry.kind = "ClusterConfig" THEN RebuildFollowers(a) ELSE a
  BY DEF AppendProposedLogEntry, Pushed
<1>2. ~(LastIndex(nd.log.entries) = 0)
  BY DEF Sound, Stands
<1>3. Silent(a) /\ KeepsTrail(nd, a, C) /\ a.followers = nd.followers /\ Sound(a, C)
  BY <1>2, PushedFacts, PushedTasks
<1>4. /\ Tenure(nd, nd2, C)
      /\ nd2.log.entries = Push(nd.log.entries, entry)
      /\ nd2.commit_index = nd.commit_index
  BY AppendProposedTenure
<1> HIDE DEF a, nd2
<1>5. Silent(nd2) /\ nd2.log.entries = a.log.entries
         /\ nd2.actions.append_log_entries = a.actions.append_log_entries
  <2>1. CASE entry.kind = "ClusterConfig"
    <3>1. SameTasks(a, RebuildFollowers(a)) /\ RebuildFollowers(a).log = a.log
      BY <1>3, FieldTasks, RebuildKeeps DEF Sound, Spares
    <3> QED
      BY <1>1, <1>3, <2>1, <3>1 DEF SameTasks, SameQueues, Silent
  <2> QED
    BY <1>1, <1>3, <2>1
<1>6. KeepsTrail(nd, nd2, C)
  BY <1>3, <1>5 DEF KeepsTrail, Trail
<1>7. MatchKept(nd, nd2)
  <2>1. MatchKept(a, RebuildFollowers(a))
    BY <1>3, RebuildKeepsMatch DEF Sound
  <2> QED
    BY <1>1, <1>3, <2>1 DEF MatchKept
<1>8. nd2.id = nd.id /\ Sound(nd2, C) /\ nd2.role = "Leader" /\ nd2.current_term = nd.current_term
  BY <1>4 DEF Tenure, Evolves
<1> QED
  BY <1>4, <1>5, <1>6, <1>7, <1>8 DEF nd2

\* The leader nd has proposed and leads on as nd2.
Proposed(V, nd, nd2, entry, C) ==
  /\ Sound(nd2, C)
  /\ nd2.id = nd.id /\ nd2.role = "Leader" /\ nd2.current_term = nd.current_term
  /\ nd2.log.entries = Push(nd.log.entries, entry)
  /\ KeepsTrail(nd, nd2, C)
  /\ MatchKept(nd, nd2)
  /\ Recommits(V, nd, nd2)
  /\ \A m \in nd2.actions.broadcast_message : Cites(nd2, m)
  /\ DOMAIN nd2.actions.send_messages = {}
  /\ nd2.actions.install_snapshots = {}

LEMMA ProposeDeed ==
  ASSUME NEW C, NEW V, Steady(C, V), NEW nd, Sound(nd, C), nd.role = "Leader", Silent(nd),
         NEW entry \in Entry(C)
  PROVE  Proposed(V, nd, Propose(nd, entry), entry, C)
<1> DEFINE appended == AppendProposedLogEntry(nd, entry)
           settled == IF IsSelfSoloVoter(appended) THEN UpdateCommitIndexIfPossible(appended)
                      ELSE appended
           last == LastPosition(nd.log.entries)
           one == [prev |-> last, ents |-> <<entry>>]
           nd2 == Propose(nd, entry)
<1>1. nd2 = BroadcastProposal(settled, last, entry)
  BY DEF Propose, ProposeThen
<1>2. /\ Sound(appended, C)
      /\ appended.id = nd.id /\ appended.role = "Leader"
      /\ appended.current_term = nd.current_term
      /\ appended.commit_index = nd.commit_index
      /\ appended.log.entries = Push(nd.log.entries, entry)
      /\ Silent(appended)
      /\ KeepsTrail(nd, appended, C)
      /\ MatchKept(nd, appended)
  BY AppendedTasks
<1> HIDE DEF appended
<1>3. Committed(V, appended, settled, C)
  <2>1. CASE IsSelfSoloVoter(appended)
    BY <1>2, <2>1, CommitSteady
  <2>2. CASE ~IsSelfSoloVoter(appended)
    BY <1>2, <2>2 DEF Committed, SameTasks, SameQueues, SameLeader, Recommits
  <2> QED
    BY <2>1, <2>2
<1> HIDE DEF settled
<1>4. ~(LastIndex(nd.log.entries) = 0) /\ nd.log.entries \in Entries(C)
  BY SoundLog DEF Sound, Stands
<1>5. /\ one \in Entries(C)
      /\ PartOf(one, Push(nd.log.entries, entry))
  BY <1>4, PushParts
<1>6. /\ Push(nd.log.entries, entry).prev = nd.log.entries.prev
      /\ nd.log.entries.prev.index <= last.index
  BY <1>4, PushTyped, LastPositionTyped, EntriesFacts
<1>7. Silent(settled) /\ settled.role = "Leader" /\ Sound(settled, C)
      /\ settled.actions.append_log_entries = appended.actions.append_log_entries
  BY <1>2, <1>3, SameTasksPlain DEF Committed, SameLeader, SameTasks, SameQueues
<1>8. /\ SameState(settled, nd2)
      /\ Sound(nd2, C)
      /\ nd2.actions.append_log_entries = settled.actions.append_log_entries
      /\ nd2.actions.broadcast_message \subseteq {AppendEntriesCall(settled, one)}
      /\ DOMAIN nd2.actions.send_messages = {}
      /\ nd2.actions.install_snapshots = {}
  <2> HIDE DEF nd2, last
  <2>1. LET x == BroadcastProposal(settled, last, entry)
             o == [prev |-> last, ents |-> <<entry>>]
         IN  /\ SameState(settled, x)
             /\ Sound(x, C)
             /\ x.actions.append_log_entries = settled.actions.append_log_entries
             /\ x.actions.broadcast_message \subseteq {AppendEntriesCall(settled, o)}
             /\ DOMAIN x.actions.send_messages = {}
             /\ x.actions.install_snapshots = {}
    BY <1>5, <1>7, ProposalTasks
  <2> QED
    BY <1>1, <2>1
<1> HIDE DEF nd2
<1>9. /\ nd2.id = nd.id /\ nd2.role = "Leader" /\ nd2.current_term = nd.current_term
      /\ nd2.log.entries = Push(nd.log.entries, entry)
      /\ nd2.followers = appended.followers
  BY <1>2, <1>3, <1>8 DEF SameState, Committed, SameLeader
<1>10. KeepsTrail(nd, nd2, C)
  <2>1. nd2.actions.append_log_entries = appended.actions.append_log_entries
    BY <1>7, <1>8
  <2> QED
    BY <1>2, <1>9, <2>1 DEF KeepsTrail, Trail
<1>11. MatchKept(nd, nd2)
  BY <1>2, <1>9 DEF MatchKept
<1>12. Recommits(V, nd, nd2)
  <2>1. /\ nd2.commit_index = settled.commit_index /\ nd2.log = settled.log /\ nd2.id = settled.id
        /\ nd2.current_term = settled.current_term /\ nd2.followers = settled.followers
    BY <1>8 DEF SameState
  <2>2. \A v : MatchIndex(nd2, v) = MatchIndex(settled, v)
    BY <2>1 DEF MatchIndex
  <2>3. Commits(V, settled) => Commits(V, nd2)
    <3>1. {v \in V : MatchIndex(nd2, v) >= nd2.commit_index}
            = {v \in V : MatchIndex(settled, v) >= settled.commit_index}
      BY <2>1, <2>2
    <3> QED
      BY <2>1, <3>1 DEF Commits
  <2> QED
    BY <1>2, <1>3, <2>1, <2>3 DEF Recommits, Committed
<1>13. ASSUME NEW m \in nd2.actions.broadcast_message PROVE Cites(nd2, m)
  <2>1. m = AppendEntriesCall(settled, one)
    BY <1>8
  <2>2. /\ m.type = "AppendEntriesCall" /\ m.term = settled.current_term
        /\ m.entries = one /\ m.commit_index = settled.commit_index
    BY <2>1 DEF AppendEntriesCall
  <2>3. settled.current_term = nd2.current_term /\ settled.commit_index = nd2.commit_index
    BY <1>8 DEF SameState
  <2>4. one.prev = last
    OBVIOUS
  <2>5. nd2.commit_index \in Nat
    BY <1>8 DEF Sound
  <2> HIDE DEF one
  <2> QED
    BY <1>5, <1>6, <1>9, <2>2, <2>3, <2>4, <2>5 DEF Cites
<1> QED
  BY <1>8, <1>9, <1>10, <1>11, <1>12, <1>13 DEF Proposed, nd2

-----------------------------------------------------------------------------
(* Elections and heartbeats. *)

\* The node, whose log was that of a, has won an election.
Won(V, a, nd2, C) ==
  /\ Sound(nd2, C)
  /\ nd2.id = a.id
  /\ nd2.role = "Leader"
  /\ LastIndex(a.log.entries) > 0
  /\ nd2.log.entries = Push(a.log.entries, TermEntry(nd2.current_term))
  /\ KeepsTrail(a, nd2, C)
  /\ \A f \in DOMAIN nd2.followers : nd2.followers[f] = 0
  /\ Recommits(V, a, nd2)
  /\ \A m \in nd2.actions.broadcast_message : Cites(nd2, m)
  /\ DOMAIN nd2.actions.send_messages = {}
  /\ nd2.actions.install_snapshots = {}

\* The node, whose log was that of a, asks for votes.
Asks(a, nd2, C) ==
  /\ Sound(nd2, C)
  /\ nd2.id = a.id
  /\ nd2.role = "Candidate"
  /\ nd2.current_term = a.current_term + 1
  /\ nd2.log = a.log
  /\ nd2.commit_index = a.commit_index
  /\ nd2.actions.append_log_entries = a.actions.append_log_entries
  /\ \A m \in nd2.actions.broadcast_message :
       /\ m.type = "RequestVoteCall"
       /\ m.term = nd2.current_term
       /\ m.last_position = LastPosition(nd2.log.entries)
  /\ DOMAIN nd2.actions.send_messages = {}
  /\ nd2.actions.install_snapshots = {}

LEMMA LeaderDeed ==
  ASSUME NEW C, NEW V, Steady(C, V), NEW nd, Sound(nd, C), Stands(nd, C), Silent(nd)
  PROVE  LET nd2 == TransitionToLeader(nd) IN
         Won(V, nd, nd2, C) /\ nd2.current_term = nd.current_term
<1> DEFINE own == nd.voted_for = nd.id
           a == SetRole(nd, "Leader")
           b == RebuildFollowers(a)
           entry == TermEntry(nd.current_term)
           nd2 == TransitionToLeader(nd)
<1>1. nd2 = Propose(b, entry)
  <2>1. DebugAssert(nd, "leader vote", own) = nd
    BY DEF DebugAssert, Stands
  <2>2. nd2 = Propose(RebuildFollowers(SetRole(DebugAssert(nd, "leader vote", own), "Leader")), entry)
    BY DEF TransitionToLeader
  <2> HIDE DEF nd2, entry, own
  <2> QED
    BY <2>1, <2>2
<1>2. entry \in Entry(C)
  BY DEF Sound, IsNode, IsRecord, TermEntry, Entry
<1> HIDE DEF entry, nd2
<1>3. /\ Sound(a, C)
      /\ a.id = nd.id
      /\ a.current_term = nd.current_term
      /\ a.log = nd.log
      /\ a.commit_index = nd.commit_index
      /\ a.role = "Leader"
      /\ a.followers = <<>>
      /\ a.actions = nd.actions
  BY RoleSound
<1> HIDE DEF a
<1>4. Tenure(a, b, C) /\ b.log = a.log /\ b.commit_index = a.commit_index
  BY <1>3, RebuildFollowersTenure
<1>5. SameTasks(a, b) /\ MatchKept(a, b)
  BY <1>3, FieldTasks, RebuildKeepsMatch DEF Sound
<1> HIDE DEF b
<1>6. /\ Sound(b, C) /\ b.role = "Leader" /\ b.id = nd.id /\ b.log = nd.log
      /\ b.commit_index = nd.commit_index /\ b.current_term = nd.current_term
  BY <1>3, <1>4 DEF Tenure, Evolves
<1>7. Silent(b) /\ b.actions.append_log_entries = nd.actions.append_log_entries
  BY <1>3, <1>5 DEF SameTasks, SameQueues, Silent
<1>8. \A f \in DOMAIN b.followers : b.followers[f] = 0
  <2>1. DOMAIN a.followers = {}
    BY <1>3
  <2> QED
    BY <1>5, <2>1 DEF MatchKept
<1>9. Proposed(V, b, nd2, entry, C)
  BY <1>1, <1>2, <1>6, <1>7, ProposeDeed
<1>10. KeepsTrail(nd, nd2, C)
  BY <1>6, <1>7, <1>9 DEF Proposed, KeepsTrail, Trail
<1>11. \A f \in DOMAIN nd2.followers : nd2.followers[f] = 0
  BY <1>8, <1>9 DEF Proposed, MatchKept
<1>12. Recommits(V, nd, nd2)
  BY <1>6, <1>9 DEF Proposed, Recommits
<1>13. nd2.current_term = nd.current_term
  BY <1>6, <1>9 DEF Proposed
<1>14. nd2.log.entries = Push(nd.log.entries, TermEntry(nd2.current_term))
  BY <1>6, <1>9, <1>13 DEF Proposed, entry
<1>15. nd2.id = nd.id
  BY <1>6, <1>9 DEF Proposed
<1>16. LastIndex(nd.log.entries) > 0
  BY DEF Stands
<1> QED
  BY <1>9, <1>10, <1>11, <1>12, <1>13, <1>14, <1>15, <1>16 DEF Proposed, Won, nd2

LEMMA CandidateDeed ==
  ASSUME NEW C, NEW V, Steady(C, V), NEW nd, Sound(nd, C), IsVoter(Config(nd), nd.id), Silent(nd)
  PROVE  LET nd2 == TransitionToCandidate(nd) IN
         Won(V, nd, nd2, C) \/ Asks(nd, nd2, C)
<1> DEFINE voted == SetVotedFor(SetCurrentTerm(nd, nd.current_term + 1), nd.id)
           role == SetRole(voted, "Candidate")
           candidate == [role EXCEPT !.granted_votes = {nd.id}]
           last == LastPosition(nd.log.entries)
           call == RequestVoteCall(candidate, last)
           sent == QueueBroadcast(candidate, call)
           timed == SetElectionTimeout(sent)
           nd2 == TransitionToCandidate(nd)
<1>1. nd2 = IF IsSelfSoloVoter(voted) THEN TransitionToLeader(voted) ELSE timed
  BY DEF TransitionToCandidate
<1>2. /\ Sound(voted, C)
      /\ Stands(voted, C)
      /\ voted.id = nd.id
      /\ voted.current_term = nd.current_term + 1
      /\ voted.log = nd.log
  BY NextTermVote
<1>3. SameTasks(nd, voted) /\ voted.commit_index = nd.commit_index
  <2> DEFINE entered == SetCurrentTerm(nd, nd.current_term + 1)
  <2>1. IsNode(entered) /\ SameTasks(nd, entered) /\ entered.commit_index = nd.commit_index
    <3> DEFINE t == nd.current_term + 1
    <3>1. IsNode(nd)
      BY DEF Sound
    <3>2. t \in Nat /\ nd.current_term <= t
      BY <3>1 DEF IsNode, IsRecord
    <3> HIDE DEF t
    <3>3. IsNode(SetCurrentTerm(nd, t))
      BY <3>1, <3>2, SetCurrentTermEvolves DEF Evolves
    <3>4. SameTasks(nd, SetCurrentTerm(nd, t))
      BY <3>1, <3>2, FieldTasks
    <3>5. SetCurrentTerm(nd, t).commit_index = nd.commit_index
      BY <3>1, CurrentTermFacts
    <3> QED
      BY <3>3, <3>4, <3>5 DEF t
  <2> HIDE DEF entered
  <2>2. SameTasks(entered, SetVotedFor(entered, nd.id))
        /\ SetVotedFor(entered, nd.id).commit_index = entered.commit_index
    BY <2>1, FieldTasks, VotedForFacts
  <2> QED
    BY <2>1, <2>2, SameTasksTransitive DEF entered
<1> HIDE DEF voted, nd2
<1>4. Silent(voted) /\ voted.actions.append_log_entries = nd.actions.append_log_entries
  BY <1>3, SameTasksPlain DEF SameTasks, SameQueues
<1>5. CASE IsSelfSoloVoter(voted)
  <2>1. Won(V, voted, nd2, C)
    BY <1>1, <1>2, <1>4, <1>5, LeaderDeed
  <2>2. KeepsTrail(nd, nd2, C)
    BY <1>2, <1>4, <2>1 DEF Won, KeepsTrail, Trail
  <2>3. Recommits(V, nd, nd2)
    BY <1>3, <2>1 DEF Won, Recommits
  <2>4. Won(V, nd, nd2, C)
    BY <1>2, <2>1, <2>2, <2>3 DEF Won
  <2> QED
    BY <2>4 DEF nd2
<1>6. CASE ~IsSelfSoloVoter(voted)
  <2>1. /\ Sound(role, C)
        /\ role.id = voted.id
        /\ role.current_term = voted.current_term
        /\ role.log = voted.log
        /\ role.commit_index = voted.commit_index
        /\ role.role = "Candidate"
        /\ role.actions = voted.actions
    BY <1>2, RoleSound
  <2> HIDE DEF role
  <2>2. /\ IsNode(candidate)
        /\ candidate.id = role.id
        /\ candidate.current_term = role.current_term
        /\ candidate.actions = role.actions
        /\ candidate.log = role.log
        /\ candidate.commit_index = role.commit_index
        /\ candidate.role = role.role
    BY <2>1 DEF Sound, IsNode, IsRecord
  <2> HIDE DEF candidate
  <2>3. Silent(candidate)
    BY <1>4, <2>1, <2>2 DEF Silent
  <2>4. /\ call.type = "RequestVoteCall"
        /\ call.term = candidate.current_term
        /\ call.last_position = last
    BY DEF RequestVoteCall
  <2>5. Speaks(call, candidate.id, candidate.current_term)
    BY <2>2, NewMessagesSpeak DEF Sound
  <2> HIDE DEF call
  <2>6. LET b == QueueBroadcast(candidate, call) IN
         /\ SameState(candidate, b)
         /\ b.actions.append_log_entries = candidate.actions.append_log_entries
         /\ b.actions.broadcast_message = {call}
         /\ DOMAIN b.actions.send_messages = {}
         /\ b.actions.install_snapshots = {}
    BY <2>2, <2>3, BroadcastTasks
  <2>7. IsNode(sent)
    BY <2>2, <2>5, QueueBroadcastEvolves DEF Evolves
  <2> HIDE DEF sent
  <2>8. SameTasks(sent, timed) /\ SameState(sent, timed)
    BY <2>7, FieldTasks, TimerFacts
  <2> HIDE DEF timed
  <2>9. nd2 = timed
    BY <1>1, <1>6
  <2>10. Sound(nd2, C)
    BY TransitionToCandidateStands DEF nd2, Candidacy, Steady
  <2>11. /\ nd2.id = nd.id /\ nd2.role = "Candidate" /\ nd2.log = nd.log
         /\ nd2.commit_index = nd.commit_index
         /\ nd2.current_term = candidate.current_term
    BY <1>2, <1>3, <2>1, <2>2, <2>6, <2>8, <2>9 DEF SameState, sent
  <2>12. /\ nd2.actions.append_log_entries = nd.actions.append_log_entries
         /\ nd2.actions.broadcast_message = {call}
         /\ DOMAIN nd2.actions.send_messages = {}
         /\ nd2.actions.install_snapshots = {}
    BY <1>4, <2>1, <2>2, <2>6, <2>8, <2>9 DEF SameTasks, SameQueues, sent
  <2>13. nd2.current_term = nd.current_term + 1
    BY <1>2, <2>1, <2>2, <2>11
  <2>14. Asks(nd, nd2, C)
    BY <2>4, <2>10, <2>11, <2>12, <2>13 DEF Asks
  <2> QED
    BY <2>14 DEF nd2
<1> QED
  BY <1>5, <1>6

\* The leader calls without entries.
LEMMA HeartbeatDeed ==
  ASSUME NEW C, NEW nd, Sound(nd, C), nd.role = "Leader", Silent(nd)
  PROVE  LET nd2 == Heartbeat(nd) IN
         /\ Sound(nd2, C)
         /\ SameState(nd, nd2)
         /\ nd2.actions.append_log_entries = nd.actions.append_log_entries
         /\ \A m \in nd2.actions.broadcast_message : Cites(nd2, m)
         /\ DOMAIN nd2.actions.send_messages = {}
         /\ nd2.actions.install_snapshots = {}
<1> DEFINE entries == NewEntries(LastPosition(nd.log.entries))
           call == AppendEntriesCall(nd, entries)
           sent == IF DOMAIN nd.followers = {} THEN nd ELSE QueueBroadcast(nd, call)
           nd2 == Heartbeat(nd)
<1>1. nd2 = SetElectionTimeout(sent)
  BY DEF Heartbeat
<1>2. Sound(nd2, C)
  BY HeartbeatTenure DEF Tenure
<1>3. nd.log.entries \in Entries(C) /\ entries \in Entries(C) /\ PartOf(entries, nd.log.entries)
      /\ entries.prev.index = LastIndex(nd.log.entries)
  BY SoundLog, LastPositionTyped, NewEntriesTyped, NothingIsPart DEF NewEntries
<1>4. /\ call.type = "AppendEntriesCall" /\ call.term = nd.current_term
      /\ call.entries = entries /\ call.commit_index = nd.commit_index
  BY DEF AppendEntriesCall
<1>5. Speaks(call, nd.id, nd.current_term)
  BY <1>3, NewCallTyped
<1> HIDE DEF call, entries
<1>6. /\ IsNode(sent)
      /\ SameState(nd, sent)
      /\ sent.actions.append_log_entries = nd.actions.append_log_entries
      /\ sent.actions.broadcast_message \subseteq {call}
      /\ DOMAIN sent.actions.send_messages = {}
      /\ sent.actions.install_snapshots = {}
  <2>1. CASE DOMAIN nd.followers = {}
    BY <2>1 DEF Sound, SameState, Silent
  <2>2. CASE DOMAIN nd.followers # {}
    <3>1. sent = QueueBroadcast(nd, call)
      BY <2>2
    <3> HIDE DEF sent
    <3>2. IsNode(sent)
      BY <1>5, <3>1, QueueBroadcastEvolves DEF Sound, Evolves
    <3>3. LET b == QueueBroadcast(nd, call) IN
         /\ SameState(nd, b)
         /\ b.actions.append_log_entries = nd.actions.append_log_entries
         /\ b.actions.broadcast_message = {call}
         /\ DOMAIN b.actions.send_messages = {}
         /\ b.actions.install_snapshots = {}
      BY BroadcastTasks DEF Sound
    <3> QED
      BY <3>1, <3>2, <3>3
  <2> QED
    BY <2>1, <2>2
<1> HIDE DEF sent
<1>7. SameTasks(sent, nd2) /\ SameState(sent, nd2)
  BY <1>1, <1>6, FieldTasks, TimerFacts
<1> HIDE DEF nd2
<1>8. SameState(nd, nd2) /\ nd2.actions.broadcast_message \subseteq {call}
  BY <1>6, <1>7 DEF SameState, SameTasks, SameQueues
<1>9. Cites(nd2, call)
  <2>1. nd.commit_index \in Nat
    BY DEF Sound
  <2>2. nd.log.entries.prev.index <= LastIndex(nd.log.entries)
    BY <1>3, EntriesFacts
  <2> QED
    BY <1>3, <1>4, <1>8, <2>1, <2>2 DEF Cites, SameState
<1> QED
  BY <1>2, <1>6, <1>7, <1>8, <1>9 DEF SameTasks, SameQueues, nd2

-----------------------------------------------------------------------------
(* What a call does to the log, to the commit index, to the match indices  *)
(* and to the links.  H are the messages that it hands over.               *)

OfLeader(nd, m) == m.type = "AppendEntriesCall" /\ m.term = nd.current_term

\* The log is what it was, or the founding log, with an entry of a leader's or without.
Grown(V, nd, nd2, C) ==
  \E a \in Entries(C) :
    /\ \/ a = nd.log.entries
       \/ /\ V \in Creations
          /\ a = FoundingLog(V)
          /\ nd.log.entries = NewEntries(ZERO)
          /\ nd2.role = "Candidate" => nd2.current_term > nd.current_term
    /\ Trail(nd.log.entries, nd2)
    /\ \/ nd2.log.entries = a
       \/ /\ nd2.role = "Leader"
          /\ LastIndex(a) > 0
          /\ \E e \in Entry(C) : e.term = nd2.current_term /\ nd2.log.entries = Push(a, e)

\* A call's entries show that the log is not the leader's.
Cut(nd, nd2, es) ==
  LET local == nd.log.entries IN
  /\ local.prev.index < es.prev.index
  /\ ContainsIndex(local, es.prev.index)
  /\ ~Contains(local, es.prev)
  /\ nd2.log.entries = Truncate(local, es.prev.index - local.prev.index - 1)
  /\ nd2.actions.append_log_entries = {}
  /\ nd2.commit_index = nd.commit_index

\* A call's entries are appended.
Taken(nd, nd2, es, C) ==
  LET local == nd.log.entries IN
  /\ Contains(local, es.prev)
  /\ ~Contains(local, LastPosition(es))
  /\ \E w \in Entries(C) :
       /\ nd2.actions.append_log_entries = {w}
       /\ PartOf(w, es)
       /\ es.prev.index <= w.prev.index
       /\ Contains(local, w.prev)
       /\ LastPosition(w) = LastPosition(es)
       /\ nd2.log.entries = AppendUnchecked(local, w)

Writing(V, nd, nd2, H, C) ==
  \/ Grown(V, nd, nd2, C)
  \/ /\ nd2.role = "Follower"
     /\ \E m \in H : OfLeader(nd2, m) /\ (Cut(nd, nd2, m.entries) \/ Taken(nd, nd2, m.entries, C))

\* A commit index that a leader's call allows.
Hears(nd, nd2, m) ==
  /\ OfLeader(nd2, m)
  /\ LastPosition(nd2.log.entries) = LastPosition(m.entries)
  /\ nd2.commit_index = Min({m.commit_index, LastIndex(nd2.log.entries)})

Committing(V, nd, nd2, H) ==
  \/ nd2.commit_index = nd.commit_index
  \/ /\ nd2.commit_index > nd.commit_index
     /\ \/ nd2.role = "Leader" /\ Commits(V, nd2)
        \/ nd2.role = "Follower" /\ \E m \in H : Hears(nd, nd2, m)

Counting(nd, nd2, H) ==
  nd2.role = "Leader" =>
    \A f \in DOMAIN nd2.followers :
      \/ nd2.followers[f] = 0
      \/ /\ nd.role = "Leader"
         /\ nd.current_term = nd2.current_term
         /\ f \in DOMAIN nd.followers
         /\ nd2.followers[f] = nd.followers[f]
      \/ \E m \in H :
           /\ m.type = "AppendEntriesReply"
           /\ m.from = f
           /\ m.term = nd2.current_term
           /\ Contains(nd2.log.entries, m.last_position)
           /\ nd2.followers[f] = m.last_position.index

\* What the node says of its log.
Honest(nd, m) ==
  /\ m.type = "RequestVoteCall" =>
       /\ nd.role = "Candidate"
       /\ m.term = nd.current_term
       /\ m.last_position = LastPosition(nd.log.entries)
  /\ m.type = "AppendEntriesReply" =>
       /\ m.term = nd.current_term
       /\ m.last_position = LastPosition(nd.log.entries)
  /\ m.type = "AppendEntriesCall" => nd.role = "Leader" /\ Cites(nd, m)

\* A vote goes to a candidate whose log is not behind.
Grants(nd, m, dest, H) ==
  m.type = "RequestVoteReply" /\ m.vote_granted =>
    /\ m.term = nd.current_term
    /\ \E h \in H :
         /\ h.type = "RequestVoteCall"
         /\ h.from = dest
         /\ h.term = nd.current_term
         /\ ~PosLess(h.last_position, LastPosition(nd.log.entries))

Speaking(nd2, H) ==
  /\ \A m \in nd2.actions.broadcast_message : IsCall(m) /\ Honest(nd2, m)
  /\ \A d \in DOMAIN nd2.actions.send_messages :
       LET m == nd2.actions.send_messages[d] IN Honest(nd2, m) /\ Grants(nd2, m, d, H)
  /\ \A f \in nd2.actions.install_snapshots :
       /\ nd2.role = "Leader"
       /\ \E m \in H : m.type = "AppendEntriesReply" /\ m.from = f /\ m.term = nd2.current_term

Deed(V, nd, nd2, H, C) ==
  /\ Writing(V, nd, nd2, H, C)
  /\ Committing(V, nd, nd2, H)
  /\ Counting(nd, nd2, H)
  /\ Speaking(nd2, H)

\* What is left of a leader's entries goes on to their end.
LEMMA StripEnds ==
  ASSUME NEW C, NEW es \in Entries(C), NEW local \in Entries(C),
         ~Contains(local, LastPosition(es)), Contains(local, es.prev),
         \A e \in Edges(es) : TermsStep(e)
  PROVE  LET d == StripCommonPrefix(es, local) IN
         /\ d \in Entries(C)
         /\ Contains(local, d.prev)
         /\ PartOf(d, es)
         /\ es.prev.index <= d.prev.index
         /\ LastPosition(d) = LastPosition(es)
<1> DEFINE d == StripCommonPrefix(es, local)
<1>1. /\ d \in Entries(C) /\ d.ents # <<>> /\ LastIndex(d) = LastIndex(es)
      /\ Contains(local, d.prev)
      /\ Edges(d) \subseteq Edges(es)
  BY StripTyped
<1> HIDE DEF d
<1>2. /\ d.prev.index \in Nat /\ LastIndex(d) \in Nat /\ d.prev.index < LastIndex(d)
      /\ es.prev.index \in Nat
  BY <1>1, EntriesFacts
<1>3. ASSUME NEW i \in d.prev.index + 1 .. LastIndex(d)
      PROVE  /\ EntryAt(d, i) = EntryAt(es, i)
             /\ TermAt(d, i) = TermAt(es, i)
             /\ TermAt(d, i - 1) = TermAt(es, i - 1)
             /\ es.prev.index < i
  <2>1. Edge(d, i) \in Edges(d)
    BY EdgeIn
  <2>2. Edge(d, i) \in Edges(es)
    BY <1>1, <2>1
  <2>3. /\ Edge(d, i).index = i
        /\ Edge(d, i).entry = EntryAt(d, i) /\ Edge(d, i).before = TermAt(d, i - 1)
        /\ Edge(d, i).entry.term = TermAt(d, i)
    <3>1. Edge(d, i).index = i
      BY DEF Edge
    <3> QED
      BY <1>1, <2>1, <3>1, EdgesFacts
  <2>4. /\ Edge(d, i).entry = EntryAt(es, i) /\ Edge(d, i).before = TermAt(es, i - 1)
        /\ Edge(d, i).entry.term = TermAt(es, i) /\ es.prev.index < i
    BY <2>2, <2>3, EdgesFacts
  <2> QED
    BY <2>3, <2>4
<1>4. /\ EntryAt(d, LastIndex(d)) = EntryAt(es, LastIndex(d))
      /\ TermAt(d, LastIndex(d)) = TermAt(es, LastIndex(d))
  <2>1. LastIndex(d) \in d.prev.index + 1 .. LastIndex(d)
    BY <1>2
  <2> QED
    BY <1>3, <2>1
<1>5. LastPosition(d) = LastPosition(es)
  BY <1>1, <1>4 DEF LastPosition
<1>6. TermAt(es, d.prev.index) = d.prev.term /\ es.prev.index <= d.prev.index
  <2> DEFINE i == d.prev.index + 1
  <2>1. i \in d.prev.index + 1 .. LastIndex(d) /\ i - 1 = d.prev.index
    BY <1>2
  <2>2. TermAt(d, i - 1) = TermAt(es, i - 1) /\ es.prev.index < i
    BY <1>3, <2>1
  <2>3. TermAt(d, d.prev.index) = d.prev.term
    BY DEF TermAt
  <2>4. es.prev.index <= d.prev.index
    BY <1>2, <2>2
  <2> HIDE DEF i
  <2> QED
    BY <2>1, <2>2, <2>3, <2>4
<1>7. PartOf(d, es)
  BY <1>1, <1>2, <1>3, <1>6 DEF PartOf
<1> QED
  BY <1>1, <1>5, <1>6, <1>7 DEF d

-----------------------------------------------------------------------------
(* The kinds of calls. *)

LEMMA QuietDeed ==
  ASSUME NEW C, NEW V, NEW nd, Sound(nd, C), NEW nd2, NEW H,
         nd2.log.entries = nd.log.entries, nd2.commit_index = nd.commit_index,
         nd2.actions.append_log_entries = {}, Counting(nd, nd2, H), Speaking(nd2, H)
  PROVE  Deed(V, nd, nd2, H, C)
<1>1. Trail(nd.log.entries, nd2)
  BY DEF Trail
<1>2. nd.log.entries \in Entries(C)
  BY SoundLog
<1>3. Grown(V, nd, nd2, C)
  BY <1>1, <1>2 DEF Grown
<1> QED
  BY <1>3 DEF Deed, Writing, Committing

\* Nothing is sent.
LEMMA SilentSpeaks ==
  ASSUME NEW nd2, Silent(nd2), NEW H
  PROVE  Speaking(nd2, H)
BY DEF Silent, Speaking

\* The log from which an election goes on.
Base(V, nd, a) ==
  /\ \/ a.log.entries = nd.log.entries
     \/ /\ V \in Creations
        /\ a.log.entries = FoundingLog(V)
        /\ nd.log.entries = NewEntries(ZERO)
  /\ nd.log.entries.prev = a.log.entries.prev
  /\ a.commit_index = nd.commit_index
  /\ Trail(nd.log.entries, a)

LEMMA CitesHonest ==
  ASSUME NEW nd2, nd2.role = "Leader", NEW H,
         \A m \in nd2.actions.broadcast_message : Cites(nd2, m),
         DOMAIN nd2.actions.send_messages = {},
         nd2.actions.install_snapshots = {}
  PROVE  Speaking(nd2, H)
BY DEF Speaking, Cites, Honest, IsCall

LEMMA WonDeed ==
  ASSUME NEW C, NEW V, NEW nd, Sound(nd, C), NEW a, Sound(a, C), Base(V, nd, a),
         NEW nd2, Won(V, a, nd2, C), NEW H
  PROVE  Deed(V, nd, nd2, H, C)
<1>1. nd.log.entries \in Entries(C) /\ a.log.entries \in Entries(C)
  BY SoundLog
<1>2. Trail(nd.log.entries, nd2)
  BY <1>1 DEF Base, Won, KeepsTrail
<1>3. TermEntry(nd2.current_term) \in Entry(C)
      /\ TermEntry(nd2.current_term).term = nd2.current_term
  BY DEF Won, Sound, IsNode, IsRecord, TermEntry, Entry
<1>4. Grown(V, nd, nd2, C)
  BY <1>1, <1>2, <1>3 DEF Grown, Base, Won
<1>5. Committing(V, nd, nd2, H)
  BY DEF Committing, Won, Recommits, Base
<1>6. Counting(nd, nd2, H)
  BY DEF Counting, Won
<1>7. Speaking(nd2, H)
  BY CitesHonest DEF Won
<1> QED
  BY <1>4, <1>5, <1>6, <1>7 DEF Deed, Writing

LEMMA AsksDeed ==
  ASSUME NEW C, NEW V, NEW nd, Sound(nd, C), NEW a, Sound(a, C), Base(V, nd, a),
         NEW nd2, Asks(a, nd2, C), nd2.current_term > nd.current_term, NEW H
  PROVE  Deed(V, nd, nd2, H, C)
<1>1. nd.log.entries \in Entries(C) /\ a.log.entries \in Entries(C)
  BY SoundLog
<1>2. Trail(nd.log.entries, nd2)
  BY DEF Base, Asks, Trail
<1>4. Grown(V, nd, nd2, C)
  BY <1>1, <1>2 DEF Grown, Base, Asks
<1>5. Committing(V, nd, nd2, H)
  BY DEF Committing, Asks, Base
<1>6. Counting(nd, nd2, H)
  BY DEF Counting, Asks
<1>7. Speaking(nd2, H)
  BY DEF Asks, Speaking, Honest, IsCall
<1> QED
  BY <1>4, <1>5, <1>6, <1>7 DEF Deed, Writing

\* The leader sends a heartbeat or proposes.
LEMMA HeartbeatCallDeed ==
  ASSUME NEW C, NEW V, NEW nd, Sound(nd, C), nd.role = "Leader", Plain(nd), NEW H
  PROVE  Deed(V, nd, Heartbeat(nd), H, C)
<1> DEFINE nd2 == Heartbeat(nd)
<1>1. /\ Sound(nd2, C)
      /\ SameState(nd, nd2)
      /\ nd2.actions.append_log_entries = nd.actions.append_log_entries
      /\ \A m \in nd2.actions.broadcast_message : Cites(nd2, m)
      /\ DOMAIN nd2.actions.send_messages = {}
      /\ nd2.actions.install_snapshots = {}
  BY HeartbeatDeed DEF Plain
<1> HIDE DEF nd2
<1>2. Counting(nd, nd2, H)
  BY <1>1 DEF Counting, SameState
<1>3. Speaking(nd2, H)
  BY <1>1, CitesHonest DEF SameState
<1> QED
  BY <1>1, <1>2, <1>3, QuietDeed DEF SameState, Plain, nd2

LEMMA ProposeCallDeed ==
  ASSUME NEW C, NEW V, Steady(C, V), NEW nd, Sound(nd, C), nd.role = "Leader", Plain(nd),
         NEW entry \in Entry(C), entry.term = nd.current_term, NEW H
  PROVE  Deed(V, nd, Propose(nd, entry), H, C)
<1> DEFINE nd2 == Propose(nd, entry)
<1>1. Proposed(V, nd, nd2, entry, C)
  BY ProposeDeed DEF Plain
<1> HIDE DEF nd2
<1>2. nd.log.entries \in Entries(C) /\ LastIndex(nd.log.entries) > 0
  BY SoundLog DEF Sound, Stands
<1>3. Trail(nd.log.entries, nd)
  BY DEF Trail, Plain
<1>4. Trail(nd.log.entries, nd2)
  BY <1>1, <1>2, <1>3 DEF Proposed, KeepsTrail
<1>5. Grown(V, nd, nd2, C)
  BY <1>1, <1>2, <1>4 DEF Grown, Proposed
<1>6. Counting(nd, nd2, H)
  BY <1>1 DEF Counting, Proposed, MatchKept
<1>7. Speaking(nd2, H)
  BY <1>1, CitesHonest DEF Proposed
<1>8. Committing(V, nd, nd2, H)
  BY <1>1 DEF Committing, Proposed, Recommits
<1> QED
  BY <1>5, <1>6, <1>7, <1>8 DEF Deed, Writing, nd2

\* A voter starts an election.
LEMMA ElectionCallDeed ==
  ASSUME NEW C, NEW V, Steady(C, V), NEW nd, Sound(nd, C), NEW a, Sound(a, C), Base(V, nd, a),
         IsVoter(Config(a), a.id), Silent(a), a.current_term = nd.current_term, NEW H
  PROVE  Deed(V, nd, TransitionToCandidate(a), H, C)
<1>1. Won(V, a, TransitionToCandidate(a), C) \/ Asks(a, TransitionToCandidate(a), C)
  BY CandidateDeed
<1>2. nd.current_term \in Nat
  BY DEF Sound, IsNode, IsRecord
<1>3. Asks(a, TransitionToCandidate(a), C) => TransitionToCandidate(a).current_term > nd.current_term
  BY <1>2 DEF Asks
<1> QED
  BY <1>1, <1>3, WonDeed, AsksDeed

-----------------------------------------------------------------------------
(* Messages. *)

\* One message is sent.
LEMMA SentSpeaks ==
  ASSUME NEW nd2, NEW H, NEW dest, NEW m,
         nd2.actions.broadcast_message = {},
         DOMAIN nd2.actions.send_messages = {dest},
         nd2.actions.send_messages[dest] = m,
         nd2.actions.install_snapshots = {},
         Honest(nd2, m), Grants(nd2, m, dest, H)
  PROVE  Speaking(nd2, H)
BY DEF Speaking

LEMMA RequestVoteCallDeed ==
  ASSUME NEW C, NEW V, NEW nd, Sound(nd, C), Plain(nd), NEW m, m.type = "RequestVoteCall",
         m.term \in Nat, m.term <= nd.current_term
  PROVE  Deed(V, nd, HandleRequestVoteCall(nd, m), {m}, C)
<1> DEFINE voted == IF nd.voted_for = Nil THEN SetVotedFor(nd, m.from) ELSE nd
           no == RequestVoteReply(nd, FALSE)
           yes == RequestVoteReply(nd, TRUE)
           refused == QueueSend(nd, m.from, no)
           reply == QueueSend(voted, m.from, yes)
           follows == nd.role = "Follower"
           asserted == DebugAssert(reply, "voter is follower", follows)
           timed == SetElectionTimeout(asserted)
           nd2 == HandleRequestVoteCall(nd, m)
<1>1. nd2 = IF m.term < nd.current_term THEN refused
            ELSE IF PosLess(m.last_position, LastPosition(nd.log.entries)) THEN nd
            ELSE IF voted.voted_for # m.from THEN voted
            ELSE timed
  BY DEF HandleRequestVoteCall
<1>2. IsNode(nd) /\ nd.current_term \in Nat
  BY DEF Sound, IsNode, IsRecord
<1>3. /\ ~no.vote_granted /\ no.type = "RequestVoteReply"
      /\ yes.type = "RequestVoteReply" /\ yes.term = nd.current_term
  BY DEF RequestVoteReply
<1>4. Speaks(yes, nd.id, nd.current_term)
  BY <1>2, NewMessagesSpeak
<1> HIDE DEF no, yes, nd2
<1>5. Deed(V, nd, refused, {m}, C)
  <2>1. /\ SameState(nd, refused)
        /\ refused.actions.append_log_entries = {}
        /\ refused.actions.broadcast_message = {}
        /\ DOMAIN refused.actions.send_messages = {m.from}
        /\ refused.actions.send_messages[m.from] = no
        /\ refused.actions.install_snapshots = {}
    BY <1>2, SendTasks DEF Plain
  <2> HIDE DEF refused
  <2>2. Speaking(refused, {m})
    BY <1>3, <2>1, SentSpeaks DEF Honest, Grants
  <2>3. Counting(nd, refused, {m})
    BY <2>1 DEF Counting, SameState
  <2> QED
    BY <2>1, <2>2, <2>3, QuietDeed DEF SameState
<1>6. Deed(V, nd, nd, {m}, C)
  BY QuietDeed, SilentSpeaks DEF Plain, Counting
<1>7. /\ IsNode(voted)
      /\ voted.current_term = nd.current_term
      /\ voted.log = nd.log
      /\ voted.commit_index = nd.commit_index
      /\ voted.role = nd.role
      /\ voted.followers = nd.followers
      /\ voted.id = nd.id
      /\ SameTasks(nd, voted)
  <2>1. CASE nd.voted_for = Nil
    <3> DEFINE v == SetVotedFor(nd, m.from)
    <3>1. voted = v
      BY <2>1
    <3>2. IsNode(v)
      BY <1>2, SetVotedForEvolves DEF Evolves
    <3>3. SameTasks(nd, v)
      BY <1>2, FieldTasks
    <3>4. /\ v.current_term = nd.current_term
          /\ v.log = nd.log
          /\ v.commit_index = nd.commit_index
          /\ v.role = nd.role
          /\ v.followers = nd.followers
          /\ v.id = nd.id
      BY <1>2, VotedForFacts
    <3> HIDE DEF v, voted
    <3> QED
      BY <3>1, <3>2, <3>3, <3>4
  <2>2. CASE nd.voted_for # Nil
    <3>1. voted = nd
      BY <2>2
    <3> QED
      BY <1>2, <3>1 DEF SameTasks, SameQueues
  <2> QED
    BY <2>1, <2>2
<1> HIDE DEF voted, refused
<1>8. Plain(voted)
  BY <1>7, SameTasksPlain
<1>9. Deed(V, nd, voted, {m}, C)
  <2>1. Counting(nd, voted, {m})
    BY <1>7 DEF Counting
  <2> QED
    BY <1>7, <1>8, <2>1, QuietDeed, SilentSpeaks DEF Plain
<1>10. CASE ~(m.term < nd.current_term)
            /\ ~PosLess(m.last_position, LastPosition(nd.log.entries))
  <2>1. m.term = nd.current_term
    BY <1>2, <1>10
  <2>2. /\ SameState(voted, reply)
        /\ reply.actions.append_log_entries = {}
        /\ reply.actions.broadcast_message = {}
        /\ DOMAIN reply.actions.send_messages = {m.from}
        /\ reply.actions.send_messages[m.from] = yes
        /\ reply.actions.install_snapshots = {}
    BY <1>7, <1>8, SendTasks DEF Plain
  <2>3. IsNode(reply)
    BY <1>4, <1>7, QueueSendEvolves DEF Evolves
  <2> HIDE DEF reply
  <2>4. IsNode(asserted) /\ SameTasks(reply, asserted) /\ SameState(reply, asserted)
    <3>1. follows \in BOOLEAN
      OBVIOUS
    <3> HIDE DEF follows
    <3> QED
      BY <2>3, <3>1, AssertTasks, DebugAssertEvolves DEF Evolves
  <2> HIDE DEF asserted
  <2>5. SameTasks(asserted, timed) /\ SameState(asserted, timed)
    BY <2>4, FieldTasks, TimerFacts
  <2> HIDE DEF timed
  <2>6. /\ timed.current_term = nd.current_term
        /\ timed.log = nd.log
        /\ timed.commit_index = nd.commit_index
        /\ timed.role = nd.role
        /\ timed.followers = nd.followers
    BY <1>7, <2>2, <2>4, <2>5 DEF SameState
  <2>7. /\ timed.actions.append_log_entries = {}
        /\ timed.actions.broadcast_message = {}
        /\ DOMAIN timed.actions.send_messages = {m.from}
        /\ timed.actions.send_messages[m.from] = yes
        /\ timed.actions.install_snapshots = {}
    BY <2>2, <2>4, <2>5 DEF SameTasks, SameQueues
  <2>8. Honest(timed, yes) /\ Grants(timed, yes, m.from, {m})
    BY <1>3, <1>10, <2>1, <2>6 DEF Honest, Grants
  <2>9. Speaking(timed, {m})
    BY <2>7, <2>8, SentSpeaks
  <2>10. Counting(nd, timed, {m})
    BY <2>6 DEF Counting
  <2>11. Deed(V, nd, timed, {m}, C)
    BY <2>6, <2>7, <2>9, <2>10, QuietDeed
  <2> QED
    BY <1>1, <1>9, <1>10, <2>11 DEF nd2
<1>11. CASE m.term < nd.current_term \/ PosLess(m.last_position, LastPosition(nd.log.entries))
  <2> HIDE DEF reply, asserted, timed
  <2> QED
    BY <1>1, <1>5, <1>6, <1>11 DEF nd2
<1> QED
  BY <1>10, <1>11

LEMMA RequestVoteReplyDeed ==
  ASSUME NEW C, NEW V, Steady(C, V), NEW nd, Sound(nd, C), Plain(nd), NEW m
  PROVE  Deed(V, nd, HandleRequestVoteReply(nd, m), {m}, C)
<1> DEFINE votes == nd.granted_votes \cup {m.from}
           voted == [nd EXCEPT !.granted_votes = votes]
           nd2 == HandleRequestVoteReply(nd, m)
<1>1. nd2 = IF ~CountsVote(nd, m) THEN nd
            ELSE IF Wins(voted.granted_votes, Config(nd)) THEN TransitionToLeader(voted)
            ELSE voted
  BY DEF HandleRequestVoteReply
<1>2. IsNode(nd)
  BY DEF Sound
<1> HIDE DEF votes, nd2
<1>3. Deed(V, nd, nd, {m}, C)
  BY QuietDeed, SilentSpeaks DEF Plain, Counting
<1>4. CASE CountsVote(nd, m)
  <2>1. /\ Alike(nd, voted)
        /\ voted.log = nd.log
        /\ voted.commit_index = nd.commit_index
        /\ voted.role = nd.role
        /\ voted.followers = nd.followers
        /\ voted.broken = nd.broken
        /\ SameTasks(nd, voted)
    BY <1>2, FieldTasks DEF IsNode, IsRecord, Alike
  <2> HIDE DEF voted
  <2>2. Evolves(nd, voted)
    BY <1>2, <2>1, AlikeEvolves
  <2>3. Sound(voted, C) /\ Stands(voted, C)
    BY <1>4, <2>1, <2>2 DEF Sound, Stands, Evolves, Alike, CountsVote
  <2>4. Plain(voted)
    BY <2>1, SameTasksPlain
  <2>5. Deed(V, nd, voted, {m}, C)
    <3>1. Counting(nd, voted, {m})
      BY <2>1 DEF Counting, Alike
    <3> QED
      BY <2>1, <2>4, <3>1, QuietDeed, SilentSpeaks DEF Plain
  <2>6. Deed(V, nd, TransitionToLeader(voted), {m}, C)
    <3>1. Won(V, voted, TransitionToLeader(voted), C)
      BY <2>3, <2>4, LeaderDeed DEF Plain
    <3>2. Base(V, nd, voted)
      BY <2>1, <2>4 DEF Base, Trail, Plain
    <3> QED
      BY <2>3, <3>1, <3>2, WonDeed
  <2> QED
    BY <1>1, <1>4, <2>5, <2>6 DEF nd2
<1> QED
  BY <1>1, <1>3, <1>4 DEF nd2

\* The leader sends a call that cites its log.
LEMMA CallDeed ==
  ASSUME NEW C, NEW nd, Sound(nd, C), nd.role = "Leader", Plain(nd), NEW dest,
         NEW entries, PartOf(entries, nd.log.entries),
         nd.log.entries.prev.index <= entries.prev.index, NEW H
  PROVE  LET nd2 == QueueSend(nd, dest, AppendEntriesCall(nd, entries)) IN
         /\ SameState(nd, nd2)
         /\ nd2.actions.append_log_entries = {}
         /\ Speaking(nd2, H)
<1> DEFINE m == AppendEntriesCall(nd, entries)
           nd2 == QueueSend(nd, dest, m)
<1>1. /\ m.type = "AppendEntriesCall" /\ m.term = nd.current_term
      /\ m.entries = entries /\ m.commit_index = nd.commit_index
  BY DEF AppendEntriesCall
<1> HIDE DEF m
<1>2. IsNode(nd) /\ nd.commit_index \in Nat
  BY DEF Sound
<1>3. /\ SameState(nd, nd2)
      /\ nd2.actions.append_log_entries = {}
      /\ nd2.actions.broadcast_message = {}
      /\ DOMAIN nd2.actions.send_messages = {dest}
      /\ nd2.actions.send_messages[dest] = m
      /\ nd2.actions.install_snapshots = {}
  BY <1>2, SendTasks DEF Plain
<1> HIDE DEF nd2
<1>4. Cites(nd2, m)
  BY <1>1, <1>2, <1>3 DEF Cites, SameState
<1>5. Honest(nd2, m) /\ Grants(nd2, m, dest, H)
  BY <1>1, <1>3, <1>4 DEF Honest, Grants, SameState
<1>6. Speaking(nd2, H)
  BY <1>3, <1>5, SentSpeaks
<1> QED
  BY <1>3, <1>6 DEF m, nd2

LEMMA RepairFollowerDeed ==
  ASSUME NEW C, NEW V, NEW nd, Sound(nd, C), nd.role = "Leader", Plain(nd), NEW m,
         m.type = "AppendEntriesReply", m.term = nd.current_term, m.last_position \in Position
  PROVE  Deed(V, nd, RepairFollower(nd, m.from, m.last_position), {m}, C)
<1> DEFINE es == nd.log.entries
           p == m.last_position
           at == Pos(TermAt(es, p.index), p.index)
           entries == NewEntries(at)
           probe == QueueSend(nd, m.from, AppendEntriesCall(nd, entries))
           transfer == QueueInstallSnapshot(nd, m.from)
<1>1. RepairFollower(nd, m.from, p) = IF ContainsIndex(es, p.index) THEN probe
                                      ELSE IF LastIndex(es) < p.index THEN nd
                                      ELSE transfer
  BY DEF RepairFollower
<1>2. IsNode(nd) /\ es \in Entries(C)
  BY SoundLog DEF Sound
<1>3. Deed(V, nd, nd, {m}, C)
  BY QuietDeed, SilentSpeaks DEF Plain, Counting
<1>4. Deed(V, nd, transfer, {m}, C)
  <2>1. /\ SameState(nd, transfer)
        /\ SameQueues(nd, transfer)
        /\ transfer.actions.install_snapshots = {m.from}
    BY <1>2, InstallTasks DEF Plain
  <2> HIDE DEF transfer
  <2>2. Speaking(transfer, {m})
    BY <2>1 DEF Speaking, Plain, Silent, SameQueues, SameState
  <2>3. Counting(nd, transfer, {m})
    BY <2>1 DEF Counting, SameState
  <2> QED
    BY <2>1, <2>2, <2>3, QuietDeed DEF SameState, SameQueues, Plain
<1>5. CASE ContainsIndex(es, p.index)
  <2>1. Contains(es, at) /\ at.index = p.index /\ es.prev.index <= p.index
    BY <1>2, <1>5, TermAtTyped DEF Contains, Pos
  <2>2. PartOf(entries, es) /\ entries.prev = at
    BY <1>2, <2>1, NothingIsPart DEF NewEntries
  <2> HIDE DEF entries, at
  <2>3. /\ SameState(nd, probe)
        /\ probe.actions.append_log_entries = {}
        /\ Speaking(probe, {m})
    BY <2>1, <2>2, CallDeed
  <2> HIDE DEF probe
  <2>4. Counting(nd, probe, {m})
    BY <2>3 DEF Counting, SameState
  <2>5. Deed(V, nd, probe, {m}, C)
    BY <2>3, <2>4, QuietDeed DEF SameState
  <2> QED
    BY <1>1, <1>5, <2>5
<1>6. CASE ~ContainsIndex(es, p.index)
  <2> HIDE DEF probe, transfer
  <2> QED
    BY <1>1, <1>3, <1>4, <1>6
<1> QED
  BY <1>5, <1>6

LEMMA AppendEntriesReplyDeed ==
  ASSUME NEW C, NEW V, Steady(C, V), NEW nd, Sound(nd, C), Plain(nd), NEW m,
         m.type = "AppendEntriesReply", m.last_position \in Position
  PROVE  Deed(V, nd, HandleAppendEntriesReply(nd, m), {m}, C)
<1> DEFINE p == m.last_position
           es == nd.log.entries
           matched == [nd EXCEPT !.followers[m.from] = p.index]
           raised == UpdateCommitIndexIfPossible(matched)
           advanced == IF nd.followers[m.from] = p.index THEN nd
                       ELSE IF nd.commit_index < p.index THEN raised
                       ELSE matched
           entries == Since(advanced.log.entries, p)
           call == AppendEntriesCall(advanced, entries)
           sent == QueueSend(advanced, m.from, call)
           repaired == RepairFollower(nd, m.from, p)
           nd2 == HandleAppendEntriesReply(nd, m)
<1>1. nd2 = IF ~CountsReply(nd, m) THEN nd
            ELSE IF ~Contains(es, p) THEN repaired
            ELSE IF p.index = LastIndex(es) THEN advanced
            ELSE sent
  BY DEF HandleAppendEntriesReply
<1> HIDE DEF nd2
<1>2. es \in Entries(C) /\ IsNode(nd) /\ nd.commit_index \in Nat
  BY SoundLog DEF Sound
<1>3. Deed(V, nd, nd, {m}, C)
  BY QuietDeed, SilentSpeaks DEF Plain, Counting
<1>4. CASE CountsReply(nd, m) /\ ~Contains(es, p)
  <2>1. Deed(V, nd, repaired, {m}, C)
    BY <1>4, RepairFollowerDeed DEF CountsReply
  <2> HIDE DEF repaired
  <2> QED
    BY <1>1, <1>4, <2>1 DEF nd2
<1>5. CASE CountsReply(nd, m) /\ Contains(es, p)
  <2>0. /\ nd.role = "Leader" /\ m.from \in DOMAIN nd.followers /\ m.term = nd.current_term
        /\ p.index \in Nat /\ p.index >= nd.followers[m.from]
    BY <1>5 DEF CountsReply, Position
  <2>1. /\ Tenure(nd, matched, C)
        /\ matched.log = nd.log
        /\ DOMAIN matched.followers = DOMAIN nd.followers
    BY <2>0, MatchedTenure
  <2>2. /\ SameTasks(nd, matched)
        /\ matched.commit_index = nd.commit_index
        /\ \A f \in DOMAIN nd.followers :
             matched.followers[f] = IF f = m.from THEN p.index ELSE nd.followers[f]
    <3> DEFINE followers == [nd.followers EXCEPT ![m.from] = p.index]
    <3>1. matched = [nd EXCEPT !.followers = followers]
      OBVIOUS
    <3>2. \A f \in DOMAIN nd.followers :
            followers[f] = IF f = m.from THEN p.index ELSE nd.followers[f]
      OBVIOUS
    <3>3. SameTasks(nd, [nd EXCEPT !.followers = followers])
      BY <1>2, FieldTasks
    <3> HIDE DEF followers
    <3> QED
      BY <1>2, <3>1, <3>2, <3>3 DEF IsNode, IsRecord
  <2> HIDE DEF matched
  <2>3. /\ Sound(matched, C) /\ matched.role = "Leader" /\ matched.id = nd.id
        /\ matched.current_term = nd.current_term
    BY <2>1 DEF Tenure, Evolves
  <2>4. Committed(V, matched, raised, C)
    BY <2>3, CommitSteady
  <2> HIDE DEF raised
  <2>5. /\ Sound(advanced, C) /\ advanced.role = "Leader"
        /\ advanced.current_term = nd.current_term
        /\ advanced.log = nd.log
        /\ Plain(advanced)
        /\ advanced.followers \in {nd.followers, matched.followers}
        /\ Recommits(V, nd, advanced)
    <3>1. CASE advanced = nd
      BY <2>0, <3>1 DEF Recommits
    <3>2. CASE advanced = matched
      <4>1. Plain(matched)
        BY <2>2, SameTasksPlain
      <4> QED
        BY <2>1, <2>2, <2>3, <3>2, <4>1 DEF Recommits
    <3>3. CASE advanced = raised
      <4>1. SameTasks(nd, raised)
        BY <2>2, <2>4, SameTasksTransitive DEF Committed
      <4>2. Plain(raised)
        BY <4>1, SameTasksPlain
      <4>3. /\ raised.role = "Leader" /\ raised.current_term = nd.current_term
            /\ raised.log = nd.log /\ raised.followers = matched.followers
            /\ Sound(raised, C)
            /\ Recommits(V, nd, raised)
        BY <2>1, <2>2, <2>3, <2>4 DEF Committed, SameLeader, Recommits
      <4> QED
        BY <3>3, <4>2, <4>3
    <3> QED
      BY <3>1, <3>2, <3>3
  <2> HIDE DEF advanced
  <2>6. ASSUME NEW b, SameState(advanced, b) PROVE Counting(nd, b, {m}) /\ Committing(V, nd, b, {m})
    <3>1. /\ b.role = "Leader" /\ b.current_term = nd.current_term /\ b.log = nd.log
          /\ b.followers = advanced.followers /\ b.commit_index = advanced.commit_index
          /\ b.id = advanced.id
      BY <2>5, <2>6 DEF SameState
    <3>2. ASSUME NEW f \in DOMAIN b.followers
          PROVE  \/ f \in DOMAIN nd.followers /\ b.followers[f] = nd.followers[f]
                 \/ f = m.from /\ b.followers[f] = p.index
      BY <2>1, <2>2, <2>5, <3>1, <3>2
    <3>3. Counting(nd, b, {m})
      BY <1>5, <2>0, <3>1, <3>2 DEF Counting
    <3>4. Commits(V, advanced) => Commits(V, b)
      BY <2>5, <3>1 DEF Commits, MatchIndex
    <3>5. Committing(V, nd, b, {m})
      BY <2>5, <3>1, <3>4 DEF Recommits, Committing
    <3> QED
      BY <3>3, <3>5
  <2>7. Deed(V, nd, advanced, {m}, C)
    <3>1. SameState(advanced, advanced)
      BY DEF SameState
    <3>2. Grown(V, nd, advanced, C)
      BY <1>2, <2>5 DEF Grown, Trail, Plain
    <3>3. Speaking(advanced, {m})
      BY <2>5, SilentSpeaks DEF Plain
    <3> QED
      BY <2>6, <3>1, <3>2, <3>3 DEF Deed, Writing
  <2>8. Deed(V, nd, sent, {m}, C)
    <3>1. advanced.log.entries = es
      BY <2>5
    <3>2. PartOf(entries, es) /\ entries.prev = p
      BY <1>2, <1>5, <3>1, SinceIsPart
    <3>3. es.prev.index <= p.index
      BY <1>2, <1>5, TermAtTyped DEF Contains
    <3> HIDE DEF entries, es
    <3>4. /\ SameState(advanced, sent)
          /\ sent.actions.append_log_entries = {}
          /\ Speaking(sent, {m})
      BY <2>5, <3>1, <3>2, <3>3, CallDeed
    <3> HIDE DEF sent
    <3>5. Grown(V, nd, sent, C)
      BY <1>2, <2>5, <3>4 DEF Grown, Trail, SameState, es
    <3> QED
      BY <2>6, <3>4, <3>5 DEF Deed, Writing
  <2> HIDE DEF sent
  <2> QED
    BY <1>1, <1>5, <2>7, <2>8 DEF nd2
<1> HIDE DEF sent, repaired, advanced
<1> QED
  BY <1>1, <1>3, <1>4, <1>5 DEF nd2

\* The node answers a leader with its last position.
LEMMA ReplyDeed ==
  ASSUME NEW C, NEW x, Sound(x, C), Silent(x), NEW dest, NEW H
  PROVE  LET nd2 == QueueSend(x, dest, AppendEntriesReply(x)) IN
         /\ IsNode(nd2)
         /\ SameState(x, nd2)
         /\ nd2.actions.append_log_entries = x.actions.append_log_entries
         /\ Speaking(nd2, H)
<1> DEFINE m == AppendEntriesReply(x)
           nd2 == QueueSend(x, dest, m)
<1>1. /\ m.type = "AppendEntriesReply" /\ m.term = x.current_term
      /\ m.last_position = LastPosition(x.log.entries)
  BY DEF AppendEntriesReply
<1>2. IsNode(x) /\ Speaks(m, x.id, x.current_term)
  BY NewMessagesSpeak DEF Sound
<1> HIDE DEF m
<1>3. /\ SameState(x, nd2)
      /\ nd2.actions.append_log_entries = x.actions.append_log_entries
      /\ nd2.actions.broadcast_message = {}
      /\ DOMAIN nd2.actions.send_messages = {dest}
      /\ nd2.actions.send_messages[dest] = m
      /\ nd2.actions.install_snapshots = {}
  BY <1>2, SendTasks
<1>4. IsNode(nd2)
  BY <1>2, QueueSendEvolves DEF Evolves
<1> HIDE DEF nd2
<1>5. Honest(nd2, m) /\ Grants(nd2, m, dest, H)
  BY <1>1, <1>3 DEF Honest, Grants, SameState
<1>6. Speaking(nd2, H)
  BY <1>3, <1>5, SentSpeaks
<1> QED
  BY <1>3, <1>4, <1>6 DEF m, nd2

LEMMA TimerSpeaks ==
  ASSUME NEW x, IsNode(x), NEW H, Speaking(x, H)
  PROVE  LET nd2 == SetElectionTimeout(x) IN
         /\ SameState(x, nd2)
         /\ nd2.actions.append_log_entries = x.actions.append_log_entries
         /\ Speaking(nd2, H)
<1> DEFINE nd2 == SetElectionTimeout(x)
<1>1. SameTasks(x, nd2) /\ SameState(x, nd2)
  BY FieldTasks, TimerFacts
<1> HIDE DEF nd2
<1>2. Speaking(nd2, H)
  BY <1>1 DEF Speaking, SameTasks, SameQueues, SameState, Honest, Grants, Cites
<1> QED
  BY <1>1, <1>2 DEF SameTasks, SameQueues, nd2

\* What the leader's entries do to a follower's log.
Takes(nd, r, es, C) ==
  /\ Silent(r.nd)
  /\ r.nd.commit_index = nd.commit_index
  /\ \/ /\ r.nd.log.entries = nd.log.entries
        /\ r.nd.actions.append_log_entries = {}
        /\ r.agrees => LastPosition(r.nd.log.entries) = LastPosition(es)
     \/ /\ Taken(nd, r.nd, es, C)
        /\ LastPosition(r.nd.log.entries) = LastPosition(es)
     \/ /\ ~r.agrees
        /\ Cut(nd, r.nd, es)

LEMMA AppendFromLeaderDeed ==
  ASSUME NEW C, NEW nd, Sound(nd, C), Plain(nd), nd.role = "Follower", NEW es \in Entries(C),
         \A e \in Edges(es) : TermsStep(e), ~LocalSnapshotMismatch(nd, es)
  PROVE  Takes(nd, AppendFromLeader(nd, es), es, C)
<1> DEFINE local == nd.log.entries
           delta == StripCommonPrefix(es, local)
           n == es.prev.index - local.prev.index - 1
           kept == Truncate(local, n)
           grown == AppendUnchecked(local, delta)
           queued == QueueAppend(nd, delta)
           appended == [queued EXCEPT !.log.entries = grown]
           truncated == [nd EXCEPT !.log.entries = kept]
           r == AppendFromLeader(nd, es)
<1>1. local \in Entries(C) /\ nd.log \in Logs(C) /\ IsNode(nd) /\ IsRecord(nd)
  BY SoundLog DEF Sound, IsNode
<1>2. nd.log = [snapshot_config |-> nd.log.snapshot_config, entries |-> nd.log.entries]
  BY <1>1, LogFacts
<1>3. r = (IF Contains(local, LastPosition(es))
           THEN [nd |-> nd, agrees |-> LastPosition(local) = LastPosition(es)]
           ELSE IF Contains(local, es.prev)
           THEN [nd |-> appended, agrees |-> TRUE]
           ELSE IF ContainsIndex(local, es.prev.index)
           THEN [nd |-> truncated, agrees |-> FALSE]
           ELSE [nd |-> nd, agrees |-> FALSE])
  BY DEF AppendFromLeader
<1>4. CASE Contains(local, LastPosition(es))
           \/ (~Contains(local, es.prev) /\ ~ContainsIndex(local, es.prev.index))
  <2> HIDE DEF delta, kept, appended, truncated, r
  <2>1. r.nd = nd /\ (r.agrees => LastPosition(local) = LastPosition(es))
    BY <1>3, <1>4
  <2> QED
    BY <2>1 DEF Takes, Plain, r
<1>5. CASE ~Contains(local, LastPosition(es)) /\ Contains(local, es.prev)
  <2>1. /\ delta \in Entries(C) /\ Contains(local, delta.prev) /\ PartOf(delta, es)
        /\ es.prev.index <= delta.prev.index /\ LastPosition(delta) = LastPosition(es)
    BY <1>1, <1>5, StripEnds
  <2> HIDE DEF delta
  <2>2. LastPosition(grown) = LastPosition(delta)
    BY <1>1, <2>1, AppendEdges
  <2> HIDE DEF grown
  <2>3. /\ SameState(nd, queued)
        /\ Silent(queued)
        /\ queued.actions.append_log_entries = {delta}
    <3> DEFINE merged == {AppendUnchecked(w, delta) : w \in nd.actions.append_log_entries}
    <3>1. merged = {}
      BY DEF Plain
    <3>2. /\ SameState(nd, queued)
          /\ Silent(queued)
          /\ queued.actions.append_log_entries = IF merged = {} THEN {delta} ELSE merged
      BY <1>1, AppendTasks DEF Plain
    <3> QED
      BY <3>1, <3>2
  <2>4. IsRecord(queued)
    BY <1>1, QueueAppendFacts
  <2> HIDE DEF queued
  <2>5. /\ appended.log.entries = grown /\ appended.actions = queued.actions
        /\ appended.commit_index = queued.commit_index
    <3>1. queued.log = nd.log
      BY <2>3 DEF SameState
    <3> QED
      BY <1>2, <2>4, <3>1 DEF IsRecord
  <2> HIDE DEF appended, truncated, r, local, kept
  <2>6. r.nd = appended
    BY <1>3, <1>5
  <2>7. Taken(nd, appended, es, C)
    BY <1>5, <2>1, <2>3, <2>5 DEF Taken, local, grown
  <2>8. Takes(nd, r, es, C)
    BY <2>1, <2>2, <2>3, <2>5, <2>6, <2>7 DEF Takes, Silent, SameState
  <2> QED
    BY <2>8 DEF r
<1>6. CASE ~Contains(local, LastPosition(es)) /\ ~Contains(local, es.prev)
           /\ ContainsIndex(local, es.prev.index)
  <2>1. /\ truncated.log.entries = kept /\ truncated.actions = nd.actions
        /\ truncated.commit_index = nd.commit_index
    BY <1>1, <1>2 DEF IsRecord
  <2>2. local.prev.index < es.prev.index
    <3>1. local.prev.index \in Nat /\ es.prev.index \in Nat /\ local.prev.index <= es.prev.index
      BY <1>1, <1>6, TermAtTyped, EntriesFacts
    <3>2. es.prev.index # local.prev.index
      BY <1>6 DEF LocalSnapshotMismatch
    <3> QED
      BY <3>1, <3>2
  <2> HIDE DEF kept, appended, truncated, r, delta
  <2>3. r.nd = truncated /\ ~r.agrees
    BY <1>3, <1>6
  <2>4. Cut(nd, truncated, es)
    BY <1>6, <2>1, <2>2 DEF Cut, kept, Plain
  <2>5. Takes(nd, r, es, C)
    BY <2>1, <2>3, <2>4 DEF Takes, Plain, Silent
  <2> QED
    BY <2>5 DEF r
<1> HIDE DEF r
<1> QED
  BY <1>4, <1>5, <1>6

LEMMA AsFollowerTasks ==
  ASSUME NEW C, NEW nd, Sound(nd, C), Plain(nd), NEW from
  PROVE  LET voted == AsFollower(nd, from) IN
         /\ Sound(voted, C)
         /\ Plain(voted)
         /\ voted.role = "Follower"
         /\ voted.current_term = nd.current_term
         /\ voted.log = nd.log
         /\ voted.commit_index = nd.commit_index
<1> DEFINE demoted == SetRole(nd, "Follower")
           Fine(x) == /\ Sound(x, C)
                      /\ SameTasks(nd, x)
                      /\ x.role = "Follower"
                      /\ x.current_term = nd.current_term
                      /\ x.log = nd.log
                      /\ x.commit_index = nd.commit_index
<1>1. Fine(demoted)
  <2>1. SameTasks(nd, demoted)
    BY FieldTasks DEF Sound
  <2>2. /\ Sound(demoted, C)
        /\ demoted.current_term = nd.current_term
        /\ demoted.log = nd.log
        /\ demoted.commit_index = nd.commit_index
        /\ demoted.role = "Follower"
    BY RoleSound
  <2> QED
    BY <2>1, <2>2
<1>2. nd.role = "Follower" => Fine(nd)
  BY DEF SameTasks, SameQueues
<1> HIDE DEF demoted
<1>3. ASSUME NEW x, Fine(x) PROVE Fine(SetVotedFor(x, from))
  <2> DEFINE v == SetVotedFor(x, from)
  <2>1. SameTasks(x, v)
    BY <1>3, FieldTasks DEF Sound
  <2>2. /\ Sound(v, C)
        /\ v.current_term = x.current_term
        /\ v.role = "Follower"
    BY <1>3, VotedSound
  <2>3. v.log = x.log /\ v.commit_index = x.commit_index
    BY <1>3, VotedForFacts DEF Sound
  <2> HIDE DEF v
  <2>4. SameTasks(nd, v)
    BY <1>3, <2>1, SameTasksTransitive
  <2>5. Fine(v)
    BY <1>3, <2>2, <2>3, <2>4
  <2> QED
    BY <2>5 DEF v
<1>4. \E x : Fine(x) /\ AsFollower(nd, from) \in {x, SetVotedFor(x, from)}
  <2>1. CASE nd.role = "Follower"
    <3>1. AsFollower(nd, from) \in {nd, SetVotedFor(nd, from)}
      BY <2>1 DEF AsFollower
    <3> HIDE DEF Fine
    <3> QED
      BY <1>2, <2>1, <3>1
  <2>2. CASE nd.role # "Follower"
    <3>1. AsFollower(nd, from) \in {demoted, SetVotedFor(demoted, from)}
      BY <2>2 DEF AsFollower, demoted
    <3> HIDE DEF Fine
    <3> QED
      BY <1>1, <3>1
  <2> QED
    BY <2>1, <2>2
<1>5. Fine(AsFollower(nd, from))
  <2> HIDE DEF Fine
  <2> QED
    BY <1>3, <1>4
<1> QED
  BY <1>5, SameTasksPlain

LEMMA AppendEntriesCallDeed ==
  ASSUME NEW C, NEW V, NEW nd, Sound(nd, C), Plain(nd), NEW m, MessageOK(m, C),
         m.type = "AppendEntriesCall", m.term \in Nat, m.term <= nd.current_term,
         \A e \in Edges(m.entries) : TermsStep(e)
  PROVE  Deed(V, nd, HandleAppendEntriesCall(nd, m), {m}, C)
<1> DEFINE es == m.entries
           voted == AsFollower(nd, m.from)
           r == AppendFromLeader(voted, es)
           grown == r.nd
           known == Min({m.commit_index, LastIndex(grown.log.entries)})
           i == Max({grown.commit_index, known})
           updated == IF r.agrees THEN [grown EXCEPT !.commit_index = i] ELSE grown
           replied == QueueSend(updated, m.from, AppendEntriesReply(updated))
           timed == SetElectionTimeout(replied)
           stale == QueueSend(nd, m.from, AppendEntriesReply(nd))
           rival == DebugAssert(nd, "two leaders", FALSE)
           mismatched == DebugAssert(voted, "LocalSnapshotMismatch", FALSE)
           nd2 == HandleAppendEntriesCall(nd, m)
<1>1. nd2 = IF m.term < nd.current_term THEN stale
            ELSE IF nd.role = "Leader" THEN rival
            ELSE IF LocalSnapshotMismatch(voted, es) THEN mismatched
            ELSE timed
  BY DEF HandleAppendEntriesCall, AsFollower
<1>2. IsNode(nd) /\ nd.current_term \in Nat /\ es \in Entries(C) /\ m.commit_index \in Nat
  BY DEF Sound, IsNode, IsRecord, MessageOK
<1>3. Deed(V, nd, stale, {m}, C)
  <2>1. /\ SameState(nd, stale)
        /\ stale.actions.append_log_entries = nd.actions.append_log_entries
        /\ Speaking(stale, {m})
    BY ReplyDeed DEF Plain
  <2> HIDE DEF stale
  <2>2. Counting(nd, stale, {m})
    BY <2>1 DEF Counting, SameState
  <2> QED
    BY <2>1, <2>2, QuietDeed DEF SameState, Plain
<1>4. Deed(V, nd, rival, {m}, C)
  <2>1. SameTasks(nd, rival) /\ SameState(nd, rival)
    BY <1>2, AssertTasks
  <2> HIDE DEF rival
  <2>2. Plain(rival)
    BY <2>1, SameTasksPlain
  <2>3. Counting(nd, rival, {m})
    BY <2>1 DEF Counting, SameState
  <2> QED
    BY <2>1, <2>2, <2>3, QuietDeed, SilentSpeaks DEF SameState, Plain
<1>5. /\ Sound(voted, C)
      /\ Plain(voted)
      /\ voted.role = "Follower"
      /\ voted.current_term = nd.current_term
      /\ voted.log = nd.log
      /\ voted.commit_index = nd.commit_index
  BY AsFollowerTasks
<1> HIDE DEF voted, stale, rival
<1>6. Deed(V, nd, mismatched, {m}, C)
  <2>1. SameTasks(voted, mismatched) /\ SameState(voted, mismatched)
    BY <1>5, AssertTasks DEF Sound
  <2> HIDE DEF mismatched
  <2>2. Plain(mismatched)
    BY <1>5, <2>1, SameTasksPlain
  <2>3. Counting(nd, mismatched, {m})
    BY <1>5, <2>1 DEF Counting, SameState
  <2> QED
    BY <1>5, <2>1, <2>2, <2>3, QuietDeed, SilentSpeaks DEF SameState, Plain
<1>7. CASE m.term = nd.current_term /\ ~LocalSnapshotMismatch(voted, es)
  <2>1. Following(voted, grown, C, voted.voted_for)
    BY <1>2, <1>5, AppendFromLeaderFollows
  <2>2. Takes(voted, r, es, C)
    BY <1>2, <1>5, <1>7, AppendFromLeaderDeed
  <2> HIDE DEF r
  <2> HIDE DEF grown
  <2>3. /\ Sound(grown, C) /\ grown.role = "Follower"
        /\ grown.current_term = nd.current_term
    BY <1>5, <2>1 DEF Following
  <2>4. /\ Silent(grown) /\ grown.commit_index = nd.commit_index
    BY <1>5, <2>2 DEF Takes, grown
  <2>5. i \in Nat /\ (i = nd.commit_index \/ (i > nd.commit_index /\ i = known))
    <3>1. nd.commit_index \in Nat /\ LastIndex(grown.log.entries) \in Nat
      BY <2>3, <2>4, SoundLog, EntriesFacts DEF Sound
    <3>2. known \in Nat
      BY <1>2, <3>1, TwoIndices
    <3> HIDE DEF known
    <3> DEFINE old == nd.commit_index
    <3>3. i = Max({old, known})
      BY <2>4
    <3>4. old \in Nat
      BY <3>1
    <3> HIDE DEF old
    <3>5. Max({old, known}) \in {old, known} /\ Max({old, known}) >= old
      <4>1. \E x \in {old, known} : \A y \in {old, known} : x >= y
        BY <3>2, <3>4
      <4> QED
        BY <4>1 DEF Max
    <3> HIDE DEF i
    <3>6. i = old \/ (i > old /\ i = known)
      BY <3>2, <3>3, <3>4, <3>5
    <3> QED
      BY <3>2, <3>3, <3>4, <3>5, <3>6 DEF old
  <2> HIDE DEF i
  <2>6. /\ Sound(updated, C)
        /\ Silent(updated)
        /\ updated.role = "Follower"
        /\ updated.current_term = nd.current_term
        /\ updated.log = grown.log
        /\ updated.actions.append_log_entries = grown.actions.append_log_entries
        /\ updated.commit_index = IF r.agrees THEN i ELSE nd.commit_index
    <3> DEFINE up == [grown EXCEPT !.commit_index = i]
    <3>1. /\ Sound(up, C) /\ up.role = grown.role /\ up.actions = grown.actions
          /\ up.current_term = grown.current_term
      BY <2>3, <2>5, FollowerCommit
    <3>2. up.log = grown.log /\ up.commit_index = i
      BY <2>3 DEF Sound, IsNode, IsRecord
    <3> HIDE DEF up
    <3>3. Silent(up)
      BY <2>4, <3>1 DEF Silent
    <3>4. updated = IF r.agrees THEN up ELSE grown
      BY DEF up
    <3> HIDE DEF updated
    <3> QED
      BY <2>3, <2>4, <3>1, <3>2, <3>3, <3>4
  <2> HIDE DEF updated
  <2>7. /\ IsNode(replied)
        /\ SameState(updated, replied)
        /\ replied.actions.append_log_entries = updated.actions.append_log_entries
        /\ Speaking(replied, {m})
    BY <2>6, ReplyDeed
  <2> HIDE DEF replied
  <2>8. /\ SameState(replied, timed)
        /\ timed.actions.append_log_entries = replied.actions.append_log_entries
        /\ Speaking(timed, {m})
    BY <2>7, TimerSpeaks
  <2> HIDE DEF timed
  <2>9. /\ timed.role = "Follower"
        /\ timed.current_term = nd.current_term
        /\ timed.log = grown.log
        /\ timed.actions.append_log_entries = grown.actions.append_log_entries
        /\ timed.commit_index = IF r.agrees THEN i ELSE nd.commit_index
    BY <2>6, <2>7, <2>8 DEF SameState
  <2>10. OfLeader(timed, m)
    BY <1>7, <2>9 DEF OfLeader
  <2>11. Writing(V, nd, timed, {m}, C)
    <3>1. CASE /\ grown.log.entries = voted.log.entries
               /\ grown.actions.append_log_entries = {}
      <4>1. nd.log.entries \in Entries(C)
        BY SoundLog
      <4>2. Grown(V, nd, timed, C)
        BY <1>5, <2>9, <3>1, <4>1 DEF Grown, Trail
      <4> QED
        BY <4>2 DEF Writing
    <3>2. CASE Taken(voted, grown, es, C)
      <4>1. Taken(nd, timed, es, C)
        BY <1>5, <2>9, <3>2 DEF Taken
      <4> QED
        BY <2>9, <2>10, <4>1 DEF Writing
    <3>3. CASE ~r.agrees /\ Cut(voted, grown, es)
      <4>1. Cut(nd, timed, es)
        BY <1>5, <2>9, <3>3 DEF Cut
      <4> QED
        BY <2>9, <2>10, <4>1 DEF Writing
    <3> QED
      BY <2>2, <3>1, <3>2, <3>3 DEF Takes, grown
  <2>12. Committing(V, nd, timed, {m})
    <3>1. CASE timed.commit_index = nd.commit_index
      BY <3>1 DEF Committing
    <3>2. CASE timed.commit_index # nd.commit_index
      <4>1. r.agrees /\ timed.commit_index = i
        BY <2>9, <3>2
      <4>2. timed.commit_index > nd.commit_index /\ timed.commit_index = known
        BY <2>5, <3>2, <4>1
      <4>3. LastPosition(timed.log.entries) = LastPosition(es)
        BY <2>2, <2>9, <4>1 DEF Takes, grown
      <4>4. Hears(nd, timed, m)
        BY <2>9, <2>10, <4>2, <4>3 DEF Hears
      <4> QED
        BY <2>9, <4>2, <4>4 DEF Committing
    <3> QED
      BY <3>1, <3>2
  <2>13. Counting(nd, timed, {m})
    BY <2>9 DEF Counting
  <2>14. Deed(V, nd, timed, {m}, C)
    BY <2>8, <2>11, <2>12, <2>13 DEF Deed
  <2> HIDE DEF nd2, mismatched
  <2>15. nd2 = stale \/ nd2 = rival \/ nd2 = mismatched \/ nd2 = timed
    BY <1>1
  <2> QED
    BY <1>3, <1>4, <1>6, <2>14, <2>15 DEF nd2
<1>8. CASE ~(m.term = nd.current_term /\ ~LocalSnapshotMismatch(voted, es))
  <2> HIDE DEF nd2, mismatched, timed
  <2>1. m.term < nd.current_term \/ LocalSnapshotMismatch(voted, es)
    BY <1>2, <1>8
  <2>2. nd2 = stale \/ nd2 = rival \/ nd2 = mismatched
    BY <1>1, <2>1
  <2> QED
    BY <1>3, <1>4, <1>6, <2>2 DEF nd2
<1> QED
  BY <1>7, <1>8

\* A message of a later term has made the node a follower before it is handled.
LEMMA DemotedDeed ==
  ASSUME NEW C, NEW V, NEW nd, NEW a, a.log = nd.log, a.commit_index = nd.commit_index,
         a.role = "Follower", nd.current_term \in Nat, a.current_term \in Nat,
         nd.current_term < a.current_term,
         NEW nd2, NEW H, nd2.current_term \in Nat, Deed(V, a, nd2, H, C)
  PROVE  Deed(V, nd, nd2, H, C)
<1>1. Grown(V, a, nd2, C) => Grown(V, nd, nd2, C)
  <2> SUFFICES ASSUME NEW b \in Entries(C),
                      \/ b = a.log.entries
                      \/ /\ V \in Creations
                         /\ b = FoundingLog(V)
                         /\ a.log.entries = NewEntries(ZERO)
                         /\ nd2.role = "Candidate" => nd2.current_term > a.current_term,
                      Trail(a.log.entries, nd2),
                      \/ nd2.log.entries = b
                      \/ /\ nd2.role = "Leader"
                         /\ LastIndex(b) > 0
                         /\ \E e \in Entry(C) : /\ e.term = nd2.current_term
                                                /\ nd2.log.entries = Push(b, e)
               PROVE  Grown(V, nd, nd2, C)
    BY DEF Grown
  <2>1. nd2.current_term > a.current_term => nd2.current_term > nd.current_term
    OBVIOUS
  <2> QED
    BY <2>1 DEF Grown
<1>2. Writing(V, a, nd2, H, C) => Writing(V, nd, nd2, H, C)
  <2>1. \A m : Cut(a, nd2, m.entries) => Cut(nd, nd2, m.entries)
    BY DEF Cut
  <2>2. \A m : Taken(a, nd2, m.entries, C) => Taken(nd, nd2, m.entries, C)
    BY DEF Taken
  <2> QED
    BY <1>1, <2>1, <2>2 DEF Writing
<1>3. Committing(V, a, nd2, H) => Committing(V, nd, nd2, H)
  BY DEF Committing, Hears
<1>4. Counting(a, nd2, H) => Counting(nd, nd2, H)
  BY DEF Counting
<1> QED
  BY <1>2, <1>3, <1>4 DEF Deed

LEMMA DispatchDeed ==
  ASSUME NEW C, NEW V, Steady(C, V), NEW nd, Sound(nd, C), Plain(nd), NEW m, IsMessage(m),
         MessageOK(m, C), m.term <= nd.current_term,
         m.type = "AppendEntriesCall" => \A e \in Edges(m.entries) : TermsStep(e)
  PROVE  Deed(V, nd, Dispatch(nd, m), {m}, C)
<1>1. /\ m.type \in {"RequestVoteCall", "RequestVoteReply", "AppendEntriesCall",
                     "AppendEntriesReply"}
      /\ m.term \in Nat
  BY DEF IsMessage
<1>2. CASE m.type = "RequestVoteCall"
  BY <1>1, <1>2, RequestVoteCallDeed DEF Dispatch
<1>3. CASE m.type = "RequestVoteReply"
  BY <1>3, RequestVoteReplyDeed DEF Dispatch
<1>4. CASE m.type = "AppendEntriesCall"
  BY <1>1, <1>4, AppendEntriesCallDeed DEF Dispatch
<1>5. CASE m.type = "AppendEntriesReply"
  <2>1. m.last_position \in Position
    BY <1>5 DEF MessageOK
  <2> QED
    BY <1>5, <2>1, AppendEntriesReplyDeed DEF Dispatch
<1> QED
  BY <1>1, <1>2, <1>3, <1>4, <1>5

LEMMA HandleMessageDeed ==
  ASSUME NEW C, NEW V, Steady(C, V), NEW nd, Sound(nd, C), Plain(nd), NEW m, IsMessage(m),
         MessageOK(m, C), Sound(HandleMessage(nd, m), C),
         m.type = "AppendEntriesCall" => \A e \in Edges(m.entries) : TermsStep(e)
  PROVE  Deed(V, nd, HandleMessage(nd, m), {m}, C)
<1>1. CASE m.from = nd.id
  <2>1. HandleMessage(nd, m) = nd
    BY <1>1 DEF HandleMessage
  <2> QED
    BY <2>1, QuietDeed, SilentSpeaks DEF Plain, Counting
<1>2. CASE m.from # nd.id
  <2> DEFINE a == ObserveTerm(nd, m.term)
             nd2 == HandleMessage(nd, m)
  <2>1. nd2 = Dispatch(a, m)
    BY <1>2 DEF HandleMessage
  <2>2. m.term \in Nat /\ nd.current_term \in Nat /\ nd2.current_term \in Nat
    BY DEF IsMessage, Sound, IsNode, IsRecord
  <2>3. CASE nd.current_term < m.term
    <3>1. a = TransitionToFollower(nd, m.term)
      BY <2>3 DEF ObserveTerm
    <3>2. nd.current_term <= m.term
      BY <2>2, <2>3
    <3>3. Demoted(nd, a, C, m.term)
      BY <2>2, <3>1, <3>2, TransitionToFollowerDemotes
    <3>4. Plain(a)
      BY <2>2, <3>1, <3>2, DemotedTasks
    <3> HIDE DEF a, nd2
    <3>5. /\ Sound(a, C) /\ a.current_term = m.term
          /\ a.log = nd.log /\ a.commit_index = nd.commit_index /\ a.role = "Follower"
      BY <3>3 DEF Demoted
    <3>8. m.term <= a.current_term
      BY <2>2, <3>5
    <3>6. Deed(V, a, nd2, {m}, C)
      BY <2>1, <3>4, <3>5, <3>8, DispatchDeed
    <3>7. Deed(V, nd, nd2, {m}, C)
      BY <2>2, <2>3, <3>5, <3>6, DemotedDeed
    <3> QED
      BY <3>7 DEF nd2
  <2>4. CASE ~(nd.current_term < m.term)
    <3>1. a = nd
      BY <2>4 DEF ObserveTerm
    <3>2. m.term <= nd.current_term
      BY <2>2, <2>4
    <3> HIDE DEF a
    <3> QED
      BY <2>1, <3>1, <3>2, DispatchDeed
  <2> QED
    BY <2>3, <2>4
<1> QED
  BY <1>1, <1>2

LEMMA CreatedDeed ==
  ASSUME NEW C, NEW V, Steady(C, V), NEW nd, Sound(nd, C), Plain(nd), CanCreate(nd, V), V \in Creations,
         [EmptyConfig EXCEPT !.voters = V] \in C, NEW H
  PROVE  Deed(V, nd, Created(nd, V), H, C)
<1> DEFINE config == [EmptyConfig EXCEPT !.voters = V]
           e == ConfigEntry(0, config)
           a == Pushed(nd, e)
           nd2 == Created(nd, V)
           es == nd.log.entries
<1>1. nd2 = IF IsVoter(config, nd.id) THEN TransitionToCandidate(a) ELSE a
  BY DEF Created, Pushed, CanCreate
<1>2. e \in Entry(C) /\ e.kind = "ClusterConfig" /\ e.config = config
  BY DEF Entry, ConfigEntry
<1>3. es = NewEntries(ZERO)
  <2>1. es \in Entries(C) /\ LastPosition(es) = ZERO
    BY SoundLog DEF CanCreate
  <2>2. LastIndex(es) = 0
    BY <2>1, LastPositionTyped DEF ZERO, Pos
  <2>3. es.prev.index = 0 /\ es.ents = <<>> /\ es = [prev |-> es.prev, ents |-> es.ents]
    BY <2>1, <2>2, EntriesFacts
  <2>4. es.prev.term = 0
    <3>1. TermAt(es, 0) = es.prev.term
      BY <2>3 DEF TermAt
    <3>2. LastPosition(es) = Pos(es.prev.term, 0)
      BY <2>2, <3>1 DEF LastPosition
    <3> QED
      BY <2>1, <3>2 DEF ZERO, Pos
  <2>5. es.prev \in Position
    BY <2>1, EntriesFacts
  <2>6. es.prev = ZERO
    BY <2>3, <2>4, <2>5 DEF ZERO, Pos, Position
  <2> HIDE DEF es
  <2> QED
    BY <2>3, <2>6 DEF NewEntries
<1>4. Push(es, e) = FoundingLog(V) /\ LastIndex(es) = 0
  <2>1. Push(NewEntries(ZERO), e) = [prev |-> ZERO, ents |-> Append(<<>>, e)]
    BY DEF Push, NewEntries
  <2>2. Append(<<>>, e) = <<e>>
    OBVIOUS
  <2>3. LastIndex(NewEntries(ZERO)) = 0
    BY DEF LastIndex, NewEntries, ZERO, Pos
  <2> QED
    BY <1>3, <2>1, <2>2, <2>3 DEF FoundingLog
<1> HIDE DEF config, e
<1>5. /\ Sound(a, C)
      /\ a.id = nd.id
      /\ a.current_term = nd.current_term
      /\ a.commit_index = nd.commit_index
      /\ a.role = nd.role
      /\ a.followers = nd.followers
      /\ a.log.entries = Push(es, e)
      /\ a.log.entries.prev = es.prev
  <2> HIDE DEF nd2
  <2> QED
    BY <1>2, PushedFacts, ZenonT(60)
<1>6. Silent(a) /\ KeepsTrail(nd, a, C)
  BY <1>2, PushedTasks DEF Plain
<1> HIDE DEF a, nd2
<1>7. Trail(es, a)
  <2>1. Trail(es, nd)
    BY DEF Trail, Plain
  <2>2. es \in Entries(C)
    BY SoundLog
  <2> QED
    BY <1>6, <2>1, <2>2 DEF KeepsTrail
<1>8. Base(V, nd, a)
  BY <1>3, <1>4, <1>5, <1>7 DEF Base
<1>9. nd.role = "Follower"
  <2>1. ~(LastIndex(es) > 0)
    BY <1>4
  <2> QED
    BY <2>1 DEF Sound, Stands
<1>10. Deed(V, nd, a, H, C)
  <2>1. a.log.entries \in Entries(C)
    BY <1>5, SoundLog
  <2>2. Grown(V, nd, a, C)
    BY <1>5, <1>8, <1>9, <2>1 DEF Grown, Base
  <2>3. Counting(nd, a, H)
    BY <1>5, <1>9 DEF Counting
  <2> QED
    BY <1>5, <1>6, <2>2, <2>3, SilentSpeaks DEF Deed, Writing, Committing
<1>11. CASE IsVoter(config, nd.id)
  <2>1. Config(a) = config
    <3>1. nd.log \in Logs(C)
      BY SoundLog
    <3>2. LatestConfig(a.log) = e.config
      BY <1>2, <1>5, <3>1, LatestConfigPushed, ZenonT(60)
    <3> QED
      BY <1>2, <3>2 DEF Config
  <2>2. Deed(V, nd, TransitionToCandidate(a), H, C)
    BY <1>5, <1>6, <1>8, <1>11, <2>1, ElectionCallDeed
  <2> QED
    BY <1>1, <1>11, <2>2 DEF nd2
<1> QED
  BY <1>1, <1>10, <1>11 DEF nd2

-----------------------------------------------------------------------------
(* The tree grows, and what is chosen or void. *)

Widens(C, G, U, X, H, U2, X2) ==
  /\ G \subseteq H
  /\ Tree(H, C)
  /\ U \subseteq U2
  /\ X \subseteq X2

LEMMA KeptWidens ==
  ASSUME NEW C, NEW G, NEW U, NEW X, NEW H, NEW U2, NEW X2, Widens(C, G, U, X, H, U2, X2),
         NEW r, NEW p, Kept(G, U, r, p)
  PROVE  Kept(H, U2, r, p)
<1>1. Before(G, r, p) => Before(H, r, p)
  BY BeforeGrown DEF Widens
<1> QED
  BY <1>1 DEF Kept, Widens

LEMMA DecidedWidens ==
  ASSUME NEW C, NEW G, NEW U, NEW X, NEW H, NEW U2, NEW X2, Widens(C, G, U, X, H, U2, X2),
         NEW t \in Nat, NEW t2 \in Nat, t <= t2, NEW q, Decided(G, X, q, t)
  PROVE  Decided(H, X2, q, t2)
<1>1. CASE q = ZERO
  BY <1>1 DEF Decided
<1>2. CASE \E r \in X : r.term <= t /\ Before(G, q, r)
  <2>1. PICK r \in X : r.term <= t /\ Before(G, q, r)
    BY <1>2
  <2>2. Before(H, q, r) /\ r \in X2
    BY <2>1, BeforeGrown DEF Widens
  <2>3. r.term \in Nat
    BY <2>2, BeforeFacts DEF Widens
  <2>4. r.term <= t2
    BY <2>1, <2>3
  <2> QED
    BY <2>2, <2>4 DEF Decided
<1> QED
  BY <1>1, <1>2 DEF Decided

\* What is before a decided position is decided.
LEMMA DecidedBelow ==
  ASSUME NEW C, NEW G, Tree(G, C), NEW X, NEW q, NEW t, Decided(G, X, q, t), NEW p,
         p = Pos(p.term, p.index), Before(G, p, q)
  PROVE  Decided(G, X, p, t)
<1>1. CASE q = ZERO
  <2>1. p.index \in Nat /\ p.index <= 0
    BY <1>1, BeforeFacts DEF ZERO, Pos
  <2>2. p.index = 0
    BY <2>1
  <2>3. PICK g \in G : Contains(g, p)
    BY DEF Before
  <2>4. p.term = 0
    BY <2>2, <2>3, FullFacts DEF Contains, Tree
  <2> QED
    BY <2>2, <2>4 DEF Decided, ZERO
<1>2. CASE \E r \in X : r.term <= t /\ Before(G, q, r)
  BY <1>2, BeforeTransitive DEF Decided
<1> QED
  BY <1>1, <1>2 DEF Decided

LEMMA AckedOnTree ==
  ASSUME NEW C, NEW G, NEW U, NEW X, NEW H, NEW U2, NEW X2, Widens(C, G, U, X, H, U2, X2),
         NEW A, NEW T, AcksOK(G, A, T), NEW w, NEW r, Acked(A, w, r), OnTree(H, r)
  PROVE  OnTree(G, r)
<1>1. PICK a \in A : a[2] = r.term /\ r.index <= a[3]
  BY DEF Acked
<1> DEFINE p == Pos(a[2], a[3])
<1>2. p.term = r.term /\ r.index <= p.index
  BY <1>1 DEF Pos
<1>3. OnTree(G, p)
  BY DEF AcksOK
<1> HIDE DEF p
<1>4. OnTree(H, p)
  BY <1>3, BeforeGrown DEF Widens
<1>5. Before(H, r, p)
  BY <1>2, <1>4, OneTermLine DEF Widens
<1>6. Before(G, r, p)
  BY <1>3, <1>5, BeforeGrown DEF Widens
<1> QED
  BY <1>6 DEF Before, OnTree

-----------------------------------------------------------------------------
(* The other nodes, and what is in flight. *)

LEMMA CommitWidens ==
  ASSUME NEW C, NEW G, NEW U, NEW X, NEW H, NEW U2, NEW X2, Widens(C, G, U, X, H, U2, X2),
         NEW nd, nd.current_term \in Nat, CommitSafe(G, X, nd)
  PROVE  CommitSafe(H, X2, nd)
<1>1. nd.current_term <= nd.current_term
  OBVIOUS
<1> QED
  BY <1>1, DecidedWidens DEF CommitSafe

LEMMA LogsWiden ==
  ASSUME NEW G, NEW H, G \subseteq H, NEW es, NEW ds, LogsSafe(G, es, ds)
  PROVE  LogsSafe(H, es, ds)
BY DEF LogsSafe, Backed

LEMMA OtherSafe ==
  ASSUME NEW C, NEW G, NEW U, NEW X, NEW H, NEW U2, NEW X2, Widens(C, G, U, X, H, U2, X2),
         NEW x \in NodeId, NEW A, NEW T, NEW A2, NEW T2, Later(x, A, T, A2, T2), AcksOK(G, A, T),
         NEW y \in NodeId, y # x, NEW nd, nd.current_term \in Nat, NEW d,
         NodeSafe(G, A, U, X, y, nd, d)
  PROVE  NodeSafe(H, A2, U2, X2, y, nd, d)
<1> DEFINE es == nd.log.entries
<1>1. LogsSafe(H, es, d.log.entries)
  BY LogsWiden DEF NodeSafe, Widens
<1>2. \A w, r : Acked(A, w, r) => Acked(A2, w, r)
  BY AckedLater
<1>3. LastPosition(es).term = nd.current_term => Acked(A2, y, LastPosition(es))
  BY <1>2 DEF NodeSafe
<1>4. Keeper(H, A2, U2, y, es)
  <2> SUFFICES ASSUME NEW r, OnTree(H, r), Acked(A2, y, r)
               PROVE  Kept(H, U2, r, LastPosition(es))
    BY DEF Keeper
  <2>1. Acked(A, y, r)
    BY AckedLater
  <2>2. OnTree(G, r)
    BY <2>1, AckedOnTree
  <2>3. Kept(G, U, r, LastPosition(es))
    BY <2>1, <2>2 DEF NodeSafe, Keeper
  <2> QED
    BY <2>3, KeptWidens
<1>5. nd.role = "Leader" => Matches(A2, nd)
  BY <1>2 DEF NodeSafe, Matches
<1>6. CommitSafe(H, X2, nd)
  BY CommitWidens DEF NodeSafe
<1> QED
  BY <1>1, <1>3, <1>4, <1>5, <1>6 DEF NodeSafe

LEMMA PacketWidens ==
  ASSUME NEW C, NEW G, NEW U, NEW X, NEW H, NEW U2, NEW X2, Widens(C, G, U, X, H, U2, X2),
         NEW x \in NodeId, NEW A, NEW T, NEW A2, NEW T2, Later(x, A, T, A2, T2),
         NEW p, p.msg.type = "AppendEntriesCall" => p.msg.term \in Nat, PacketSafe(G, A, X, T, p)
  PROVE  PacketSafe(H, A2, X2, T2, p)
<1> DEFINE m == p.msg
<1>1. \A q : OnTree(G, q) => OnTree(H, q)
  BY BeforeGrown DEF Widens
<1>2. ASSUME m.type = "AppendEntriesCall" PROVE CallSafe(H, X2, m)
  <2>1. PICK g \in G : \E n \in LastIndex(m.entries) .. LastIndex(g) :
               /\ TermAt(g, n) = m.term
               /\ PartOf(m.entries, g)
               /\ m.commit_index <= n
               /\ Decided(G, X, Spot(g, m.commit_index), m.term)
    BY <1>2 DEF PacketSafe, CallSafe
  <2>2. m.term <= m.term /\ m.term \in Nat
    BY <1>2
  <2>3. Decided(G, X, Spot(g, m.commit_index), m.term)
          => Decided(H, X2, Spot(g, m.commit_index), m.term)
    BY <2>2, DecidedWidens
  <2>4. g \in H
    BY DEF Widens
  <2> QED
    BY <2>1, <2>3, <2>4 DEF CallSafe
<1>3. m.type = "AppendEntriesReply" /\ m.last_position.term = m.term
        => Acked(A2, m.from, m.last_position)
  BY AckedLater DEF PacketSafe
<1>4. ASSUME m.type = "InstallSnapshot", p.to \in NodeId
      PROVE  OnTree(H, m.position) /\ Decided(H, X2, m.position, T2[p.to])
  <2>1. T[p.to] \in Nat /\ T2[p.to] \in Nat /\ T[p.to] <= T2[p.to]
    BY <1>4 DEF Later
  <2>2. OnTree(G, m.position) /\ Decided(G, X, m.position, T[p.to])
    BY <1>4 DEF PacketSafe
  <2> QED
    BY <1>1, <2>1, <2>2, DecidedWidens
<1>5. m.type = "RequestVoteCall" => OnTree(H, m.last_position)
  BY <1>1 DEF PacketSafe
<1> QED
  BY <1>2, <1>3, <1>4, <1>5 DEF PacketSafe

-----------------------------------------------------------------------------
(* The calls as deeds. *)

\* The messages of H have come to the node id.
Come(id, H) ==
  \A m \in H : /\ m.type # "InstallSnapshot"
               /\ \E p \in net : p.to = id /\ p.msg = m

LEMMA CallsDeed ==
  ASSUME NEW V, VotersFixed(V), V # {}, NEW C, C = FixedConfigs(V), Typed(C), MatchInv,
         NEW id \in NodeId, NEW nd, Calls(id, nd)
  PROVE  \E H : Come(id, H) /\ Deed(V, node[id], nd, H, C)
<1> DEFINE old == node[id]
<1>1. Covering(C)
  BY FixedCover
<1>2. Steady(C, V)
  BY <1>1 DEF Steady, VotersFixed, FixedConfigs, Covering
<1>3. /\ Sound(old, C)
      /\ old.id = id
      /\ old.current_term \in Nat
  BY TypedFacts DEF IsNode, IsRecord
<1>4. Plain(old) /\ Silent(old)
  BY NoActionsPlain DEF MatchInv, Idle, Plain
<1>5. Come(id, {})
  BY DEF Come
<1> HIDE DEF old
<1>6. ASSUME NEW p \in net, p.to = id, p.msg.type # "InstallSnapshot",
             nd = HandleMessage(old, p.msg)
      PROVE  Come(id, {p.msg}) /\ Deed(V, old, nd, {p.msg}, C)
  <2>1. IsMessage(p.msg) /\ MessageOK(p.msg, C)
    BY <1>6 DEF Typed, Durable, PacketsDurable, PacketOK
  <2>2. Sound(nd, C)
    BY <1>1, <1>6, ReceivedTurns, TurnsEvolves DEF old
  <2>3. p.msg.type = "AppendEntriesCall" => \A e \in Edges(p.msg.entries) : TermsStep(e)
    BY KnownHolds DEF MatchInv, EdgesLed
  <2>4. Deed(V, old, HandleMessage(old, p.msg), {p.msg}, C)
    BY <1>2, <1>3, <1>4, <1>6, <2>1, <2>2, <2>3, HandleMessageDeed
  <2> QED
    BY <1>6, <2>4 DEF Come
<1>7. ASSUME NEW voters \in Creations, CanCreate(old, voters), nd = Created(old, voters)
      PROVE  Deed(V, old, nd, {}, C)
  <2>1. voters = V /\ V \in Creations
    BY DEF VotersFixed
  <2>2. [EmptyConfig EXCEPT !.voters = V] \in C
    BY <1>1, <2>1 DEF Covering
  <2>3. Deed(V, old, Created(old, V), {}, C)
    BY <1>2, <1>3, <1>4, <1>7, <2>1, <2>2, CreatedDeed
  <2> QED
    BY <1>7, <2>1, <2>3
<1>8. ASSUME old.role = "Leader", NEW e \in Entry(C), e.term = old.current_term,
             nd = Propose(old, e)
      PROVE  Deed(V, old, nd, {}, C)
  BY <1>2, <1>3, <1>4, <1>8, ProposeCallDeed
<1>9. LET e == CommandEntry(old.current_term) IN e \in Entry(C) /\ e.term = old.current_term
  BY <1>3 DEF CommandEntry, Entry
<1>10. ASSUME NEW c \in ConfigChanges(Config(old)), old.role = "Leader",
             c.voters = Config(old).voters, c.non_voters \cap UniqueVoters(c) = {}
       PROVE  LET e == ConfigEntry(old.current_term, c) IN
              e \in Entry(C) /\ e.term = old.current_term
  <2>1. Config(old) \in C
    BY <1>3, <1>10, ConfigOfLeader
  <2>2. c \in C
    BY <1>1, <1>10, <2>1 DEF Covering
  <2> QED
    BY <1>3, <2>2 DEF ConfigEntry, Entry
<1>11. ASSUME old.role = "Leader", nd = Heartbeat(old)
       PROVE  Deed(V, old, nd, {}, C)
  BY <1>3, <1>4, <1>11, HeartbeatCallDeed
<1>12. ASSUME IsVoter(Config(old), id), nd = TransitionToCandidate(old)
       PROVE  Deed(V, old, nd, {}, C)
  <2>1. Base(V, old, old)
    BY <1>4 DEF Base, Trail, Plain
  <2>2. old.current_term = old.current_term /\ IsVoter(Config(old), old.id)
    BY <1>3, <1>12
  <2>3. Deed(V, old, TransitionToCandidate(old), {}, C)
    BY <1>2, <1>3, <1>4, <2>1, <2>2, ElectionCallDeed
  <2> QED
    BY <1>12, <2>3
<1>13. \E H : Come(id, H) /\ Deed(V, old, nd, H, C)
  BY <1>5, <1>6, <1>7, <1>8, <1>9, <1>10, <1>11, <1>12 DEF Calls, old
<1> QED
  BY <1>13 DEF old

-----------------------------------------------------------------------------
(* A log and its stored copy. *)

LEMMA BackedFacts ==
  ASSUME NEW C, NEW G, Tree(G, C), NEW es \in Entries(C), Backed(G, es)
  PROVE  /\ \A p : Contains(es, p) => OnTree(G, p) /\ Before(G, p, LastPosition(es))
         /\ \A p, q : Contains(es, q) /\ Before(G, p, q) /\ es.prev.index <= p.index
                        => Contains(es, p)
         /\ OnTree(G, LastPosition(es))
         /\ \A g \in G : Contains(g, LastPosition(es)) => PartOf(es, g)
<1>1. PICK g \in G : PartOf(es, g)
  BY DEF Backed
<1>2. /\ g \in Entries(C) /\ g.prev = ZERO
      /\ g.prev.index <= es.prev.index
  BY EntriesFacts DEF Tree, ZERO, Pos
<1>3. /\ \A p : Contains(es, p) => Contains(g, p)
      /\ \A p : Contains(g, p) /\ ContainsIndex(es, p.index) => Contains(es, p)
      /\ Contains(g, LastPosition(es))
  BY <1>1, <1>2, PartFacts
<1>4. LastPosition(es).index = LastIndex(es) /\ LastIndex(es) \in Nat /\ es.prev.index \in Nat
  BY LastPositionTyped, EntriesFacts
<1>5. ASSUME NEW p, Contains(es, p)
      PROVE  OnTree(G, p) /\ Before(G, p, LastPosition(es))
  <2>1. p.index <= LastIndex(es)
    BY <1>5, TermAtTyped DEF Contains
  <2> QED
    BY <1>3, <1>4, <1>5, <2>1 DEF OnTree, Before
<1>6. ASSUME NEW p, NEW q, Contains(es, q), Before(G, p, q), es.prev.index <= p.index
      PROVE  Contains(es, p)
  <2>1. Contains(g, q)
    BY <1>3, <1>6
  <2>2. Contains(g, p)
    BY <1>6, <2>1, BeforeContained
  <2>3. p.index \in Nat /\ p.index <= q.index /\ q.index \in Nat
    BY <1>6, BeforeFacts
  <2>4. q.index <= LastIndex(es)
    BY <1>6, TermAtTyped DEF Contains
  <2>5. ContainsIndex(es, p.index)
    BY <1>4, <1>6, <2>3, <2>4 DEF ContainsIndex
  <2> QED
    BY <1>3, <2>2, <2>5
<1>7. \A h \in G : Contains(h, LastPosition(es)) => PartOf(es, h)
  BY <1>1, PartMoved
<1> QED
  BY <1>3, <1>5, <1>6, <1>7 DEF OnTree

\* Storage has what the log has.
LEMMA StoredContains ==
  ASSUME NEW C, NEW G, Tree(G, C), NEW es \in Entries(C), NEW ds \in Entries(C),
         LogsSafe(G, es, ds), NEW p, Contains(es, p)
  PROVE  Contains(ds, p)
<1>1. Before(G, p, LastPosition(es))
  BY BackedFacts DEF LogsSafe
<1>2. ds.prev.index <= p.index
  BY TermAtTyped DEF LogsSafe, Contains
<1> QED
  BY <1>1, <1>2, BackedFacts DEF LogsSafe

\* The log loses its end, and nothing is stored.
LEMMA StoreKeeps ==
  ASSUME NEW C, NEW G, Tree(G, C), NEW es \in Entries(C), NEW ds \in Entries(C),
         LogsSafe(G, es, ds), NEW e2 \in Entries(C), PartOf(e2, es), e2.prev = es.prev
  PROVE  LogsSafe(G, e2, ds)
<1>1. PICK g \in G : PartOf(es, g)
  BY DEF LogsSafe, Backed
<1>2. g \in Entries(C) /\ g.prev.index <= es.prev.index /\ es.prev.index <= e2.prev.index
  BY EntriesFacts DEF Tree, ZERO, Pos
<1>3. PartOf(e2, g)
  BY <1>1, <1>2, PartWithin
<1>4. Contains(es, LastPosition(e2))
  BY <1>2, PartFacts
<1>5. Contains(ds, LastPosition(e2))
  BY <1>4, StoredContains
<1> QED
  BY <1>3, <1>5 DEF LogsSafe, Backed

\* What is written takes storage to the log.
LEMMA StoreAppends ==
  ASSUME NEW C, NEW G, Tree(G, C), NEW es \in Entries(C), NEW ds \in Entries(C),
         LogsSafe(G, es, ds), NEW e2 \in Entries(C), Backed(G, e2), e2.prev = es.prev,
         NEW w \in Entries(C), Contains(es, w.prev), PartOf(w, e2),
         LastPosition(w) = LastPosition(e2), e2.prev.index <= w.prev.index
  PROVE  LogsSafe(G, e2, AppendSuffix(ds, w)) /\ AppendSuffix(ds, w) \in Entries(C)
<1> DEFINE d2 == AppendUnchecked(ds, w)
<1>1. Contains(ds, w.prev)
  BY StoredContains
<1>2. AppendSuffix(ds, w) = d2
  BY <1>1 DEF AppendSuffix
<1>3. PICK h \in G : PartOf(ds, h)
  BY DEF LogsSafe, Backed
<1>4. PICK g \in G : PartOf(e2, g)
  BY DEF Backed
<1>5. g \in Entries(C) /\ g.prev.index <= e2.prev.index
  BY EntriesFacts DEF Tree, ZERO, Pos
<1>6. PartOf(w, g)
  BY <1>4, <1>5, PartWithin
<1>7. /\ PartOf(d2, g)
      /\ d2 \in Entries(C)
      /\ d2.prev = ds.prev
      /\ LastPosition(d2) = LastPosition(w)
  BY <1>1, <1>3, <1>6, AppendIsPart
<1> HIDE DEF d2
<1>8. Contains(d2, LastPosition(e2))
  BY <1>7, LastPositionTyped
<1> QED
  BY <1>2, <1>7, <1>8 DEF LogsSafe, Backed

-----------------------------------------------------------------------------
(* The log of a follower that has heard its leader, whose log reaches to l. *)

\* What is before the end of a log of earlier terms, and not void, is on the leader's line.
LEMMA OnLine ==
  ASSUME NEW C, NEW G, Tree(G, C), NEW U, Lined(G, U), NEW p, NEW l, OnTree(G, l),
         p.term <= l.term, NEW r, Before(G, r, p), Pos(r.term, r.index) \notin U
  PROVE  Before(G, r, l) \/ Before(G, l, r)
<1>1. /\ r.term \in Nat /\ p.term \in Nat /\ r.term <= p.term /\ OnTree(G, r)
  BY BeforeFacts
<1>2. l.term \in Nat
  BY OnTreeTyped
<1>3. CASE r.term < l.term
  BY <1>1, <1>3 DEF Lined, Kept
<1>4. CASE r.term = l.term
  BY <1>1, <1>4, OneTermLine
<1> QED
  BY <1>1, <1>2, <1>3, <1>4

\* A position on the line that the log has left is past what is committed.
LEMMA LeftAfter ==
  ASSUME NEW C, NEW G, Tree(G, C), NEW e, NEW l, Before(G, e, l), NEW p, ~Before(G, e, p),
         NEW q, Before(G, q, p), Before(G, q, l) \/ Before(G, l, q)
  PROVE  q.index < e.index /\ Before(G, q, e)
<1>1. ~Before(G, l, q)
  <2> SUFFICES ASSUME Before(G, l, q) PROVE FALSE
    OBVIOUS
  <2>1. Before(G, e, q)
    BY BeforeTransitive
  <2> QED
    BY <2>1, BeforeTransitive
<1>2. Before(G, q, l)
  BY <1>1
<1>3. q.index \in Nat /\ e.index \in Nat
  BY BeforeFacts
<1>4. ~Before(G, e, q)
  BY BeforeTransitive
<1>5. ~(e.index <= q.index)
  BY <1>2, <1>4, BeforeLinear
<1>6. q.index <= e.index /\ q.index < e.index
  BY <1>3, <1>5
<1> QED
  BY <1>2, <1>6, BeforeLinear

\* The log a becomes b, and keeps what it kept and what is committed up to index c.
Follows(G, U, a, b, c) ==
  /\ Backed(G, b)
  /\ b.prev = a.prev
  /\ \A r : Kept(G, U, r, LastPosition(a)) => Kept(G, U, r, LastPosition(b))
  /\ ContainsIndex(b, c)
  /\ Spot(b, c) = Spot(a, c)

LEMMA TakenFollows ==
  ASSUME NEW C, NEW G, NEW U, NEW X, Lawful(C, G, U, X), NEW nd, Sound(nd, C),
         Backed(G, nd.log.entries), CommitSafe(G, X, nd), NEW l, OnTree(G, l),
         LastPosition(nd.log.entries).term <= l.term, nd.current_term <= l.term,
         NEW es \in Entries(C), Before(G, LastPosition(es), l), Backed(G, es),
         NEW nd2, Taken(nd, nd2, es, C)
  PROVE  Follows(G, U, nd.log.entries, nd2.log.entries, nd.commit_index)
<1> DEFINE a == nd.log.entries
           b == nd2.log.entries
           c == nd.commit_index
           q == Spot(a, c)
           p == LastPosition(a)
           e == LastPosition(es)
<1>1. a \in Entries(C) /\ nd.current_term \in Nat
  BY SoundLog DEF Sound, IsNode, IsRecord
<1>2. PICK w \in Entries(C) :
        /\ PartOf(w, es)
        /\ es.prev.index <= w.prev.index
        /\ Contains(a, w.prev)
        /\ LastPosition(w) = e
        /\ b = AppendUnchecked(a, w)
  BY DEF Taken
<1>3. Contains(a, es.prev) /\ ~Contains(a, e)
  BY DEF Taken
<1>4. Tree(G, C) /\ Lined(G, U)
  BY DEF Lawful
<1>5. PICK g \in G : PartOf(es, g)
  BY DEF Backed
<1>6. g \in Entries(C) /\ g.prev.index <= es.prev.index
  BY <1>4, EntriesFacts DEF Tree, ZERO, Pos
<1>7. PartOf(w, g)
  BY <1>2, <1>5, <1>6, PartWithin
<1>8. PICK h \in G : PartOf(a, h)
  BY DEF Backed
<1>9. /\ PartOf(b, g)
      /\ b \in Entries(C)
      /\ b.prev = a.prev
      /\ LastPosition(b) = e
  BY <1>1, <1>2, <1>4, <1>7, <1>8, AppendIsPart
<1> HIDE DEF b
<1>10. ~Before(G, e, p)
  <2>1. Contains(a, p)
    BY <1>1, LastPositionTyped
  <2>2. a.prev.index <= es.prev.index
    BY <1>1, <1>3, TermAtTyped DEF Contains
  <2>3. es.prev.index \in Nat /\ e.index \in Nat /\ es.prev.index <= e.index /\ a.prev.index \in Nat
    BY <1>1, EntriesFacts, LastPositionTyped
  <2>4. a.prev.index <= e.index
    BY <2>2, <2>3
  <2> HIDE DEF a, e, p
  <2> QED
    BY <1>1, <1>3, <1>4, <2>1, <2>4, BackedFacts DEF a
<1>11. ASSUME NEW r, Kept(G, U, r, p) PROVE Kept(G, U, r, e)
  <2>1. CASE Pos(r.term, r.index) \in U
    BY <2>1 DEF Kept
  <2>2. CASE Pos(r.term, r.index) \notin U
    <3>1. Before(G, r, p)
      BY <1>11, <2>2 DEF Kept
    <3> HIDE DEF p, e
    <3>2. Before(G, r, l) \/ Before(G, l, r)
      BY <1>4, <2>2, <3>1, OnLine DEF p
    <3>3. Before(G, r, e)
      BY <1>4, <1>10, <3>1, <3>2, AppendFollows DEF e
    <3> QED
      BY <3>3 DEF Kept
  <2> QED
    BY <2>1, <2>2
<1>12. /\ Contains(a, q) /\ q.index = c /\ q.term = TermAt(a, c)
       /\ Before(G, q, p)
  <2>1. Contains(a, q)
    BY DEF CommitSafe, Contains, Spot, Pos
  <2> QED
    BY <1>1, <1>4, <2>1, BackedFacts DEF Spot, Pos
<1>13. Before(G, q, l) \/ Before(G, l, q)
  <2>1. Decided(G, X, q, nd.current_term)
    BY DEF CommitSafe
  <2> QED
    BY <1>1, <2>1, DecidedMeets
<1>14. q.index < e.index /\ Before(G, q, e)
  <2> HIDE DEF q, p, e
  <2> QED
    BY <1>4, <1>10, <1>12, <1>13, LeftAfter DEF e
<1>15. Contains(b, q)
  <2>1. Contains(b, e)
    BY <1>9, LastPositionTyped
  <2>2. b.prev.index <= q.index
    BY <1>1, <1>9, <1>12, TermAtTyped DEF Contains
  <2>3. Backed(G, b)
    BY <1>9 DEF Backed
  <2> QED
    BY <1>4, <1>9, <1>14, <2>1, <2>2, <2>3, BackedFacts
<1>16. ContainsIndex(b, c) /\ Spot(b, c) = q
  BY <1>12, <1>15 DEF Contains, Spot
<1> QED
  BY <1>9, <1>11, <1>16 DEF Follows, Backed, b

LEMMA CutBackFollows ==
  ASSUME NEW C, NEW G, NEW U, NEW X, Lawful(C, G, U, X), NEW nd, Sound(nd, C),
         Backed(G, nd.log.entries), CommitSafe(G, X, nd), NEW l, OnTree(G, l),
         LastPosition(nd.log.entries).term <= l.term, nd.current_term <= l.term,
         NEW es, Before(G, es.prev, l), NEW nd2, Cut(nd, nd2, es)
  PROVE  /\ Follows(G, U, nd.log.entries, nd2.log.entries, nd.commit_index)
         /\ PartOf(nd2.log.entries, nd.log.entries)
<1> DEFINE a == nd.log.entries
           b == nd2.log.entries
           c == nd.commit_index
           q == Spot(a, c)
           p == LastPosition(a)
           e == es.prev
           n == e.index - a.prev.index - 1
           p2 == LastPosition(b)
<1>1. a \in Entries(C) /\ nd.current_term \in Nat
  BY SoundLog DEF Sound, IsNode, IsRecord
<1>2. /\ a.prev.index < e.index
      /\ ContainsIndex(a, e.index)
      /\ ~Contains(a, e)
      /\ b = Truncate(a, n)
  BY DEF Cut
<1>3. Tree(G, C) /\ Lined(G, U)
  BY DEF Lawful
<1>4. /\ a.prev.index \in Nat /\ LastIndex(a) \in Nat /\ Len(a.ents) \in Nat
      /\ LastIndex(a) = a.prev.index + Len(a.ents)
      /\ e.index \in Nat /\ e.index <= LastIndex(a)
  BY <1>1, <1>2, EntriesFacts, TermAtTyped
<1>5. n \in Int /\ n \in 0 .. Len(a.ents) /\ a.prev.index + n + 1 = e.index
  BY <1>2, <1>4
<1> HIDE DEF n
<1>6. /\ PartOf(b, a)
      /\ b \in Entries(C)
      /\ b.prev = a.prev
      /\ LastIndex(b) = a.prev.index + n
  BY <1>1, <1>2, <1>5, TruncateIsPart
<1> HIDE DEF b
<1>7. Backed(G, b)
  <2>1. PICK h \in G : PartOf(a, h)
    BY DEF Backed
  <2>2. h \in Entries(C) /\ h.prev.index <= a.prev.index /\ a.prev.index <= b.prev.index
    BY <1>1, <1>3, <1>4, <1>6, EntriesFacts DEF Tree, ZERO, Pos
  <2>3. PartOf(b, h)
    BY <1>1, <1>6, <2>1, <2>2, PartWithin
  <2> QED
    BY <2>3 DEF Backed
<1>8. p2.index + 1 = e.index /\ p2.index \in Nat
  BY <1>4, <1>5, <1>6, LastPositionTyped
<1>9. Before(G, p2, p)
  <2>1. a.prev.index <= b.prev.index
    BY <1>4, <1>6
  <2>2. Contains(b, p2)
    BY <1>6, LastPositionTyped
  <2>3. Contains(a, p2)
    BY <1>1, <1>6, <2>1, <2>2, PartFacts
  <2> QED
    BY <1>1, <1>3, <2>3, BackedFacts
<1>10. ~Before(G, e, p)
  <2>1. Contains(a, p)
    BY <1>1, LastPositionTyped
  <2>2. a.prev.index <= e.index
    BY <1>2, <1>4
  <2> HIDE DEF a, e, p
  <2> QED
    BY <1>1, <1>2, <1>3, <2>1, <2>2, BackedFacts DEF a
<1>11. ASSUME NEW r, Kept(G, U, r, p) PROVE Kept(G, U, r, p2)
  <2>1. CASE Pos(r.term, r.index) \in U
    BY <2>1 DEF Kept
  <2>2. CASE Pos(r.term, r.index) \notin U
    <3>1. Before(G, r, p)
      BY <1>11, <2>2 DEF Kept
    <3> HIDE DEF p, e, p2
    <3>2. Before(G, r, l) \/ Before(G, l, r)
      BY <1>3, <2>2, <3>1, OnLine DEF p
    <3>3. Before(G, e, l)
      BY DEF e
    <3>4. Before(G, r, p2)
      BY <1>3, <1>8, <1>9, <1>10, <3>1, <3>2, <3>3, CutFollows
    <3> QED
      BY <3>4 DEF Kept
  <2> QED
    BY <2>1, <2>2
<1>12. /\ Contains(a, q) /\ q.index = c /\ q.term = TermAt(a, c)
       /\ Before(G, q, p)
  <2>1. Contains(a, q)
    BY DEF CommitSafe, Contains, Spot, Pos
  <2> QED
    BY <1>1, <1>3, <2>1, BackedFacts DEF Spot, Pos
<1>13. Before(G, q, l) \/ Before(G, l, q)
  <2>1. Decided(G, X, q, nd.current_term)
    BY DEF CommitSafe
  <2> QED
    BY <1>1, <2>1, DecidedMeets
<1>14. q.index < e.index
  <2>1. Before(G, e, l)
    BY DEF e
  <2> HIDE DEF q, p, e
  <2> QED
    BY <1>3, <1>10, <1>12, <1>13, <2>1, LeftAfter
<1>15. Contains(b, q)
  <2>1. a.prev.index <= q.index /\ q.index \in Nat
    BY <1>1, <1>12, TermAtTyped DEF Contains
  <2>2. q.index <= p2.index
    BY <1>8, <1>14, <2>1
  <2>3. LastIndex(b) = p2.index
    BY <1>6, LastPositionTyped
  <2>4. b.prev.index \in Nat /\ LastIndex(b) \in Nat
    BY <1>6, EntriesFacts
  <2>5. b.prev.index <= q.index /\ q.index <= LastIndex(b)
    BY <1>6, <2>1, <2>2, <2>3
  <2> HIDE DEF q, p2
  <2>6. ContainsIndex(b, q.index)
    BY <2>1, <2>4, <2>5 DEF ContainsIndex
  <2>7. q.index \in b.prev.index .. LastIndex(b)
    BY <2>6 DEF ContainsIndex
  <2>8. a.prev.index <= b.prev.index
    BY <1>4, <1>6
  <2>9. TermAt(b, q.index) = TermAt(a, q.index)
    BY <1>1, <1>6, <2>7, <2>8, PartFacts
  <2> QED
    BY <1>12, <2>6, <2>9 DEF Contains
<1>16. ContainsIndex(b, c) /\ Spot(b, c) = q
  BY <1>12, <1>15 DEF Contains, Spot
<1> QED
  BY <1>6, <1>7, <1>11, <1>16 DEF Follows, b

-----------------------------------------------------------------------------
(* A call of one node. *)

\* No other node has led the term.
Alone(nd) ==
  nd.role = "Leader" => \A d : <<nd.current_term, d>> \in elected => d = nd.id

\* A call takes node x to nd; H are the messages that it hands over.
Acting(V, G, A, x, nd, H) ==
  /\ VotersFixed(V)
  /\ V # {}
  /\ Typed(FixedConfigs(V))
  /\ FixedInv(V)
  /\ MatchInv
  /\ SafeInv(V, G, A)
  /\ x \in NodeId
  /\ Turns(x, nd, FixedConfigs(V))
  /\ Alone(nd)
  /\ nd.role = "Leader" => Ripe(nd)
  /\ Deed(V, node[x], nd, H, FixedConfigs(V))
  /\ Come(x, H)

LEMMA ActingTyped ==
  ASSUME NEW V, NEW G, NEW A, NEW x, NEW nd, NEW H, Acting(V, G, A, x, nd, H),
         NEW C, C = FixedConfigs(V)
  PROVE  LET a == node[x] IN
         /\ x \in NodeId
         /\ IsFiniteSet(V)
         /\ Typed(C)
         /\ Sound(a, C) /\ Sound(nd, C)
         /\ a.id = x /\ nd.id = x
         /\ a.current_term \in Nat /\ nd.current_term \in Nat
         /\ a.current_term <= nd.current_term
         /\ a.log.entries \in Entries(C)
         /\ nd.log.entries \in Entries(C)
         /\ stored[x].log \in Logs(C)
         /\ stored[x].log.entries \in Entries(C)
         /\ LastPosition(a.log.entries).term <= a.current_term
<1>1. /\ x \in NodeId /\ IsFiniteSet(V) /\ Typed(C) /\ MatchInv /\ Turns(x, nd, C)
  BY DEF Acting, VotersFixed
<1>2. Sound(nd, C) /\ Evolves(node[x], nd)
  BY <1>1, TurnsEvolves
<1>3. Sound(node[x], C) /\ IsNode(node[x]) /\ node[x].id = x /\ stored[x].log \in Logs(C)
  BY <1>1, TypedFacts
<1>4. node[x].log.entries \in Entries(C) /\ nd.log.entries \in Entries(C)
  BY <1>2, <1>3, SoundLog
<1>5. stored[x].log.entries \in Entries(C)
  BY <1>3, LogFacts
<1>6. /\ nd.id = x
      /\ node[x].current_term \in Nat /\ nd.current_term \in Nat
      /\ node[x].current_term <= nd.current_term
  BY <1>2, <1>3 DEF Evolves, Sound, IsNode, IsRecord
<1>7. LastPosition(node[x].log.entries).term <= node[x].current_term
  BY <1>1, NodeReady DEF Ready
<1> HIDE DEF Acting
<1> QED
  BY <1>1, <1>2, <1>3, <1>4, <1>5, <1>6, <1>7

LEMMA ActingSafe ==
  ASSUME NEW V, NEW G, NEW A, NEW x, NEW nd, NEW H, Acting(V, G, A, x, nd, H),
         NEW C, C = FixedConfigs(V)
  PROVE  LET U == Voided(V, A, Now)
             X == Chosen(V, A)
         IN  /\ Lawful(C, G, U, X)
             /\ Tree(G, C)
             /\ Lined(G, U)
             /\ TreeLed(G)
             /\ AcksOK(G, A, Now)
             /\ FoundingLogs \subseteq G
             /\ NodeSafe(G, A, U, X, x, node[x], stored[x])
             /\ OnTree(G, LastPosition(node[x].log.entries))
<1> DEFINE U == Voided(V, A, Now)
           X == Chosen(V, A)
<1>1. SafeNow(V, G, A, U, X)
  BY DEF Acting, SafeInv
<1>2. IsFiniteSet(V) /\ V # {} /\ x \in NodeId /\ node[x].log.entries \in Entries(C)
  BY ActingTyped DEF Acting
<1>3. X \cap U = {}
  BY <1>2, ChosenNotVoided
<1>4. X \subseteq Position
  BY DEF Chosen
<1> HIDE DEF U, X
<1>5. /\ Tree(G, C)
      /\ Lined(G, U)
      /\ TreeLed(G)
      /\ AcksOK(G, A, Now)
      /\ FoundingLogs \subseteq G
      /\ NodeSafe(G, A, U, X, x, node[x], stored[x])
  BY <1>1, <1>2 DEF SafeNow
<1>6. Backed(G, node[x].log.entries)
  BY <1>5 DEF NodeSafe, LogsSafe
<1>7. OnTree(G, LastPosition(node[x].log.entries))
  BY <1>2, <1>5, <1>6, BackedFacts
<1>8. Lawful(C, G, U, X)
  BY <1>3, <1>4, <1>5 DEF Lawful
<1> QED
  BY <1>5, <1>7, <1>8 DEF U, X

\* A leader's log ends after everything of its term.
LEMMA LeaderBase ==
  ASSUME NEW V, NEW G, NEW A, NEW x, NEW nd, NEW H, Acting(V, G, A, x, nd, H),
         nd.role = "Leader", NEW p, OnTree(G, p), p.term = nd.current_term
  PROVE  Before(G, p, LastPosition(node[x].log.entries))
<1> DEFINE C == FixedConfigs(V)
           t == nd.current_term
           last == LastPosition(node[x].log.entries)
<1>1. /\ x \in NodeId /\ Typed(C) /\ Sound(node[x], C) /\ nd.id = x
      /\ node[x].current_term \in Nat /\ t \in Nat /\ node[x].current_term <= t
      /\ node[x].log.entries \in Entries(C)
  BY ActingTyped
<1>2. Tree(G, C) /\ TreeLed(G) /\ OnTree(G, last)
  BY ActingSafe
<1>3. Turns(x, nd, C) /\ Alone(nd) /\ MatchInv
  BY DEF Acting
<1>4. \/ node[x].role # "Follower" /\ t = node[x].current_term
      \/ t > node[x].current_term
  BY <1>1, <1>3, TurnsRole
<1>5. t > 0
  BY <1>1, <1>3, <1>4 DEF MatchInv, LeadersRipe
<1>6. <<t, p.index>> \in Led
  BY <1>2 DEF TreeLed
<1>7. PICK d \in NodeId : <<t, d>> \in elected /\ Ahead(node[d], t, p.index)
  <2> DEFINE q == <<t, p.index>>
  <2>1. q \in Led /\ q[1] = t /\ q[2] = p.index
    BY <1>6
  <2>2. \/ q[1] = 0
        \/ \E d \in NodeId : <<q[1], d>> \in elected /\ Ahead(node[d], q[1], q[2])
    BY <2>1 DEF Led
  <2> QED
    BY <1>5, <2>1, <2>2
<1>8. d = x
  BY <1>1, <1>3, <1>7 DEF Alone
<1>9. node[x].role = "Leader" /\ node[x].current_term = t /\ p.index <= LastIndex(node[x].log.entries)
  BY <1>1, <1>4, <1>7, <1>8 DEF Ahead, Settled, Sound
<1>10. last.term = t
  BY <1>1, <1>3, <1>9 DEF MatchInv, LeadersRipe, Ripe
<1>11. last.index = LastIndex(node[x].log.entries)
  BY <1>1, LastPositionTyped
<1> QED
  BY <1>2, <1>9, <1>10, <1>11, OneTermLine

\* It keeps what may have been chosen before.
LEMMA LeaderInherits ==
  ASSUME NEW V, NEW G, NEW A, NEW x, NEW nd, NEW H, Acting(V, G, A, x, nd, H),
         nd.role = "Leader", NEW A2, NEW T2, Later(x, A, Now, A2, T2),
         T2 = [Now EXCEPT ![x] = nd.current_term],
         NEW r, OnTree(G, r), r.term < nd.current_term
  PROVE  Kept(G, Voided(V, A2, T2), r, LastPosition(node[x].log.entries))
<1> DEFINE C == FixedConfigs(V)
           t == nd.current_term
           last == LastPosition(node[x].log.entries)
           U == Voided(V, A, Now)
           X == Chosen(V, A)
           U2 == Voided(V, A2, T2)
           X2 == Chosen(V, A2)
<1>1. /\ x \in NodeId /\ Typed(C) /\ Sound(node[x], C) /\ nd.id = x /\ IsFiniteSet(V)
      /\ node[x].current_term \in Nat /\ t \in Nat /\ node[x].current_term <= t
  BY ActingTyped
<1>2. /\ Tree(G, C) /\ Lined(G, U) /\ OnTree(G, last)
      /\ NodeSafe(G, A, U, X, x, node[x], stored[x])
  BY ActingSafe
<1>3. /\ VotersFixed(V) /\ V # {} /\ MatchInv /\ FixedInv(V) /\ Turns(x, nd, C)
      /\ SafeNow(V, G, A, U, X)
  BY DEF Acting, SafeInv
<1>4. Widens(C, G, U, X, G, U2, X2)
  BY <1>1, <1>2, VoidedLater DEF Widens
<1>5. PICK W \in SUBSET (node[x].granted_votes \cup Votes(x)) :
        LeadsRightly(node[x], nd, C, W)
  BY <1>3 DEF Turns, Outcome
<1>6. T2[x] = t /\ \A w \in NodeId : w # x => T2[w] = node[w].current_term
  BY <1>1 DEF Now
<1>7. \A w, q : Kept(G, U, q, last) => Kept(G, U2, q, last)
  BY <1>4, KeptWidens
<1>8. \A q : OnTree(G, q) /\ Acked(A, x, q) => Kept(G, U2, q, last)
  BY <1>2, <1>7 DEF NodeSafe, Keeper
<1>9. ASSUME NEW Q \in SUBSET V, HasMajority(Q, V),
             \A w \in Q : /\ w \in NodeId /\ T2[w] >= t
                          /\ \A q : OnTree(G, q) /\ q.term < t /\ Acked(A, w, q)
                                      => Kept(G, U2, q, last)
      PROVE  Kept(G, U2, r, last)
  <2>1. Voided(V, A2, T2) \subseteq U2
    OBVIOUS
  <2> HIDE DEF U2, last, t
  <2>2. t \in Nat /\ r.term < t
    BY <1>1 DEF t
  <2>3. \A q : OnTree(G, q) /\ q.term < t => Kept(G, U2, q, last)
    BY <1>1, <1>2, <1>9, <2>1, <2>2, LeaderKeeps
  <2> QED
    BY <2>2, <2>3
<1>10. CASE node[x].role = "Leader" /\ nd.current_term = node[x].current_term
  <2>1. last.term = t
    BY <1>1, <1>3, <1>10 DEF MatchInv, LeadersRipe, Ripe
  <2>2. Kept(G, U, r, last)
    BY <1>2, <2>1 DEF Lined
  <2> QED
    BY <1>7, <2>2
<1>11. CASE Solo(node[x].id, C) /\ node[x].current_term < nd.current_term
  <2>1. V = {x}
    <3>1. node[x].id = x
      BY <1>1, TypedFacts
    <3> QED
      <4>1. Solo(x, C) => V = {x}
        BY <1>3, FixedFacts
      <4> QED
        BY <1>11, <3>1, <4>1
  <2>2. HasMajority({x}, V)
    <3>1. {x} \cap {x} = {x} /\ Cardinality({x}) = 1
      BY FS_Singleton
    <3>2. Majority(V) = 1
      BY <2>1, <3>1 DEF Majority
    <3> QED
      BY <2>1, <3>1, <3>2 DEF HasMajority
  <2>3. T2[x] >= t
    BY <1>1, <1>6
  <2>4. {x} \in SUBSET V
    BY <2>1
  <2> HIDE DEF U2, last, t, C
  <2>5. \A w \in {x} : /\ w \in NodeId /\ T2[w] >= t
                      /\ \A q : OnTree(G, q) /\ q.term < t /\ Acked(A, w, q)
                                  => Kept(G, U2, q, last)
    BY <1>1, <1>8, <2>3
  <2>6. Kept(G, U2, r, last)
    BY <1>9, <2>2, <2>4, <2>5
  <2> QED
    BY <2>6 DEF U2, last
<1>12. CASE /\ node[x].role = "Candidate"
            /\ nd.current_term = node[x].current_term
            /\ \E c \in C : Wins(W, c)
  <2> DEFINE Q == W \cap V
  <2>1. HasMajority(Q, V)
    <3>1. Cardinality(W \cap V) >= Majority(V)
      BY <1>3, <1>12, FixedFacts
    <3>2. Q \cap V = W \cap V
      OBVIOUS
    <3> QED
      BY <3>1, <3>2 DEF HasMajority
  <2>2. CandidateSafe(V, G, A, U, x)
    BY <1>1, <1>3, <1>12 DEF SafeNow
  <2>3. ASSUME NEW w \in Q
        PROVE  /\ w \in NodeId /\ T2[w] >= t
               /\ \A q : OnTree(G, q) /\ q.term < t /\ Acked(A, w, q) => Kept(G, U2, q, last)
    <3>1. CASE w = x
      <4>1. x \in NodeId /\ T2[x] >= t
        BY <1>1, <1>6
      <4> HIDE DEF U2, last, t, C, Q
      <4> QED
        BY <1>8, <3>1, <4>1
    <3>2. CASE w # x
      <4>1. Granted(w, t, x)
        <5>1. CASE w \in node[x].granted_votes
          BY <1>12, <5>1 DEF Granted
        <5>2. CASE w \in Votes(x)
          BY <1>12, <5>2 DEF Granted, Votes
        <5> QED
          BY <5>1, <5>2
      <4>2. Voted(w, t, x)
        BY <3>2, <4>1 DEF Voted
      <4>3. w \in NodeId /\ Loyal(node[w], t, Pledge(t, x))
        BY <1>1, <1>3, <4>2 DEF FixedInv, VotesPledged
      <4>4. node[w].current_term \in Nat
        BY <1>1, <4>3, TypedFacts DEF IsNode, IsRecord
      <4>5. T2[w] >= t
        BY <1>1, <1>6, <3>2, <4>3, <4>4 DEF Loyal
      <4>6. \A q : OnTree(G, q) /\ q.term < t /\ Acked(A, w, q) => Kept(G, U, q, last)
        BY <1>12, <2>2, <4>1 DEF CandidateSafe
      <4> QED
        BY <1>7, <4>3, <4>5, <4>6
    <3> QED
      BY <3>1, <3>2
  <2> QED
    BY <1>9, <2>1, <2>3
<1> QED
  BY <1>5, <1>10, <1>11, <1>12 DEF LeadsRightly

\* The new positions of the tree H are the leader's.
Reaches(G, H, nd) ==
  \A p : OnTree(H, p) =>
    \/ OnTree(G, p)
    \/ /\ nd.role = "Leader"
       /\ p.term = nd.current_term
       /\ p.index \in Nat
       /\ p.index <= LastIndex(nd.log.entries)

\* The log a becomes b, and keeps what it kept and what it has up to index c.
Continues(G, U, H, U2, a, b, c) ==
  /\ Backed(H, b)
  /\ b.prev = a.prev
  /\ \A r : Kept(G, U, r, LastPosition(a)) => Kept(H, U2, r, LastPosition(b))
  /\ ContainsIndex(a, c) => ContainsIndex(b, c) /\ Spot(b, c) = Spot(a, c)

\* The log from which a leader goes on is on the tree.
LEMMA GrownBase ==
  ASSUME NEW V, NEW G, NEW A, NEW x, NEW nd, NEW H, Acting(V, G, A, x, nd, H),
         NEW a \in Entries(FixedConfigs(V)),
         \/ a = node[x].log.entries
         \/ V \in Creations /\ a = FoundingLog(V) /\ node[x].log.entries = NewEntries(ZERO)
  PROVE  LET es == node[x].log.entries IN
         /\ Backed(G, a)
         /\ a.prev = es.prev
         /\ Before(G, LastPosition(es), LastPosition(a))
         /\ LastIndex(es) <= LastIndex(a)
         /\ \A i \in es.prev.index .. LastIndex(es) : TermAt(a, i) = TermAt(es, i)
         /\ LastPosition(a).term <= nd.current_term
<1> DEFINE C == FixedConfigs(V)
           es == node[x].log.entries
<1>1. /\ es \in Entries(C)
      /\ nd.current_term \in Nat /\ node[x].current_term \in Nat
      /\ node[x].current_term <= nd.current_term
      /\ LastPosition(es).term <= node[x].current_term
      /\ LastPosition(es).term \in Nat
      /\ LastIndex(es) \in Nat
  BY ActingTyped, LastPositionTyped, EntriesFacts DEF Position
<1>2. Tree(G, C) /\ OnTree(G, LastPosition(es)) /\ FoundingLogs \subseteq G
  BY ActingSafe
<1>3. Backed(G, es)
  BY ActingSafe DEF NodeSafe, LogsSafe
<1>4. CASE a = es
  <2>1. Before(G, LastPosition(es), LastPosition(es))
    BY <1>2, BeforeReflexive
  <2> QED
    BY <1>1, <1>3, <1>4, <2>1
<1>5. CASE V \in Creations /\ a = FoundingLog(V) /\ es = NewEntries(ZERO)
  <2>1. a \in G
    BY <1>2, <1>5 DEF FoundingLogs
  <2>2. Backed(G, a)
    BY <2>1, PartSelf DEF Backed
  <2>3. a.prev = ZERO /\ Len(a.ents) = 1 /\ a.ents[1].term = 0
    BY <1>5 DEF FoundingLog, ConfigEntry
  <2>4. LastIndex(a) = 1 /\ TermAt(a, 0) = 0 /\ TermAt(a, 1) = 0
    BY <2>3 DEF LastIndex, TermAt, ZERO, Pos
  <2>5. es.prev = ZERO /\ LastIndex(es) = 0 /\ TermAt(es, 0) = 0 /\ LastPosition(es) = ZERO
    BY <1>5 DEF NewEntries, LastIndex, TermAt, LastPosition, ZERO, Pos
  <2>6. LastPosition(a).term = 0
    BY <2>4 DEF LastPosition, Pos
  <2>7. OnTree(G, LastPosition(a))
    BY <1>2, <2>2, BackedFacts
  <2>8. Before(G, ZERO, LastPosition(a))
    BY <1>2, <2>7, OnTreeTyped
  <2>9. es.prev.index = 0
    BY <2>5 DEF ZERO, Pos
  <2> HIDE DEF es
  <2>10. \A i \in es.prev.index .. LastIndex(es) : TermAt(a, i) = TermAt(es, i)
    BY <2>4, <2>5, <2>9
  <2> QED
    BY <1>1, <2>2, <2>3, <2>4, <2>5, <2>6, <2>8, <2>10 DEF es
<1> QED
  BY <1>4, <1>5

\* A leader's log grows by an entry, and the tree by the leader's log.
LEMMA LeaderBranches ==
  ASSUME NEW V, NEW G, NEW A, NEW x, NEW nd, NEW H, Acting(V, G, A, x, nd, H),
         NEW A2, NEW T2, Later(x, A, Now, A2, T2), T2 = [Now EXCEPT ![x] = nd.current_term],
         NEW C, C = FixedConfigs(V), NEW a \in Entries(C), Backed(G, a),
         Before(G, LastPosition(node[x].log.entries), LastPosition(a)),
         LastPosition(a).term <= nd.current_term,
         nd.role = "Leader", LastIndex(a) > 0,
         NEW e \in Entry(C), e.term = nd.current_term, nd.log.entries = Push(a, e)
  PROVE  LET U2 == Voided(V, A2, T2) IN
         \E g \in G : LET H2 == G \cup {Stitched(g, nd.log.entries)} IN
           /\ Tree(H2, C)
           /\ Lined(H2, U2)
           /\ Reaches(G, H2, nd)
           /\ Backed(H2, nd.log.entries)
           /\ Before(H2, LastPosition(a), LastPosition(nd.log.entries))
<1> DEFINE t == nd.current_term
           b == nd.log.entries
           last == LastPosition(a)
           base == LastPosition(node[x].log.entries)
           U == Voided(V, A, Now)
           U2 == Voided(V, A2, T2)
<1>1. t \in Nat /\ x \in NodeId /\ IsFiniteSet(V) /\ Typed(C)
  BY ActingTyped
<1>2. /\ Tree(G, C) /\ Lined(G, U) /\ TreeLed(G) /\ AcksOK(G, A, Now)
  BY ActingSafe
<1>3. VotersFixed(V) /\ V # {} /\ FixedInv(V)
  BY DEF Acting
<1>4. PICK g \in G : PartOf(a, g)
  BY DEF Backed
<1>5. g \in Entries(C) /\ g.prev = ZERO /\ g.prev.index = 0
  BY <1>2, <1>4 DEF Tree, ZERO, Pos
<1>6. LastIndex(a) \in Nat /\ a.prev.index \in Nat /\ last.index = LastIndex(a) /\ last.term \in Nat
  BY EntriesFacts, LastPositionTyped DEF Position
<1>7. /\ b \in Entries(C) /\ b.prev = a.prev /\ LastIndex(b) = LastIndex(a) + 1
      /\ LastPosition(b) = Pos(t, LastIndex(a) + 1)
      /\ \A i \in a.prev.index + 1 .. LastIndex(a) : EntryAt(b, i) = EntryAt(a, i)
  <2>1. LastIndex(a) = 0 => e.kind = "ClusterConfig"
    BY <1>6
  <2>2. LET s == Push(a, e) IN
        /\ s \in Entries(C) /\ s.prev = a.prev /\ LastIndex(s) = LastIndex(a) + 1
        /\ \A i \in a.prev.index + 1 .. LastIndex(a) : EntryAt(s, i) = EntryAt(a, i)
    BY <2>1, PushTyped
  <2>3. LastPosition(Push(a, e)) = Pos(e.term, LastIndex(a) + 1)
    BY <2>1, PushEdges
  <2> QED
    BY <2>2, <2>3
<1> DEFINE s == Stitched(g, b)
           H2 == G \cup {s}
<1>8. /\ s \in Entries(C) /\ s.prev = ZERO /\ LastIndex(s) = LastIndex(b) /\ PartOf(b, s)
      /\ \A i \in 0 .. LastIndex(a) : TermAt(s, i) = TermAt(g, i)
      /\ \A i \in 1 .. LastIndex(a) : EntryAt(s, i) = EntryAt(g, i)
  <2>1. LastIndex(a) <= LastIndex(b)
    BY <1>6, <1>7
  <2> HIDE DEF b
  <2> QED
    BY <1>4, <1>5, <1>7, <2>1, StitchedFacts
<1> HIDE DEF b, s, last, t
<1>9. s.prev.index = 0 /\ b.prev.index \in Nat /\ a.prev.index = b.prev.index
  BY <1>6, <1>7, <1>8 DEF ZERO, Pos
<1>10. /\ \A i \in b.prev.index .. LastIndex(b) : TermAt(b, i) = TermAt(s, i)
       /\ Contains(s, LastPosition(b))
  <2>1. s.prev.index <= b.prev.index
    BY <1>9
  <2> QED
    BY <1>7, <1>8, <2>1, PartFacts
<1>11. TermAt(s, LastIndex(a) + 1) = t
  <2>1. TermAt(s, LastPosition(b).index) = LastPosition(b).term
    BY <1>10 DEF Contains
  <2> QED
    BY <1>7, <2>1 DEF Pos
<1>12. Contains(g, last)
  <2>1. g.prev.index <= a.prev.index
    BY <1>5, <1>6
  <2> QED
    BY <1>4, <1>5, <2>1, PartFacts DEF last
<1>13. \A p : OnTree(G, p) /\ p.term = t => Before(G, p, last)
  <2> TAKE p
  <2> HAVE OnTree(G, p) /\ p.term = t
  <2>1. Before(G, p, base)
    BY LeaderBase DEF t
  <2>2. Before(G, base, last)
    BY DEF last
  <2> HIDE DEF base
  <2> QED
    BY <1>2, <2>1, <2>2, BeforeTransitive
<1>14. Branches(G, g, s, last, t)
  <2>1. last.index <= LastIndex(s) /\ last.term <= t
    BY <1>6, <1>7, <1>8 DEF last, t
  <2>2. \A i \in last.index + 1 .. LastIndex(s) : TermAt(s, i) = t
    BY <1>6, <1>7, <1>8, <1>11
  <2> QED
    BY <1>6, <1>8, <1>12, <1>13, <2>1, <2>2 DEF Branches
<1>15. /\ Tree(H2, C)
       /\ Contains(s, last)
       /\ \A p : OnTree(H2, p) => \/ OnTree(G, p)
                                  \/ /\ p.term = t /\ Contains(s, p) /\ last.index < p.index
                                     /\ Before(H2, last, p)
  BY <1>1, <1>2, <1>4, <1>8, <1>14, BranchGrows DEF t
<1>16. \A r : OnTree(G, r) /\ r.term < t => Kept(G, U2, r, last)
  <2> TAKE r
  <2> HAVE OnTree(G, r) /\ r.term < t
  <2>1. Kept(G, U2, r, base)
    BY LeaderInherits DEF t
  <2>2. Before(G, base, last)
    BY DEF last
  <2> HIDE DEF base, U2
  <2>3. Before(G, r, base) => Before(G, r, last)
    BY <1>2, <2>2, BeforeTransitive
  <2> QED
    BY <2>1, <2>3 DEF Kept
<1>17. \A i \in Nat : \A p : last.index < i /\ OnTree(G, p) /\ p.term > t => Pos(t, i) \in U2
  <2>1. T2[x] = t
    BY <1>1 DEF t, Now
  <2>2. t \in Nat
    BY <1>1 DEF t
  <2> TAKE i \in Nat
  <2> TAKE p
  <2> HAVE last.index < i /\ OnTree(G, p) /\ p.term > t
  <2> QED
    BY <1>1, <1>2, <1>3, <1>13, <2>1, <2>2, NewIsVoided
<1>18. U \subseteq U2
  BY <1>1, VoidedLater
<1>19. Lined(H2, U2)
  <2>1. t \in Nat
    BY <1>1 DEF t
  <2> HIDE DEF U, U2
  <2> QED
    BY <1>2, <1>4, <1>8, <1>14, <1>16, <1>17, <1>18, <2>1, BranchLined
<1>20. Reaches(G, H2, nd)
  <2>1. \A p : Contains(s, p) => p.index \in Nat /\ p.index <= LastIndex(b)
    BY <1>8, TermAtTyped DEF Contains
  <2> QED
    BY <1>15, <2>1 DEF Reaches, t, b
<1>21. Backed(H2, b)
  BY <1>8 DEF Backed
<1>22. Before(H2, last, LastPosition(b))
  <2>1. last.index <= LastPosition(b).index
    BY <1>6, <1>7 DEF Pos
  <2> QED
    BY <1>10, <1>15, <2>1 DEF Before
<1> QED
  BY <1>4, <1>15, <1>19, <1>20, <1>21, <1>22 DEF s, b, last

\* What the call makes of the tree, of the node's log and of its stored copy.
Extended(V, G, A, x, nd, A2, T2, H) ==
  LET es == node[x].log.entries
      U == Voided(V, A, Now)
      U2 == Voided(V, A2, T2)
  IN  /\ Widens(FixedConfigs(V), G, U, Chosen(V, A), H, U2, Chosen(V, A2))
      /\ Lined(H, U2)
      /\ Reaches(G, H, nd)
      /\ Continues(G, U, H, U2, es, nd.log.entries, node[x].commit_index)
      /\ LogsSafe(H, nd.log.entries, Persist(stored[x], nd, 4).log.entries)

\* What a queued write makes of the stored log.
LEMMA PersistWrites ==
  ASSUME NEW C, NEW d, d.log \in Logs(C), NEW nd
  PROVE  LET ds == Persist(d, nd, 4).log.entries
             writes == nd.actions.append_log_entries
         IN  /\ writes = {} => ds = d.log.entries
             /\ writes # {} => \E w \in writes : ds = AppendSuffix(d.log.entries, w)
<1> DEFINE writes == nd.actions.append_log_entries
           log == [d.log EXCEPT !.entries = AppendSuffix(@, CHOOSE e \in writes : TRUE)]
<1>1. Persist(d, nd, 4).log = IF writes # {} THEN log ELSE d.log
  BY DEF Persist
<1>2. d.log = [snapshot_config |-> d.log.snapshot_config, entries |-> d.log.entries]
  BY LogFacts
<1>3. log.entries = AppendSuffix(d.log.entries, CHOOSE e \in writes : TRUE)
  BY <1>2
<1>4. writes # {} => (CHOOSE e \in writes : TRUE) \in writes
  OBVIOUS
<1> HIDE DEF log, writes
<1> QED
  BY <1>1, <1>3, <1>4 DEF writes

LEMMA GrownStores ==
  ASSUME NEW C, NEW G, Tree(G, C), NEW es \in Entries(C), NEW d, d.log \in Logs(C),
         LogsSafe(G, es, d.log.entries), NEW nd, Sound(nd, C), Backed(G, nd.log.entries),
         nd.log.entries.prev = es.prev, Trail(es, nd)
  PROVE  LogsSafe(G, nd.log.entries, Persist(d, nd, 4).log.entries)
<1> DEFINE ds == d.log.entries
           b == nd.log.entries
           writes == nd.actions.append_log_entries
           new == Persist(d, nd, 4).log.entries
<1>1. b \in Entries(C) /\ writes \subseteq Writes(C)
  BY SoundLog DEF Sound, QueuesOK
<1>0. ds \in Entries(C)
  BY LogFacts
<1>2. CASE writes = {}
  <2>1. new = ds
    BY <1>2, PersistWrites
  <2> QED
    BY <1>2, <2>1 DEF Trail
<1>3. CASE writes # {}
  <2>1. PICK w \in writes : new = AppendSuffix(ds, w)
    BY <1>3, PersistWrites
  <2>2. w \in Entries(C) /\ w.prev = LastPosition(es) /\ PartOf(w, b) /\ LastPosition(w) = LastPosition(b)
    BY <1>1, <2>1 DEF Writes, Trail
  <2>3. Contains(es, w.prev) /\ b.prev.index <= w.prev.index
    BY <2>2, LastPositionTyped, EntriesFacts
  <2> HIDE DEF ds, b, writes, new
  <2>4. ds \in Entries(C) /\ LogsSafe(G, es, ds) /\ Backed(G, b) /\ b.prev = es.prev
    BY <1>0 DEF ds, b
  <2>5. LogsSafe(G, b, AppendSuffix(ds, w))
    BY <1>1, <2>2, <2>3, <2>4, StoreAppends
  <2> QED
    BY <2>1, <2>5 DEF new, b
<1> QED
  BY <1>2, <1>3

LEMMA GrownExtends ==
  ASSUME NEW V, NEW G, NEW A, NEW x, NEW nd, NEW H, Acting(V, G, A, x, nd, H),
         NEW A2, NEW T2, Later(x, A, Now, A2, T2), T2 = [Now EXCEPT ![x] = nd.current_term],
         NEW C, C = FixedConfigs(V), Grown(V, node[x], nd, C)
  PROVE  \E G2 : Extended(V, G, A, x, nd, A2, T2, G2)
<1> DEFINE es == node[x].log.entries
           b == nd.log.entries
           c == node[x].commit_index
           U == Voided(V, A, Now)
           X == Chosen(V, A)
           U2 == Voided(V, A2, T2)
           X2 == Chosen(V, A2)
<1>1. /\ x \in NodeId /\ IsFiniteSet(V) /\ es \in Entries(C) /\ b \in Entries(C)
      /\ stored[x].log \in Logs(C) /\ stored[x].log.entries \in Entries(C) /\ Sound(nd, C)
  BY ActingTyped
<1>2. Tree(G, C) /\ Lined(G, U) /\ LogsSafe(G, es, stored[x].log.entries)
  BY ActingSafe DEF NodeSafe
<1>3. U \subseteq U2 /\ X \subseteq X2
  BY <1>1, VoidedLater
<1>4. PICK a \in Entries(C) :
        /\ \/ a = es
           \/ V \in Creations /\ a = FoundingLog(V) /\ es = NewEntries(ZERO)
        /\ Trail(es, nd)
        /\ \/ b = a
           \/ /\ nd.role = "Leader"
              /\ LastIndex(a) > 0
              /\ \E e \in Entry(C) : e.term = nd.current_term /\ b = Push(a, e)
  BY DEF Grown
<1>5. /\ Backed(G, a)
      /\ a.prev = es.prev
      /\ Before(G, LastPosition(es), LastPosition(a))
      /\ LastIndex(es) <= LastIndex(a)
      /\ \A i \in es.prev.index .. LastIndex(es) : TermAt(a, i) = TermAt(es, i)
      /\ LastPosition(a).term <= nd.current_term
  BY <1>4, GrownBase
<1>6. \E G2 : /\ G \subseteq G2 /\ Tree(G2, C) /\ Lined(G2, U2) /\ Reaches(G, G2, nd)
              /\ Backed(G2, b)
              /\ Before(G2, LastPosition(a), LastPosition(b))
  <2>1. CASE b = a
    <3>1. Lined(G, U2)
      BY <1>2, <1>3 DEF Lined, Kept
    <3>2. Reaches(G, G, nd)
      BY DEF Reaches
    <3>3. Before(G, LastPosition(a), LastPosition(a))
      BY <1>2, <1>5, BeforeIsOn, BeforeReflexive
    <3> QED
      BY <1>2, <1>5, <2>1, <3>1, <3>2, <3>3
  <2>2. CASE /\ nd.role = "Leader"
             /\ LastIndex(a) > 0
             /\ \E e \in Entry(C) : e.term = nd.current_term /\ b = Push(a, e)
    <3>1. PICK e \in Entry(C) : e.term = nd.current_term /\ b = Push(a, e)
      BY <2>2
    <3>2. PICK g \in G : LET H2 == G \cup {Stitched(g, nd.log.entries)} IN
            /\ Tree(H2, C)
            /\ Lined(H2, U2)
            /\ Reaches(G, H2, nd)
            /\ Backed(H2, nd.log.entries)
            /\ Before(H2, LastPosition(a), LastPosition(nd.log.entries))
      BY <1>5, <2>2, <3>1, LeaderBranches
    <3> QED
      BY <3>2
  <2> QED
    BY <1>4, <2>1, <2>2
<1>7. PICK G2 : /\ G \subseteq G2 /\ Tree(G2, C) /\ Lined(G2, U2) /\ Reaches(G, G2, nd)
                /\ Backed(G2, b)
                /\ Before(G2, LastPosition(a), LastPosition(b))
  BY <1>6
<1>8. b.prev = a.prev /\ LastIndex(a) <= LastIndex(b) /\ LastIndex(a) \in Nat /\ LastIndex(b) \in Nat
      /\ \A i \in a.prev.index .. LastIndex(a) : TermAt(b, i) = TermAt(a, i)
  <2>0. LastIndex(a) \in Nat /\ LastIndex(b) \in Nat /\ a.prev.index \in Nat /\ b.prev.index \in Nat
    BY <1>1, EntriesFacts
  <2>1. CASE b = a
    BY <2>0, <2>1
  <2>2. CASE LastIndex(a) > 0 /\ \E e \in Entry(C) : b = Push(a, e)
    <3>1. PICK e \in Entry(C) : b = Push(a, e)
      BY <2>2
    <3>2. LastIndex(a) = 0 => e.kind = "ClusterConfig"
      BY <2>2
    <3>3. PartOf(a, b) /\ b.prev = a.prev
      <4>1. PartOf(a, Push(a, e))
        BY <3>2, PushParts
      <4>2. Push(a, e).prev = a.prev
        BY <3>2, PushTyped
      <4> QED
        BY <3>1, <4>1, <4>2
    <3> HIDE DEF b
    <3>4. b.prev.index <= a.prev.index
      BY <2>0, <3>3
    <3> QED
      BY <1>1, <2>0, <3>3, <3>4, PartFacts
  <2> QED
    BY <1>4, <2>1, <2>2
<1> HIDE DEF es, b, U, U2, X, X2, c
<1>9. Widens(C, G, U, X, G2, U2, X2)
  BY <1>3, <1>7 DEF Widens
<1>10. Continues(G, U, G2, U2, es, b, c)
  <2>1. b.prev = es.prev
    BY <1>5, <1>8
  <2>2. ASSUME NEW r, Kept(G, U, r, LastPosition(es))
        PROVE  Kept(G2, U2, r, LastPosition(b))
    <3>1. CASE Before(G, r, LastPosition(es))
      <4>1. Before(G, r, LastPosition(a))
        BY <1>2, <1>5, <3>1, BeforeTransitive
      <4>2. Before(G2, r, LastPosition(a))
        BY <1>7, <4>1, BeforeGrown
      <4>3. Before(G2, r, LastPosition(b))
        BY <1>7, <4>2, BeforeTransitive
      <4> QED
        BY <4>3 DEF Kept
    <3>2. CASE Pos(r.term, r.index) \in U
      BY <1>3, <3>2 DEF Kept
    <3> QED
      BY <2>2, <3>1, <3>2 DEF Kept
  <2>3. ContainsIndex(es, c) => ContainsIndex(b, c) /\ Spot(b, c) = Spot(es, c)
    <3> HAVE ContainsIndex(es, c)
    <3>0. es.prev.index \in Nat /\ LastIndex(es) \in Nat
      BY <1>1, EntriesFacts
    <3>1. c \in es.prev.index .. LastIndex(es)
      BY DEF ContainsIndex
    <3>2. c \in a.prev.index .. LastIndex(a)
      BY <1>5, <1>8, <3>0, <3>1
    <3>3. TermAt(b, c) = TermAt(es, c)
      BY <1>5, <1>8, <3>1, <3>2
    <3>4. c \in b.prev.index .. LastIndex(b)
      BY <1>8, <3>0, <3>1, <2>1, <1>5
    <3> QED
      BY <3>3, <3>4 DEF ContainsIndex, Spot
  <2> QED
    BY <1>7, <2>1, <2>2, <2>3 DEF Continues
<1>11. LogsSafe(G2, nd.log.entries, Persist(stored[x], nd, 4).log.entries)
  <2>1. LogsSafe(G2, es, stored[x].log.entries)
    BY <1>2, <1>7, LogsWiden
  <2>2. Backed(G2, nd.log.entries) /\ nd.log.entries.prev = es.prev
    BY <1>7, <1>5, <1>8 DEF b
  <2> QED
    BY <1>1, <1>4, <1>7, <2>1, <2>2, GrownStores
<1> QED
  BY <1>7, <1>9, <1>10, <1>11 DEF Extended, es, b, c, U, U2, X, X2

-----------------------------------------------------------------------------
(* The node has heard its leader. *)

LEMMA PacketHeard ==
  ASSUME NEW V, NEW G, NEW A, NEW x, NEW nd, NEW H, Acting(V, G, A, x, nd, H), NEW m \in H
  PROVE  /\ m.type # "InstallSnapshot"
         /\ IsMessage(m) /\ MessageOK(m, FixedConfigs(V))
         /\ \E p \in net : /\ p.to = x /\ p.msg = m
                           /\ PacketSafe(G, A, Chosen(V, A), Now, p)
<1>1. PICK p \in net : p.to = x /\ p.msg = m /\ m.type # "InstallSnapshot"
  BY DEF Acting, Come
<1>2. Typed(FixedConfigs(V)) /\ SafeNow(V, G, A, Voided(V, A, Now), Chosen(V, A))
  BY DEF Acting, SafeInv
<1>3. PacketOK(p, FixedConfigs(V)) /\ IsMessage(m)
  BY <1>1, <1>2 DEF Typed, Durable, PacketsDurable
<1>4. MessageOK(m, FixedConfigs(V))
  BY <1>1, <1>3 DEF PacketOK
<1>5. PacketSafe(G, A, Chosen(V, A), Now, p)
  BY <1>1, <1>2 DEF SafeNow
<1> QED
  BY <1>1, <1>3, <1>4, <1>5

LEMMA CallHeard ==
  ASSUME NEW V, NEW G, NEW A, NEW x, NEW nd, NEW H, Acting(V, G, A, x, nd, H),
         NEW m \in H, OfLeader(nd, m), NEW C, C = FixedConfigs(V)
  PROVE  /\ m.entries \in Entries(C)
         /\ m.commit_index \in Nat
         /\ \E g \in G : \E n \in LastIndex(m.entries) .. LastIndex(g) :
              /\ PartOf(m.entries, g)
              /\ m.commit_index <= n
              /\ Decided(G, Chosen(V, A), Spot(g, m.commit_index), nd.current_term)
              /\ Spot(g, n).term = nd.current_term
              /\ OnTree(G, Spot(g, n))
              /\ Contains(g, Spot(g, n))
              /\ Before(G, LastPosition(m.entries), Spot(g, n))
              /\ Before(G, m.entries.prev, Spot(g, n))
<1> DEFINE es == m.entries
<1>1. m.type = "AppendEntriesCall" /\ m.term = nd.current_term
  BY DEF OfLeader
<1>2. CallSafe(G, Chosen(V, A), m)
  BY <1>1, PacketHeard DEF PacketSafe
<1>3. es \in Entries(C) /\ m.commit_index \in Nat
  BY <1>1, PacketHeard DEF MessageOK
<1>4. Tree(G, C)
  BY ActingSafe
<1> DEFINE Has(g, n) == /\ TermAt(g, n) = m.term
                        /\ PartOf(es, g)
                        /\ m.commit_index <= n
                        /\ Decided(G, Chosen(V, A), Spot(g, m.commit_index), m.term)
<1>a. PICK g \in G : \E n \in LastIndex(es) .. LastIndex(g) : Has(g, n)
  BY <1>2 DEF CallSafe
<1>b. PICK n \in LastIndex(es) .. LastIndex(g) : Has(g, n)
  BY <1>a
<1>5. /\ TermAt(g, n) = m.term
      /\ PartOf(es, g)
      /\ m.commit_index <= n
      /\ Decided(G, Chosen(V, A), Spot(g, m.commit_index), m.term)
  BY <1>b
<1> HIDE DEF Has
<1> HIDE DEF es
<1>6. g \in Entries(C) /\ g.prev = ZERO /\ g.prev.index = 0
  BY <1>4 DEF Tree, ZERO, Pos
<1>7. LastIndex(es) \in Nat /\ LastIndex(g) \in Nat /\ es.prev.index \in Nat /\ es.prev.index <= LastIndex(es)
  BY <1>3, <1>6, EntriesFacts
<1>8. n \in Nat /\ LastIndex(es) <= n /\ n <= LastIndex(g)
  BY <1>7
<1> DEFINE l == Spot(g, n)
<1>9. l.index = n /\ l.term = nd.current_term
  BY <1>1, <1>5 DEF Spot, Pos
<1>10. Contains(g, l)
  BY <1>5, <1>6, <1>8 DEF Contains, ContainsIndex, Spot, Pos
<1>11. Contains(g, LastPosition(es)) /\ LastPosition(es).index = LastIndex(es)
  BY <1>3, <1>5, <1>6, <1>7, PartFacts, LastPositionTyped
<1>12. Contains(g, es.prev)
  BY <1>5, <1>6, <1>7, <1>8 DEF PartOf, Contains, ContainsIndex
<1> HIDE DEF l
<1>13. OnTree(G, l)
  BY <1>10 DEF OnTree
<1>14. Before(G, LastPosition(es), l)
  BY <1>8, <1>9, <1>10, <1>11 DEF Before
<1>15. Before(G, es.prev, l)
  BY <1>7, <1>8, <1>9, <1>10, <1>12 DEF Before
<1> QED
  BY <1>1, <1>3, <1>5, <1>9, <1>10, <1>13, <1>14, <1>15 DEF l, es

LEMMA HeardExtends ==
  ASSUME NEW V, NEW G, NEW A, NEW x, NEW nd, NEW H, Acting(V, G, A, x, nd, H),
         NEW A2, NEW T2, Later(x, A, Now, A2, T2), NEW C, C = FixedConfigs(V),
         NEW m \in H, OfLeader(nd, m), nd.role = "Follower",
         Cut(node[x], nd, m.entries) \/ Taken(node[x], nd, m.entries, C)
  PROVE  Extended(V, G, A, x, nd, A2, T2, G)
<1> DEFINE a == node[x]
           L == a.log.entries
           b == nd.log.entries
           es == m.entries
           U == Voided(V, A, Now)
           X == Chosen(V, A)
           U2 == Voided(V, A2, T2)
           X2 == Chosen(V, A2)
           ds == stored[x].log.entries
           new == Persist(stored[x], nd, 4).log.entries
<1>1. /\ x \in NodeId /\ IsFiniteSet(V) /\ L \in Entries(C) /\ b \in Entries(C)
      /\ stored[x].log \in Logs(C) /\ ds \in Entries(C) /\ Sound(nd, C) /\ Sound(a, C)
      /\ a.current_term \in Nat /\ nd.current_term \in Nat
      /\ a.current_term <= nd.current_term /\ LastPosition(L).term <= a.current_term
      /\ LastPosition(L).term \in Nat
  BY ActingTyped, LastPositionTyped DEF Position
<1>2. /\ Tree(G, C) /\ Lined(G, U) /\ Lawful(C, G, U, X) /\ LogsSafe(G, L, ds) /\ CommitSafe(G, X, a)
  BY ActingSafe DEF NodeSafe
<1>3. U \subseteq U2 /\ X \subseteq X2
  BY <1>1, VoidedLater
<1> DEFINE Has(g, n) == /\ PartOf(es, g)
                        /\ Spot(g, n).term = nd.current_term
                        /\ OnTree(G, Spot(g, n))
                        /\ Before(G, LastPosition(es), Spot(g, n))
                        /\ Before(G, es.prev, Spot(g, n))
<1>a. PICK g \in G : \E n \in LastIndex(es) .. LastIndex(g) : Has(g, n)
  BY CallHeard
<1>b. PICK n \in LastIndex(es) .. LastIndex(g) : Has(g, n)
  BY <1>a
<1>4. /\ PartOf(es, g)
      /\ Spot(g, n).term = nd.current_term
      /\ OnTree(G, Spot(g, n))
      /\ Before(G, LastPosition(es), Spot(g, n))
      /\ Before(G, es.prev, Spot(g, n))
  BY <1>b
<1> HIDE DEF Has
<1>5. es \in Entries(C)
  BY CallHeard
<1> DEFINE l == Spot(g, n)
<1>6. LastPosition(L).term <= l.term /\ a.current_term <= l.term
  BY <1>1, <1>4
<1>7. Backed(G, L) /\ Backed(G, es)
  BY <1>2, <1>4 DEF LogsSafe, Backed
<1>8. Follows(G, U, L, b, a.commit_index) /\ LogsSafe(G, b, new)
  <2>1. CASE Cut(a, nd, es)
    <3>1. Follows(G, U, L, b, a.commit_index) /\ PartOf(b, L)
      <4> HIDE DEF U, X, l
      <4> QED
        BY <1>1, <1>2, <1>4, <1>6, <1>7, <2>1, CutBackFollows DEF l
    <3>2. new = ds
      BY <1>1, <2>1, PersistWrites DEF Cut
    <3>3. b.prev = L.prev
      BY <3>1 DEF Follows
    <3>4. LogsSafe(G, b, ds)
      <4> HIDE DEF b, L, ds
      <4> QED
        BY <1>1, <1>2, <3>1, <3>3, StoreKeeps
    <3> QED
      BY <3>1, <3>2, <3>4
  <2>2. CASE Taken(a, nd, es, C)
    <3>1. Follows(G, U, L, b, a.commit_index)
      <4> HIDE DEF U, X, l
      <4> QED
        BY <1>1, <1>2, <1>4, <1>5, <1>6, <1>7, <2>2, TakenFollows DEF l
    <3>2. PICK w \in Entries(C) :
            /\ nd.actions.append_log_entries = {w}
            /\ PartOf(w, es)
            /\ es.prev.index <= w.prev.index
            /\ Contains(L, w.prev)
            /\ LastPosition(w) = LastPosition(es)
            /\ b = AppendUnchecked(L, w)
      BY <2>2 DEF Taken
    <3>3. new = AppendSuffix(ds, w)
      <4> DEFINE writes == nd.actions.append_log_entries
      <4>1. writes = {w}
        BY <3>2
      <4> HIDE DEF writes, ds, new
      <4>2. writes # {} => \E v \in writes : new = AppendSuffix(ds, v)
        BY <1>1, PersistWrites DEF writes, ds, new
      <4> QED
        BY <4>1, <4>2
    <3>4. b.prev = L.prev /\ LastPosition(b) = LastPosition(w) /\ LastIndex(b) = LastIndex(w)
      <4>1. LastPosition(AppendUnchecked(L, w)) = LastPosition(w)
        BY <1>1, <3>2, AppendEdges
      <4>2. LastPosition(b) = LastPosition(w)
        BY <3>2, <4>1
      <4>3. b.prev = L.prev
        BY <3>1 DEF Follows
      <4> HIDE DEF b
      <4> QED
        BY <1>1, <4>2, <4>3, LastPositionTyped
    <3> HIDE DEF b, L, ds, es, a, new
    <3>5. PICK h \in G : PartOf(b, h)
      BY <3>1 DEF Follows, Backed
    <3>6. /\ g \in Entries(C) /\ g.prev.index = 0 /\ h \in Entries(C) /\ h.prev.index = 0
          /\ b.prev.index \in Nat /\ es.prev.index \in Nat /\ w.prev.index \in Nat
          /\ L.prev.index \in Nat /\ LastIndex(w) \in Nat
      BY <1>1, <1>2, <1>5, EntriesFacts DEF Tree, ZERO, Pos
    <3>7. b.prev.index <= w.prev.index /\ w.prev.index <= LastIndex(b)
      <4>1. L.prev.index <= w.prev.index
        BY <1>1, <3>2, TermAtTyped DEF Contains
      <4>2. w.prev.index <= LastIndex(w)
        BY <3>2, EntriesFacts
      <4> QED
        BY <3>4, <4>1, <4>2
    <3>8. PartOf(w, g)
      <4>1. g.prev.index <= es.prev.index
        BY <3>6
      <4> QED
        BY <1>4, <1>5, <3>2, <3>6, <4>1, PartWithin
    <3>9. (\A i \in b.prev.index .. LastIndex(b) : TermAt(b, i) = TermAt(h, i))
          /\ Contains(h, LastPosition(b))
      <4>1. h.prev.index <= b.prev.index
        BY <3>6
      <4> QED
        BY <1>1, <3>5, <3>6, <4>1, PartFacts
    <3>10. PartOf(w, h)
      <4>1. Contains(h, LastPosition(w))
        BY <3>4, <3>9
      <4> QED
        BY <1>2, <3>2, <3>5, <3>8, <4>1, PartMoved
    <3>11. PartOf(w, b)
      <4>1. TermAt(b, w.prev.index) = w.prev.term
        <5>1. w.prev.index \in b.prev.index .. LastIndex(b)
          BY <1>1, <3>6, <3>7, EntriesFacts
        <5> QED
          BY <3>9, <3>10, <5>1 DEF PartOf
      <4>2. \A i \in w.prev.index + 1 .. LastIndex(w) : EntryAt(w, i) = EntryAt(b, i)
        <5> TAKE i \in w.prev.index + 1 .. LastIndex(w)
        <5>1. i \in b.prev.index + 1 .. LastIndex(b)
          BY <3>4, <3>6, <3>7
        <5> QED
          BY <3>5, <3>10, <5>1 DEF PartOf
      <4> QED
        BY <3>4, <3>6, <4>1, <4>2 DEF PartOf
    <3>12. LogsSafe(G, b, AppendSuffix(ds, w))
      <4>1. Backed(G, b)
        BY <3>5 DEF Backed
      <4> QED
        BY <1>1, <1>2, <3>2, <3>4, <3>7, <3>11, <4>1, StoreAppends
    <3> QED
      BY <3>1, <3>3, <3>12
  <2> QED
    BY <2>1, <2>2
<1> HIDE DEF U, X, U2, X2, L, b, new
<1>9. Widens(C, G, U, X, G, U2, X2)
  BY <1>2, <1>3 DEF Widens
<1>10. Lined(G, U2)
  BY <1>2, <1>3 DEF Lined, Kept
<1>11. Reaches(G, G, nd)
  BY DEF Reaches
<1>12. Continues(G, U, G, U2, L, b, a.commit_index)
  BY <1>8, <1>9, KeptWidens DEF Follows, Continues
<1> QED
  BY <1>8, <1>9, <1>10, <1>11, <1>12 DEF Extended, L, b, U, U2, X, X2, new

-----------------------------------------------------------------------------
(* What the call makes of the terms, the acknowledgements and the tree.    *)

NewTerms(x, nd) == [Now EXCEPT ![x] = nd.current_term]

NewAcks(A, x, nd) ==
  LET last == LastPosition(nd.log.entries) IN
  A \cup {a \in {<<x, nd.current_term, last.index>>} : last.term = nd.current_term}

Acted(V, G, A, x, nd, H, G2, A2, T2) ==
  /\ Acting(V, G, A, x, nd, H)
  /\ A2 = NewAcks(A, x, nd)
  /\ T2 = NewTerms(x, nd)
  /\ Extended(V, G, A, x, nd, A2, T2, G2)

LEMMA ActingLater ==
  ASSUME NEW V, NEW G, NEW A, NEW x, NEW nd, NEW H, Acting(V, G, A, x, nd, H)
  PROVE  Later(x, A, Now, NewAcks(A, x, nd), NewTerms(x, nd))
<1> DEFINE A2 == NewAcks(A, x, nd)
           T2 == NewTerms(x, nd)
<1>1. /\ x \in NodeId /\ Typed(FixedConfigs(V))
      /\ node[x].current_term \in Nat /\ nd.current_term \in Nat
      /\ node[x].current_term <= nd.current_term
  BY ActingTyped
<1>2. \A id \in NodeId : node[id].current_term \in Nat
  BY <1>1, NodeFacts DEF Typed, Durable
<1>3. \A id \in NodeId : Now[id] = node[id].current_term
  BY DEF Now
<1>4. \A id \in NodeId : T2[id] = IF id = x THEN nd.current_term ELSE Now[id]
  BY DEF NewTerms, Now
<1>5. \A id \in NodeId : Now[id] \in Nat /\ T2[id] \in Nat /\ Now[id] <= T2[id]
  BY <1>1, <1>2, <1>3, <1>4
<1>6. A \subseteq A2
  BY DEF NewAcks
<1>7. \A a \in A2 \ A : a[1] = x /\ a[2] = nd.current_term
  BY DEF NewAcks
<1>8. T2[x] = nd.current_term
  BY <1>1, <1>4
<1> HIDE DEF A2, T2
<1> QED
  BY <1>5, <1>6, <1>7, <1>8 DEF Later, A2, T2

\* Every call extends the tree.
LEMMA CallActed ==
  ASSUME NEW V, NEW G, NEW A, NEW x, NEW nd, NEW H, Acting(V, G, A, x, nd, H)
  PROVE  \E G2, A2, T2 : Acted(V, G, A, x, nd, H, G2, A2, T2)
<1> DEFINE A2 == NewAcks(A, x, nd)
           T2 == NewTerms(x, nd)
           C == FixedConfigs(V)
<1>1. Later(x, A, Now, A2, T2)
  BY ActingLater
<1>2. T2 = [Now EXCEPT ![x] = nd.current_term]
  BY DEF NewTerms
<1>3. Writing(V, node[x], nd, H, C)
  BY DEF Acting, Deed
<1> HIDE DEF A2, T2, C
<1>4. CASE Grown(V, node[x], nd, C)
  <2>1. \E G2 : Extended(V, G, A, x, nd, A2, T2, G2)
    BY <1>1, <1>2, <1>4, GrownExtends DEF C
  <2> QED
    BY <2>1 DEF Acted, A2, T2
<1>5. CASE /\ nd.role = "Follower"
           /\ \E m \in H : OfLeader(nd, m)
                           /\ (Cut(node[x], nd, m.entries) \/ Taken(node[x], nd, m.entries, C))
  <2>1. PICK m \in H : OfLeader(nd, m)
                       /\ (Cut(node[x], nd, m.entries) \/ Taken(node[x], nd, m.entries, C))
    BY <1>5
  <2>2. Extended(V, G, A, x, nd, A2, T2, G)
    BY <1>1, <1>5, <2>1, HeardExtends DEF C
  <2> QED
    BY <2>2 DEF Acted, A2, T2
<1> QED
  BY <1>3, <1>4, <1>5 DEF Writing

LEMMA ActedFacts ==
  ASSUME NEW V, NEW G, NEW A, NEW x, NEW nd, NEW H, NEW G2, NEW A2, NEW T2,
         Acted(V, G, A, x, nd, H, G2, A2, T2), NEW C, C = FixedConfigs(V)
  PROVE  LET U == Voided(V, A, Now)
             X == Chosen(V, A)
             U2 == Voided(V, A2, T2)
             X2 == Chosen(V, A2)
             last == LastPosition(nd.log.entries)
         IN  /\ Acting(V, G, A, x, nd, H)
             /\ Later(x, A, Now, A2, T2)
             /\ Widens(C, G, U, X, G2, U2, X2)
             /\ Tree(G2, C) /\ Lined(G2, U2) /\ Lawful(C, G2, U2, X2)
             /\ Reaches(G, G2, nd)
             /\ Continues(G, U, G2, U2, node[x].log.entries, nd.log.entries, node[x].commit_index)
             /\ LogsSafe(G2, nd.log.entries, Persist(stored[x], nd, 4).log.entries)
             /\ Backed(G2, nd.log.entries)
             /\ OnTree(G2, last)
             /\ T2[x] = nd.current_term
             /\ \A y \in NodeId : y # x => T2[y] = Now[y]
             /\ \A r : Acked(A2, x, r) =>
                  \/ Acked(A, x, r)
                  \/ r.term = nd.current_term /\ last.term = r.term /\ r.index <= last.index
             /\ last.term = nd.current_term =>
                  \A r : r.term = last.term /\ r.index <= last.index => Acked(A2, x, r)
<1> DEFINE U == Voided(V, A, Now)
           X == Chosen(V, A)
           U2 == Voided(V, A2, T2)
           X2 == Chosen(V, A2)
           last == LastPosition(nd.log.entries)
           b == nd.log.entries
<1>1. Acting(V, G, A, x, nd, H) /\ A2 = NewAcks(A, x, nd) /\ T2 = NewTerms(x, nd)
  BY DEF Acted
<1>2. Later(x, A, Now, A2, T2)
  BY <1>1, ActingLater
<1>3. /\ Widens(C, G, U, X, G2, U2, X2)
      /\ Lined(G2, U2)
      /\ Reaches(G, G2, nd)
      /\ Continues(G, U, G2, U2, node[x].log.entries, b, node[x].commit_index)
      /\ LogsSafe(G2, b, Persist(stored[x], nd, 4).log.entries)
  BY DEF Acted, Extended
<1>4. /\ x \in NodeId /\ IsFiniteSet(V) /\ V # {} /\ b \in Entries(C)
  BY <1>1, ActingTyped DEF Acting
<1>5. X2 \cap U2 = {} /\ X2 \subseteq Position
  BY <1>4, ChosenNotVoided DEF Chosen
<1>6. /\ T2[x] = nd.current_term
      /\ \A y \in NodeId : y # x => T2[y] = Now[y]
  BY <1>1, <1>4 DEF NewTerms, Now
<1>7. \A r : Acked(A2, x, r) =>
        \/ Acked(A, x, r)
        \/ r.term = nd.current_term /\ last.term = r.term /\ r.index <= last.index
  <2> HIDE DEF last
  <2> TAKE r
  <2> HAVE Acked(A2, x, r)
  <2>1. PICK a \in A2 : a[1] = x /\ a[2] = r.term /\ r.index <= a[3]
    BY DEF Acked
  <2>2. a \in A \/ (a = <<x, nd.current_term, last.index>> /\ last.term = nd.current_term)
    BY <1>1, <2>1 DEF NewAcks, last
  <2>3. CASE a \in A
    BY <2>1, <2>3 DEF Acked
  <2>4. CASE a = <<x, nd.current_term, last.index>> /\ last.term = nd.current_term
    BY <2>1, <2>4
  <2> QED
    BY <2>2, <2>3, <2>4
<1>8. last.term = nd.current_term =>
        \A r : r.term = last.term /\ r.index <= last.index => Acked(A2, x, r)
  <2> HIDE DEF last
  <2> HAVE last.term = nd.current_term
  <2> TAKE r
  <2> HAVE r.term = last.term /\ r.index <= last.index
  <2> DEFINE a == <<x, nd.current_term, last.index>>
  <2>1. a \in A2
    BY <1>1 DEF NewAcks, last
  <2>2. a[1] = x /\ a[2] = nd.current_term /\ a[3] = last.index
    OBVIOUS
  <2> HIDE DEF a
  <2> QED
    BY <2>1, <2>2 DEF Acked
<1> HIDE DEF U, X, U2, X2
<1>9. Tree(G2, C) /\ Lawful(C, G2, U2, X2)
  BY <1>3, <1>5 DEF Widens, Lawful
<1>10. Backed(G2, b) /\ OnTree(G2, LastPosition(b))
  BY <1>3, <1>4, <1>9, BackedFacts DEF LogsSafe
<1> HIDE DEF Acting
<1> QED
  BY <1>1, <1>2, <1>3, <1>6, <1>7, <1>8, <1>9, <1>10 DEF U, X, U2, X2, last

-----------------------------------------------------------------------------
(* The node after the call. *)

LEMMA AcksActed ==
  ASSUME NEW V, NEW G, NEW A, NEW x, NEW nd, NEW H, NEW G2, NEW A2, NEW T2,
         Acted(V, G, A, x, nd, H, G2, A2, T2)
  PROVE  AcksOK(G2, A2, T2)
<1> DEFINE C == FixedConfigs(V)
           last == LastPosition(nd.log.entries)
<1>1. /\ Acting(V, G, A, x, nd, H) /\ Later(x, A, Now, A2, T2)
      /\ G \subseteq G2 /\ OnTree(G2, last) /\ T2[x] = nd.current_term
      /\ A2 = NewAcks(A, x, nd)
  BY ActedFacts DEF Widens, Acted
<1>2. AcksOK(G, A, Now) /\ x \in NodeId /\ nd.current_term \in Nat /\ last \in Position
  BY <1>1, ActingSafe, ActingTyped, LastPositionTyped
<1> HIDE DEF last
<1>3. ASSUME NEW a \in A
      PROVE  a[1] \in NodeId /\ a[2] <= T2[a[1]] /\ OnTree(G2, Pos(a[2], a[3]))
  <2>1. a[1] \in NodeId /\ a[2] <= Now[a[1]] /\ OnTree(G, Pos(a[2], a[3]))
    BY <1>2, <1>3 DEF AcksOK
  <2>2. Now[a[1]] \in Nat /\ T2[a[1]] \in Nat /\ Now[a[1]] <= T2[a[1]]
    BY <1>1, <2>1 DEF Later
  <2>3. Tree(G, C) /\ Pos(a[2], a[3]).term = a[2]
    BY <1>1, ActingSafe DEF Pos
  <2>4. a[2] \in Nat
    BY <2>1, <2>3, OnTreeTyped
  <2>5. OnTree(G2, Pos(a[2], a[3]))
    BY <1>1, <2>1 DEF OnTree
  <2> QED
    BY <2>1, <2>2, <2>4, <2>5
<1>4. ASSUME NEW a, a = <<x, nd.current_term, last.index>>, last.term = nd.current_term
      PROVE  a[1] \in NodeId /\ a[2] <= T2[a[1]] /\ OnTree(G2, Pos(a[2], a[3]))
  <2>1. a[1] = x /\ a[2] = nd.current_term /\ a[3] = last.index
    BY <1>4
  <2>2. Pos(a[2], a[3]) = last
    BY <1>2, <1>4, <2>1 DEF Pos, Position
  <2> QED
    BY <1>1, <1>2, <2>1, <2>2
<1> QED
  BY <1>1, <1>3, <1>4 DEF AcksOK, NewAcks, last

LEMMA KeeperActed ==
  ASSUME NEW V, NEW G, NEW A, NEW x, NEW nd, NEW H, NEW G2, NEW A2, NEW T2,
         Acted(V, G, A, x, nd, H, G2, A2, T2)
  PROVE  Keeper(G2, A2, Voided(V, A2, T2), x, nd.log.entries)
<1> DEFINE C == FixedConfigs(V)
           U == Voided(V, A, Now)
           X == Chosen(V, A)
           U2 == Voided(V, A2, T2)
           X2 == Chosen(V, A2)
           L == node[x].log.entries
           last == LastPosition(nd.log.entries)
<1>1. /\ Acting(V, G, A, x, nd, H)
      /\ Widens(C, G, U, X, G2, U2, X2)
      /\ Tree(G2, C)
      /\ Continues(G, U, G2, U2, L, nd.log.entries, node[x].commit_index)
      /\ OnTree(G2, last)
      /\ \A r : Acked(A2, x, r) =>
           \/ Acked(A, x, r)
           \/ r.term = nd.current_term /\ last.term = r.term /\ r.index <= last.index
  BY ActedFacts
<1>2. AcksOK(G, A, Now) /\ Keeper(G, A, U, x, L)
  BY <1>1, ActingSafe DEF NodeSafe
<1> HIDE DEF U, X, U2, X2, L, last
<1> SUFFICES ASSUME NEW r, OnTree(G2, r), Acked(A2, x, r)
             PROVE  Kept(G2, U2, r, last)
  BY DEF Keeper, U2, last
<1>3. CASE Acked(A, x, r)
  <2>1. OnTree(G, r)
    BY <1>1, <1>2, <1>3, AckedOnTree
  <2>2. Kept(G, U, r, LastPosition(L))
    BY <1>2, <1>3, <2>1 DEF Keeper
  <2> QED
    BY <1>1, <2>2 DEF Continues, last
<1>4. CASE last.term = r.term /\ r.index <= last.index
  <2>1. Before(G2, r, last)
    BY <1>1, <1>4, OneTermLine
  <2> QED
    BY <2>1 DEF Kept
<1> QED
  BY <1>1, <1>3, <1>4

\* A leader's term is not that of the empty log.
LEMMA LeaderPositive ==
  ASSUME NEW V, NEW G, NEW A, NEW x, NEW nd, NEW H, Acting(V, G, A, x, nd, H), nd.role # "Follower"
  PROVE  nd.current_term > 0
<1>1. /\ x \in NodeId /\ Typed(FixedConfigs(V))
      /\ node[x].current_term \in Nat /\ nd.current_term \in Nat
  BY ActingTyped
<1>2. MatchInv /\ Turns(x, nd, FixedConfigs(V))
  BY DEF Acting
<1>3. \/ node[x].role # "Follower" /\ nd.current_term = node[x].current_term
      \/ nd.current_term > node[x].current_term
  BY <1>1, <1>2, TurnsRole
<1> QED
  BY <1>1, <1>2, <1>3 DEF MatchInv, LeadersRipe

\* A leader's log only grows.
LEMMA LeaderGrowsOn ==
  ASSUME NEW V, NEW G, NEW A, NEW x, NEW nd, NEW H, NEW G2, NEW A2, NEW T2,
         Acted(V, G, A, x, nd, H, G2, A2, T2), node[x].role = "Leader", nd.role = "Leader",
         nd.current_term = node[x].current_term
  PROVE  LET L == node[x].log.entries
             b == nd.log.entries
         IN  /\ b.prev = L.prev
             /\ LastIndex(L) <= LastIndex(b)
             /\ \A i \in L.prev.index .. LastIndex(L) : TermAt(b, i) = TermAt(L, i)
<1> DEFINE L == node[x].log.entries
           b == nd.log.entries
           C == FixedConfigs(V)
<1>1. Acting(V, G, A, x, nd, H) /\ b.prev = L.prev
  BY ActedFacts DEF Continues
<1>2. /\ node[x].current_term \in Nat /\ L \in Entries(C) /\ b \in Entries(C)
  BY <1>1, ActingTyped
<1>3. Extends(L, b)
  <2>1. Turns(x, nd, C)
    BY <1>1 DEF Acting
  <2>2. PICK W : LeadsRightly(node[x], nd, C, W)
    BY <2>1 DEF Turns, Outcome
  <2> QED
    BY <1>2, <2>2 DEF LeadsRightly
<1> HIDE DEF L, b
<1>4. L.prev.index \in Nat /\ LastIndex(L) \in Nat /\ LastIndex(b) \in Nat /\ b.prev.index = L.prev.index
  BY <1>1, <1>2, EntriesFacts
<1>5. LastIndex(L) <= LastIndex(b)
  BY <1>3 DEF Extends
<1>6. ASSUME NEW i \in L.prev.index .. LastIndex(L)
      PROVE  TermAt(b, i) = TermAt(L, i)
  <2>1. CASE i = L.prev.index
    BY <1>1, <2>1 DEF TermAt
  <2>2. CASE i # L.prev.index
    <3>1. i \in L.prev.index + 1 .. LastIndex(L) /\ i \in b.prev.index + 1 .. LastIndex(b)
      BY <1>4, <1>5, <2>2
    <3>2. TermAt(L, i) = EntryAt(L, i).term /\ TermAt(b, i) = EntryAt(b, i).term
      BY <1>2, <3>1, TermAtEntry
    <3>3. i \in b.prev.index + 1 .. LastIndex(L)
      BY <1>4, <3>1
    <3>4. EntryAt(L, i) = EntryAt(b, i)
      BY <1>3, <3>3 DEF Extends
    <3> QED
      BY <3>2, <3>4
  <2> QED
    BY <2>1, <2>2
<1> QED
  BY <1>1, <1>5, <1>6 DEF L, b

\* Terms rise along a log that is on the tree.
LEMMA BackedRises ==
  ASSUME NEW C, NEW G, Tree(G, C), NEW es \in Entries(C), Backed(G, es),
         NEW i \in es.prev.index .. LastIndex(es), NEW j \in i .. LastIndex(es)
  PROVE  TermAt(es, i) <= TermAt(es, j) /\ TermAt(es, i) \in Nat /\ TermAt(es, j) \in Nat
<1>1. PICK g \in G : PartOf(es, g)
  BY DEF Backed
<1>2. g \in Entries(C) /\ g.prev = ZERO /\ g.prev.index = 0 /\ Ascends(g)
  BY DEF Tree, ZERO, Pos
<1>3. es.prev.index \in Nat /\ LastIndex(es) \in Nat /\ LastIndex(g) \in Nat
  BY <1>2, EntriesFacts
<1>4. i \in Nat /\ j \in Nat /\ i <= j /\ es.prev.index <= i /\ j <= LastIndex(es)
  BY <1>3
<1>5. LastIndex(es) <= LastIndex(g) /\ \A k \in es.prev.index .. LastIndex(es) : TermAt(es, k) = TermAt(g, k)
  <2>1. g.prev.index <= es.prev.index
    BY <1>2, <1>3
  <2> QED
    BY <1>1, <1>2, <2>1, PartFacts
<1>6. TermAt(g, i) <= TermAt(g, j)
  <2>1. i \in 0 .. LastIndex(g) /\ j \in i .. LastIndex(g)
    BY <1>3, <1>4, <1>5
  <2> QED
    BY <1>2, <2>1 DEF Ascends
<1>7. TermAt(es, i) = TermAt(g, i) /\ TermAt(es, j) = TermAt(g, j)
  BY <1>3, <1>4, <1>5
<1>8. ContainsIndex(es, i) /\ ContainsIndex(es, j)
  BY <1>3, <1>4 DEF ContainsIndex
<1> QED
  BY <1>6, <1>7, <1>8, TermAtTyped

LEMMA MatchesActed ==
  ASSUME NEW V, NEW G, NEW A, NEW x, NEW nd, NEW H, NEW G2, NEW A2, NEW T2,
         Acted(V, G, A, x, nd, H, G2, A2, T2), nd.role = "Leader"
  PROVE  Matches(A2, nd)
<1> DEFINE C == FixedConfigs(V)
           L == node[x].log.entries
           b == nd.log.entries
           t == nd.current_term
<1>1. /\ Acting(V, G, A, x, nd, H) /\ Later(x, A, Now, A2, T2)
      /\ Tree(G2, C) /\ Backed(G2, b)
  BY ActedFacts
<1>2. /\ x \in NodeId /\ t \in Nat /\ L \in Entries(C) /\ b \in Entries(C)
      /\ Counting(node[x], nd, H) /\ Ripe(nd) /\ Typed(C)
  BY <1>1, ActingTyped DEF Acting, Deed
<1>3. t > 0
  BY <1>1, LeaderPositive
<1>4. \A w, r : Acked(A, w, r) => Acked(A2, w, r)
  BY <1>1, <1>2, AckedLater
<1>5. b.prev.index \in Nat /\ LastIndex(b) \in Nat /\ b.prev.index <= LastIndex(b)
  BY <1>2, EntriesFacts
<1> SUFFICES ASSUME NEW f \in DOMAIN nd.followers
             PROVE  /\ nd.followers[f] <= LastIndex(b)
                    /\ \A i \in b.prev.index .. nd.followers[f] :
                         TermAt(b, i) = t => Acked(A2, f, Pos(t, i))
  BY DEF Matches
<1>6. CASE nd.followers[f] = 0
  <2>1. nd.followers[f] <= LastIndex(b)
    BY <1>5, <1>6
  <2>2. \A i \in b.prev.index .. nd.followers[f] : i = b.prev.index /\ TermAt(b, i) = 0
    <3> TAKE i \in b.prev.index .. nd.followers[f]
    <3>1. i = 0 /\ b.prev.index = 0
      BY <1>5, <1>6
    <3>2. TermAt(b, b.prev.index) = b.prev.term
      BY DEF TermAt
    <3>3. b.prev.term = 0
      <4>1. PICK g \in G2 : PartOf(b, g)
        BY <1>1 DEF Backed
      <4>2. g \in Entries(C) /\ g.prev = ZERO
        BY <1>1 DEF Tree
      <4>3. TermAt(g, 0) = 0
        BY <4>2, FullFacts
      <4> QED
        BY <3>1, <4>1, <4>3 DEF PartOf
    <3> QED
      BY <3>1, <3>2, <3>3
  <2> QED
    BY <1>3, <2>1, <2>2
<1>7. CASE /\ node[x].role = "Leader"
           /\ node[x].current_term = t
           /\ f \in DOMAIN node[x].followers
           /\ nd.followers[f] = node[x].followers[f]
  <2>1. /\ b.prev = L.prev
        /\ LastIndex(L) <= LastIndex(b)
        /\ \A i \in L.prev.index .. LastIndex(L) : TermAt(b, i) = TermAt(L, i)
    BY <1>2, <1>7, LeaderGrowsOn
  <2>2. Matches(A, node[x])
    BY <1>1, <1>7, ActingSafe DEF NodeSafe
  <2>3. /\ nd.followers[f] <= LastIndex(L)
        /\ \A i \in L.prev.index .. nd.followers[f] : TermAt(L, i) = t => Acked(A, f, Pos(t, i))
    BY <1>7, <2>2 DEF Matches
  <2>4. nd.followers[f] \in Nat
    BY <1>1, ActingTyped DEF Sound
  <2> HIDE DEF L, b
  <2>5. LastIndex(L) \in Nat /\ LastIndex(b) \in Nat /\ L.prev.index \in Nat
    BY <1>2, EntriesFacts
  <2>6. nd.followers[f] <= LastIndex(b)
    BY <2>1, <2>3, <2>4, <2>5
  <2>7. ASSUME NEW i \in b.prev.index .. nd.followers[f], TermAt(b, i) = t
        PROVE  Acked(A2, f, Pos(t, i))
    <3>1. i \in L.prev.index .. nd.followers[f] /\ i \in L.prev.index .. LastIndex(L)
      BY <2>1, <2>3, <2>4, <2>5
    <3> QED
      BY <1>4, <2>1, <2>3, <2>7, <3>1
  <2> QED
    BY <2>6, <2>7 DEF b
<1>8. CASE \E m \in H :
             /\ m.type = "AppendEntriesReply"
             /\ m.from = f
             /\ m.term = t
             /\ Contains(b, m.last_position)
             /\ nd.followers[f] = m.last_position.index
  <2>1. PICK m \in H :
             /\ m.type = "AppendEntriesReply"
             /\ m.from = f
             /\ m.term = t
             /\ Contains(b, m.last_position)
             /\ nd.followers[f] = m.last_position.index
    BY <1>8
  <2> DEFINE k == m.last_position.index
  <2>2. m.last_position.term = t => Acked(A, f, m.last_position)
    BY <1>1, <2>1, PacketHeard DEF PacketSafe
  <2>3. k \in b.prev.index .. LastIndex(b) /\ TermAt(b, k) = m.last_position.term
    BY <2>1 DEF Contains, ContainsIndex
  <2>4. TermAt(b, LastIndex(b)) = t
    BY <1>2 DEF Ripe, LastPosition, Pos
  <2> HIDE DEF b, t, k
  <2>5. k \in Nat /\ b.prev.index <= k /\ k <= LastIndex(b)
    BY <1>5, <2>3
  <2>6. LastIndex(b) \in k .. LastIndex(b)
    BY <1>5, <2>5
  <2>7. TermAt(b, k) <= t /\ TermAt(b, k) \in Nat
    BY <1>1, <1>2, <2>3, <2>4, <2>6, BackedRises
  <2>8. ASSUME NEW i \in b.prev.index .. k, TermAt(b, i) = t
        PROVE  Acked(A2, f, Pos(t, i))
    <3>1. i \in Nat /\ i <= k /\ i \in b.prev.index .. LastIndex(b) /\ k \in i .. LastIndex(b)
      BY <1>5, <2>5
    <3>2. TermAt(b, i) <= TermAt(b, k)
      BY <1>1, <1>2, <3>1, BackedRises
    <3>3. TermAt(b, k) = t
      BY <1>2, <2>7, <2>8, <3>2
    <3>4. Acked(A, f, m.last_position) /\ m.last_position.term = t
      BY <2>2, <2>3, <3>3
    <3>6. Acked(A2, f, m.last_position)
      BY <1>4, <3>4
    <3>7. Pos(t, i).term = t /\ Pos(t, i).index = i
      BY DEF Pos
    <3>8. \A a2 \in A2 : k <= a2[3] /\ a2[1] = f /\ a2[2] = t => Acked(A2, f, Pos(t, i))
      <4> TAKE a2 \in A2
      <4> HAVE k <= a2[3] /\ a2[1] = f /\ a2[2] = t
      <4>1. OnTree(G2, Pos(a2[2], a2[3])) /\ Pos(a2[2], a2[3]).index = a2[3]
        BY AcksActed DEF AcksOK, Pos
      <4>2. a2[3] \in Nat
        BY <1>1, <4>1, OnTreeTyped
      <4>3. i <= a2[3]
        BY <2>5, <3>1, <4>2
      <4> QED
        BY <3>7, <4>3 DEF Acked
    <3> QED
      BY <3>4, <3>6, <3>8 DEF Acked, k
  <2> QED
    BY <2>1, <2>5, <2>8 DEF k, b, t
<1> QED
  BY <1>2, <1>6, <1>7, <1>8 DEF Counting

LEMMA LesserOf == \A m, n \in Nat : Min({m, n}) <= m /\ Min({m, n}) <= n
<1> SUFFICES ASSUME NEW m \in Nat, NEW n \in Nat PROVE Min({m, n}) <= m /\ Min({m, n}) <= n
  OBVIOUS
<1>1. \E y \in {m, n} : \A z \in {m, n} : y <= z
  <2>1. m <= n \/ n <= m
    OBVIOUS
  <2> QED
    BY <2>1
<1> QED
  BY <1>1 DEF Min

\* What a leader commits has been acknowledged by a majority.
LEMMA CommitsChosen ==
  ASSUME NEW V, NEW G, NEW A, NEW x, NEW nd, NEW H, NEW G2, NEW A2, NEW T2,
         Acted(V, G, A, x, nd, H, G2, A2, T2), nd.role = "Leader", Commits(V, nd),
         nd.commit_index \in Nat, nd.commit_index > 0
  PROVE  Pos(nd.current_term, nd.commit_index) \in Chosen(V, A2)
<1> DEFINE C == FixedConfigs(V)
           b == nd.log.entries
           t == nd.current_term
           c == nd.commit_index
           r == Pos(t, c)
           S == {v \in V : MatchIndex(nd, v) >= c}
<1>1. /\ Acting(V, G, A, x, nd, H)
      /\ LastPosition(b).term = t =>
           \A q : q.term = LastPosition(b).term /\ q.index <= LastPosition(b).index => Acked(A2, x, q)
  BY ActedFacts
<1>2. /\ x \in NodeId /\ t \in Nat /\ b \in Entries(C) /\ nd.id = x /\ IsFiniteSet(V) /\ Ripe(nd)
  BY <1>1, ActingTyped DEF Acting
<1>3. c \in b.prev.index .. LastIndex(b) /\ TermAt(b, c) = t /\ HasMajority(S, V)
  BY DEF Commits, ContainsIndex
<1>4. b.prev.index \in Nat /\ LastIndex(b) \in Nat
  BY <1>2, EntriesFacts
<1>5. r.term = t /\ r.index = c /\ r \in Position
  BY <1>2 DEF Pos, Position
<1>6. Matches(A2, nd) /\ AcksOK(G2, A2, T2)
  BY MatchesActed, AcksActed
<1>7. \A f \in DOMAIN nd.followers : nd.followers[f] \in Nat
  BY <1>1, ActingTyped DEF Sound
<1> HIDE DEF r, c, t
<1>8. ASSUME NEW v \in S PROVE Acked(A2, v, r) /\ v \in NodeId
  <2>0. MatchIndex(nd, v) >= c
    BY <1>8
  <2>1. CASE v = x
    <3>1. LastPosition(b).term = t /\ LastPosition(b).index = LastIndex(b)
      BY <1>2, LastPositionTyped DEF Ripe, t
    <3>2. c <= LastIndex(b)
      BY <1>3, <1>4
    <3> QED
      BY <1>1, <1>2, <1>5, <2>1, <3>1, <3>2
  <2>2. CASE v # x
    <3>1. v \in DOMAIN nd.followers /\ MatchIndex(nd, v) = nd.followers[v]
      <4>1. MatchIndex(nd, v) = IF v \in DOMAIN nd.followers THEN nd.followers[v] ELSE 0
        BY <1>2, <2>2 DEF MatchIndex
      <4>2. ~(0 >= c)
        BY DEF c
      <4> QED
        BY <2>0, <4>1, <4>2
    <3>2. c \in b.prev.index .. nd.followers[v]
      <4>1. c \in Nat /\ nd.followers[v] \in Nat /\ nd.followers[v] >= c
        BY <1>7, <2>0, <3>1 DEF c
      <4>2. b.prev.index <= c
        BY <1>3, <1>4
      <4> HIDE DEF b
      <4> QED
        BY <1>4, <4>1, <4>2
    <3>3. Acked(A2, v, r)
      BY <1>3, <1>6, <3>1, <3>2 DEF Matches, t, r
    <3>4. v \in NodeId
      BY <1>6, <3>3 DEF Acked, AcksOK
    <3> QED
      BY <3>3, <3>4
  <2> QED
    BY <2>1, <2>2
<1>9. S \subseteq Ackers(A2, r)
  BY <1>8 DEF Ackers
<1> HIDE DEF S
<1>10. HasMajority(Ackers(A2, r), V)
  <2>1. S \cap V \subseteq Ackers(A2, r)
    BY <1>9
  <2> QED
    BY <1>2, <1>3, <2>1, MajorityMore
<1> QED
  BY <1>5, <1>10 DEF Chosen, r, t, c

LEMMA CommitActed ==
  ASSUME NEW V, NEW G, NEW A, NEW x, NEW nd, NEW H, NEW G2, NEW A2, NEW T2,
         Acted(V, G, A, x, nd, H, G2, A2, T2)
  PROVE  CommitSafe(G2, Chosen(V, A2), nd)
<1> DEFINE C == FixedConfigs(V)
           U == Voided(V, A, Now)
           X == Chosen(V, A)
           U2 == Voided(V, A2, T2)
           X2 == Chosen(V, A2)
           L == node[x].log.entries
           b == nd.log.entries
           t == nd.current_term
           c == node[x].commit_index
           k == nd.commit_index
<1>1. /\ Acting(V, G, A, x, nd, H)
      /\ Widens(C, G, U, X, G2, U2, X2)
      /\ Tree(G2, C) /\ Backed(G2, b)
      /\ Continues(G, U, G2, U2, L, b, c)
  BY ActedFacts
<1>2. /\ x \in NodeId /\ t \in Nat /\ b \in Entries(C) /\ L \in Entries(C)
      /\ node[x].current_term \in Nat /\ node[x].current_term <= t
      /\ Sound(nd, C) /\ Sound(node[x], C)
  BY <1>1, ActingTyped
<1>3. Committing(V, node[x], nd, H)
  BY <1>1 DEF Acting, Deed
<1>4. /\ ContainsIndex(L, c)
      /\ Decided(G, X, Spot(L, c), node[x].current_term)
  BY <1>1, ActingSafe DEF NodeSafe, CommitSafe
<1>5. k \in Nat /\ c \in Nat
  BY <1>2 DEF Sound
<1>6. L.prev.index <= c /\ b.prev = L.prev /\ b.prev.index \in Nat /\ LastIndex(b) \in Nat
  BY <1>1, <1>2, <1>4, TermAtTyped, EntriesFacts DEF Continues
<1> HIDE DEF U, X, U2, X2
<1>7. CASE k = c
  <2>1. ContainsIndex(b, c) /\ Spot(b, c) = Spot(L, c)
    BY <1>1, <1>4 DEF Continues
  <2>2. Decided(G2, X2, Spot(L, c), t)
    BY <1>1, <1>2, <1>4, DecidedWidens
  <2> QED
    BY <1>7, <2>1, <2>2 DEF CommitSafe, X2
<1>8. CASE k > c /\ nd.role = "Leader" /\ Commits(V, nd)
  <2>1. k > 0
    BY <1>5, <1>8
  <2>2. ContainsIndex(b, k) /\ TermAt(b, k) = t
    BY <1>8 DEF Commits
  <2>3. Spot(b, k) = Pos(t, k)
    BY <2>2 DEF Spot
  <2>4. Pos(t, k) \in X2
    BY <1>5, <1>8, <2>1, CommitsChosen DEF X2
  <2>5. OnTree(G2, Pos(t, k))
    <3>1. Contains(b, Pos(t, k))
      BY <2>2 DEF Contains, Pos
    <3> QED
      BY <1>1, <1>2, <3>1, BackedFacts
  <2>6. Before(G2, Pos(t, k), Pos(t, k))
    BY <1>1, <2>5, BeforeReflexive
  <2>7. Pos(t, k).term <= t
    BY <1>2 DEF Pos
  <2>8. Decided(G2, X2, Pos(t, k), t)
    BY <2>4, <2>6, <2>7 DEF Decided
  <2> QED
    BY <2>2, <2>3, <2>8 DEF CommitSafe, X2
<1>9. CASE k > c /\ \E m \in H : Hears(node[x], nd, m)
  <2>1. PICK m \in H : Hears(node[x], nd, m)
    BY <1>9
  <2> DEFINE es == m.entries
             i == m.commit_index
  <2>2. /\ OfLeader(nd, m) /\ LastPosition(b) = LastPosition(es) /\ k = Min({i, LastIndex(b)})
    BY <2>1 DEF Hears
  <2> DEFINE Has(g, n) == /\ PartOf(es, g)
                          /\ i <= n
                          /\ Decided(G, X, Spot(g, i), t)
  <2>3. es \in Entries(C) /\ i \in Nat
        /\ \E g \in G : \E n \in LastIndex(es) .. LastIndex(g) : Has(g, n)
    BY <1>1, <2>2, CallHeard DEF X
  <2>4. PICK g \in G : \E n \in LastIndex(es) .. LastIndex(g) : Has(g, n)
    BY <2>3
  <2>5. PICK n \in LastIndex(es) .. LastIndex(g) : Has(g, n)
    BY <2>4
  <2>6. PartOf(es, g) /\ i <= n /\ Decided(G, X, Spot(g, i), t)
    BY <2>5
  <2>7. /\ g \in G2 /\ g \in Entries(C) /\ g.prev = ZERO /\ g.prev.index = 0
        /\ LastIndex(g) \in Nat /\ LastIndex(es) \in Nat /\ es.prev.index \in Nat
    BY <1>1, <2>3, <2>4, EntriesFacts DEF Widens, Tree, ZERO, Pos
  <2>8. n \in Nat /\ n <= LastIndex(g)
    BY <2>5, <2>7
  <2> HIDE DEF es, i, b, Has, k, c
  <2>9. Contains(g, LastPosition(es))
    <3>1. g.prev.index <= es.prev.index
      BY <2>7
    <3> QED
      BY <2>3, <2>6, <2>7, <3>1, PartFacts
  <2>10. PartOf(b, g)
    BY <1>1, <1>2, <2>2, <2>7, <2>9, BackedFacts DEF b
  <2>11. /\ LastIndex(b) <= LastIndex(g)
         /\ \A j \in b.prev.index .. LastIndex(b) : TermAt(b, j) = TermAt(g, j)
    <3>1. g.prev.index <= b.prev.index
      BY <1>6, <2>7
    <3> QED
      BY <1>2, <2>7, <2>10, <3>1, PartFacts DEF b
  <2>12. k <= i /\ k <= LastIndex(b)
    BY <1>6, <2>2, <2>3, LesserOf DEF b
  <2>13. ContainsIndex(b, k) /\ k \in b.prev.index .. LastIndex(b)
    <3>1. b.prev.index <= k
      <4>1. b.prev.index <= c
        BY <1>6
      <4> QED
        BY <1>5, <1>6, <1>9, <4>1
    <3> QED
      BY <1>5, <1>6, <2>12, <3>1 DEF ContainsIndex
  <2>14. Spot(b, k) = Spot(g, k)
    BY <2>11, <2>13 DEF Spot
  <2>15. Decided(G2, X2, Spot(g, i), t)
    BY <1>1, <1>2, <2>6, DecidedWidens
  <2>16. Before(G2, Spot(g, k), Spot(g, i))
    <3>1. i <= LastIndex(g) /\ k <= LastIndex(g)
      BY <1>5, <2>3, <2>6, <2>7, <2>8, <2>12
    <3>2. Contains(g, Spot(g, k)) /\ Contains(g, Spot(g, i))
      BY <1>5, <2>3, <2>7, <3>1 DEF Contains, ContainsIndex, Spot, Pos
    <3>3. Spot(g, k).index = k /\ Spot(g, i).index = i
      BY DEF Spot, Pos
    <3> QED
      BY <2>7, <2>12, <3>2, <3>3 DEF Before
  <2>17. Decided(G2, X2, Spot(g, k), t)
    <3>1. Spot(g, k) = Pos(Spot(g, k).term, Spot(g, k).index)
      BY DEF Spot, Pos
    <3> QED
      BY <1>1, <2>15, <2>16, <3>1, DecidedBelow
  <2> QED
    BY <2>13, <2>14, <2>17 DEF CommitSafe, X2, b, k
<1> QED
  BY <1>3, <1>7, <1>8, <1>9 DEF Committing

LEMMA NodeActed ==
  ASSUME NEW V, NEW G, NEW A, NEW x, NEW nd, NEW H, NEW G2, NEW A2, NEW T2,
         Acted(V, G, A, x, nd, H, G2, A2, T2)
  PROVE  NodeSafe(G2, A2, Voided(V, A2, T2), Chosen(V, A2), x, nd, Persist(stored[x], nd, 4))
<1> DEFINE b == nd.log.entries
           last == LastPosition(b)
<1>1. LogsSafe(G2, b, Persist(stored[x], nd, 4).log.entries)
  BY ActedFacts
<1>2. last.term = nd.current_term => Acked(A2, x, last)
  <2>1. /\ Acting(V, G, A, x, nd, H)
        /\ last.term = nd.current_term =>
             \A r : r.term = last.term /\ r.index <= last.index => Acked(A2, x, r)
    BY ActedFacts
  <2>2. last.index \in Nat
    BY <2>1, ActingTyped, LastPositionTyped DEF Position
  <2> HIDE DEF last
  <2> QED
    BY <2>1, <2>2
<1>3. Keeper(G2, A2, Voided(V, A2, T2), x, b)
  BY KeeperActed
<1>4. nd.role = "Leader" => Matches(A2, nd)
  BY MatchesActed
<1>5. CommitSafe(G2, Chosen(V, A2), nd)
  BY CommitActed
<1> QED
  BY <1>1, <1>2, <1>3, <1>4, <1>5 DEF NodeSafe

-----------------------------------------------------------------------------
(* What the node sends. *)

\* A slice of a message is as honest as the message.
LEMMA SliceHonest ==
  ASSUME NEW C, NEW nd, Sound(nd, C), NEW m, IsMessage(m), MessageOK(m, C), Honest(nd, m),
         NEW s \in Slices(m)
  PROVE  IsMessage(s) /\ MessageOK(s, C) /\ s.from = m.from /\ Honest(nd, s)
<1>0. IsMessage(s) /\ s.from = m.from /\ MessageOK(s, C)
  <2>1. m.term \in Nat
    BY DEF IsMessage
  <2>2. Speaks(m, m.from, m.term)
    BY <2>1 DEF Speaks
  <2>3. Speaks(s, m.from, m.term)
    BY <2>2, SlicesSpeak
  <2> QED
    BY <2>3, SlicesTyped DEF Speaks
<1>1. CASE s = m
  BY <1>0, <1>1
<1>2. CASE s # m
  <2>1. /\ m.type = "AppendEntriesCall"
        /\ \E n \in 0 .. Len(m.entries.ents) :
             \E i \in Truncate(m.entries, n).prev.index .. LastIndex(Truncate(m.entries, n)) :
               s = [m EXCEPT !.entries = Since(Truncate(m.entries, n),
                                               Pos(TermAt(Truncate(m.entries, n), i), i))]
    BY <1>2 DEF Slices
  <2>2. PICK n \in 0 .. Len(m.entries.ents) :
          \E i \in Truncate(m.entries, n).prev.index .. LastIndex(Truncate(m.entries, n)) :
            s = [m EXCEPT !.entries = Since(Truncate(m.entries, n),
                                            Pos(TermAt(Truncate(m.entries, n), i), i))]
    BY <2>1
  <2> DEFINE es == Truncate(m.entries, n)
  <2>3. PICK i \in es.prev.index .. LastIndex(es) :
          s = [m EXCEPT !.entries = Since(es, Pos(TermAt(es, i), i))]
    BY <2>2
  <2>4. m.entries \in Entries(C) /\ n \in Int
    BY <2>1 DEF MessageOK
  <2>5. es \in Entries(C) /\ PartOf(es, m.entries) /\ es.prev = m.entries.prev
    BY <2>4, TruncateIsPart
  <2> HIDE DEF es
  <2> DEFINE p == Pos(TermAt(es, i), i)
             s2 == Since(es, p)
  <2>6. p \in Position /\ Contains(es, p)
    BY <2>5, PositionTyped DEF Contains, ContainsIndex, Pos
  <2>6a. p.index = i
    BY DEF Pos
  <2> HIDE DEF p
  <2>7. PartOf(s2, es) /\ s2 \in Entries(C) /\ s2.prev = p
    BY <2>5, <2>6, SinceIsPart
  <2>8. s = [m EXCEPT !.entries = s2]
    BY <2>3 DEF p
  <2> HIDE DEF s2
  <2>9. m = [type |-> m.type, from |-> m.from, term |-> m.term,
             commit_index |-> m.commit_index, entries |-> m.entries]
    BY <2>1 DEF IsMessage
  <2>10. /\ s.entries = s2 /\ s.type = "AppendEntriesCall" /\ s.term = m.term
         /\ s.commit_index = m.commit_index
    BY <2>1, <2>8, <2>9
  <2>11. nd.role = "Leader" /\ Cites(nd, m)
    BY <2>1 DEF Honest
  <2> DEFINE L == nd.log.entries
  <2>12. L \in Entries(C)
    BY SoundLog
  <2>13. /\ L.prev.index \in Nat /\ es.prev.index \in Nat /\ m.entries.prev.index \in Nat
         /\ s2.prev.index \in Nat
    BY <2>12, <2>5, <2>4, <2>7, EntriesFacts
  <2>14. es.prev.index <= s2.prev.index
    BY <2>6, <2>6a, <2>7, <2>13
  <2>15. PartOf(m.entries, L) /\ L.prev.index <= m.entries.prev.index
    BY <2>11 DEF Cites
  <2> HIDE DEF L
  <2>16. PartOf(es, L)
    BY <2>4, <2>5, <2>12, <2>13, <2>15, PartWithin
  <2>17. PartOf(s2, L)
    BY <2>5, <2>7, <2>12, <2>13, <2>14, <2>15, <2>16, PartWithin
  <2>18. L.prev.index <= s2.prev.index
    BY <2>13, <2>14, <2>15, <2>5
  <2>19. Cites(nd, s)
    BY <2>10, <2>11, <2>17, <2>18 DEF Cites, L
  <2> QED
    BY <1>0, <2>10, <2>11, <2>19 DEF Honest
<1> QED
  BY <1>1, <1>2

\* What a leader cites of its log.
LEMMA CitesSafe ==
  ASSUME NEW V, NEW G, NEW A, NEW x, NEW nd, NEW H, NEW G2, NEW A2, NEW T2,
         Acted(V, G, A, x, nd, H, G2, A2, T2), nd.role = "Leader",
         NEW m, m.entries \in Entries(FixedConfigs(V)), m.commit_index \in Nat, Cites(nd, m)
  PROVE  CallSafe(G2, Chosen(V, A2), m)
<1> DEFINE C == FixedConfigs(V)
           X2 == Chosen(V, A2)
           L == nd.log.entries
           n == LastIndex(L)
           c == nd.commit_index
<1>1. /\ Acting(V, G, A, x, nd, H)
      /\ Tree(G2, C)
      /\ Backed(G2, L)
  BY ActedFacts
<1>2. L \in Entries(C) /\ Sound(nd, C)
  BY <1>1, ActingTyped
<1>3. Ripe(nd)
  BY <1>1 DEF Acting
<1>4. CommitSafe(G2, X2, nd)
  BY CommitActed
<1>5. /\ m.term = nd.current_term /\ PartOf(m.entries, L)
      /\ L.prev.index <= m.entries.prev.index /\ m.commit_index <= c
  BY DEF Cites
<1>6. PICK g \in G2 : PartOf(L, g)
  BY <1>1 DEF Backed
<1>7. g \in Entries(C) /\ g.prev = ZERO
  BY <1>1 DEF Tree
<1>8. TermAt(L, n) = nd.current_term
  BY <1>3 DEF Ripe, LastPosition, Pos
<1>9. ContainsIndex(L, c) /\ Decided(G2, X2, Spot(L, c), nd.current_term)
  BY <1>4 DEF CommitSafe
<1>10. L.prev.index \in Nat /\ n \in Nat /\ m.entries.prev.index \in Nat /\ LastIndex(m.entries) \in Nat
       /\ L.prev.index <= n
  BY <1>2, EntriesFacts
<1>11. g.prev.index = 0 /\ LastIndex(g) \in Nat
  BY <1>7, FullFacts
<1> HIDE DEF L, n, X2, C
<1>12. /\ n <= LastIndex(g)
       /\ \A i \in L.prev.index .. n : TermAt(L, i) = TermAt(g, i)
  BY <1>2, <1>6, <1>7, <1>10, <1>11, PartFacts DEF n
<1>13. PartOf(m.entries, g)
  BY <1>2, <1>5, <1>6, <1>7, <1>10, <1>11, PartWithin DEF C
<1>14. LastIndex(m.entries) <= n
  BY <1>5 DEF PartOf, n
<1>15. c \in L.prev.index .. n
  BY <1>9 DEF ContainsIndex, n
<1>16. n \in LastIndex(m.entries) .. LastIndex(g)
  BY <1>10, <1>11, <1>12, <1>14
<1>17. TermAt(g, n) = m.term
  BY <1>5, <1>8, <1>10, <1>12
<1>18. c \in Nat /\ c <= n /\ m.commit_index <= n
  BY <1>5, <1>10, <1>15
<1> DEFINE q == Spot(g, c)
           r == Spot(g, m.commit_index)
<1>19. q = Spot(L, c)
  BY <1>12, <1>15 DEF Spot
<1>20. q.index = c /\ r.index = m.commit_index /\ r = Pos(r.term, r.index)
       /\ q.term = TermAt(g, c) /\ r.term = TermAt(g, m.commit_index)
  BY DEF Spot, Pos
<1> HIDE DEF q, r
<1>21. Contains(g, q) /\ Contains(g, r)
  BY <1>5, <1>7, <1>11, <1>12, <1>18, <1>20, <1>10, FullFacts
<1>22. Before(G2, r, q)
  BY <1>5, <1>20, <1>21 DEF Before
<1>23. Decided(G2, X2, r, m.term)
  BY <1>1, <1>5, <1>9, <1>19, <1>20, <1>22, DecidedBelow DEF C
<1> QED
  BY <1>13, <1>16, <1>17, <1>18, <1>23 DEF CallSafe, r, X2

\* A message that the node sends.
LEMMA HonestSafe ==
  ASSUME NEW V, NEW G, NEW A, NEW x, NEW nd, NEW H, NEW G2, NEW A2, NEW T2,
         Acted(V, G, A, x, nd, H, G2, A2, T2), NEW p, IsMessage(p.msg),
         MessageOK(p.msg, FixedConfigs(V)), Honest(nd, p.msg), p.msg.from = x
  PROVE  PacketSafe(G2, A2, Chosen(V, A2), T2, p)
<1> DEFINE m == p.msg
           last == LastPosition(nd.log.entries)
<1>1. /\ OnTree(G2, last)
      /\ last.term = nd.current_term =>
           \A r : r.term = last.term /\ r.index <= last.index => Acked(A2, x, r)
      /\ Acting(V, G, A, x, nd, H)
  BY ActedFacts
<1>2. m.type = "RequestVoteCall" => OnTree(G2, m.last_position)
  BY <1>1 DEF Honest
<1>3. m.type = "AppendEntriesCall" => CallSafe(G2, Chosen(V, A2), m)
  BY CitesSafe DEF Honest, MessageOK
<1>4. m.type # "InstallSnapshot"
  BY DEF IsMessage
<1>5. last.index <= last.index
  <2>1. nd.log.entries \in Entries(FixedConfigs(V))
    BY <1>1, ActingTyped
  <2>2. last.index \in Nat
    BY <2>1, EntriesFacts DEF LastPosition, Pos
  <2> QED
    BY <2>2
<1>6. (m.type = "AppendEntriesReply" /\ m.last_position.term = m.term)
        => Acked(A2, m.from, m.last_position)
  BY <1>1, <1>5 DEF Honest
<1> QED
  BY <1>2, <1>3, <1>4, <1>6 DEF PacketSafe

\* The snapshot that the leader tells the user to send.
LEMMA TransferSafe ==
  ASSUME NEW V, NEW G, NEW A, NEW x, NEW nd, NEW H, NEW G2, NEW A2, NEW T2,
         Acted(V, G, A, x, nd, H, G2, A2, T2), NEW f \in nd.actions.install_snapshots,
         f \in NodeId
  PROVE  LET q == nd.log.entries.prev IN
         OnTree(G2, q) /\ Decided(G2, Chosen(V, A2), q, T2[f])
<1> DEFINE C == FixedConfigs(V)
           X2 == Chosen(V, A2)
           U2 == Voided(V, A2, T2)
           L == nd.log.entries
           c == nd.commit_index
           q == L.prev
           r == Spot(L, c)
           t == nd.current_term
<1>1. /\ Acting(V, G, A, x, nd, H)
      /\ Tree(G2, C)
      /\ Backed(G2, L)
      /\ T2[x] = t
      /\ \A y \in NodeId : y # x => T2[y] = Now[y]
  BY ActedFacts
<1>2. L \in Entries(C) /\ t \in Nat /\ Typed(C)
  BY <1>1, ActingTyped
<1>3. ContainsIndex(L, c) /\ Decided(G2, X2, r, t)
  BY CommitActed DEF CommitSafe
<1>4. PICK m \in H : m.type = "AppendEntriesReply" /\ m.from = f /\ m.term = t
  BY <1>1 DEF Acting, Deed, Speaking
<1>5. PICK p \in net : p.msg = m
  BY <1>1, PacketHeard
<1>6. T2[f] \in Nat /\ t <= T2[f]
  <2>1. CASE f = x
    BY <1>1, <1>2, <2>1
  <2>2. CASE f # x
    <3>1. T2[f] = node[f].current_term
      BY <1>1, <2>2 DEF Now
    <3>2. t <= stored[f].current_term
      BY <1>2, <1>4, <1>5 DEF Typed, Durable, PacketsDurable
    <3>3. Backs(stored[f], node[f]) /\ IsNode(node[f])
      BY <1>2, TypedFacts
    <3>4. /\ stored[f].current_term <= node[f].current_term
          /\ node[f].current_term \in Nat /\ stored[f].current_term \in Nat
      BY <3>3 DEF Backs, IsDisk, IsNode, IsRecord
    <3> QED
      BY <1>2, <3>1, <3>2, <3>4
  <2> QED
    BY <2>1, <2>2
<1>7. /\ L.prev.index \in Nat /\ LastIndex(L) \in Nat /\ L.prev.index <= LastIndex(L)
      /\ q \in Position
  BY <1>2, EntriesFacts
<1> HIDE DEF L, X2, C, t
<1>8. r = Pos(r.term, r.index) /\ r.index = c /\ r.term = TermAt(L, c)
  BY DEF Spot, Pos
<1>9. c \in L.prev.index .. LastIndex(L)
  BY <1>3 DEF ContainsIndex
<1> HIDE DEF r, c
<1>10. Contains(L, r)
  BY <1>8, <1>9 DEF Contains, ContainsIndex
<1>11. Contains(L, q)
  BY <1>7 DEF Contains, ContainsIndex, TermAt
<1>12. PICK g \in G2 : PartOf(L, g)
  BY <1>1 DEF Backed
<1>13. g \in Entries(C) /\ g.prev.index = 0
  BY <1>1 DEF Tree, ZERO, Pos
<1>14. Contains(g, q) /\ Contains(g, r)
  BY <1>2, <1>7, <1>10, <1>11, <1>12, <1>13, PartFacts
<1>15. Before(G2, q, r)
  BY <1>7, <1>8, <1>9, <1>14 DEF Before
<1>16. q = Pos(q.term, q.index)
  BY <1>7 DEF Position, Pos
<1>17. Decided(G2, X2, q, t)
  BY <1>1, <1>3, <1>15, <1>16, DecidedBelow
<1>18. Widens(C, G2, U2, X2, G2, U2, X2)
  BY <1>1 DEF Widens
<1> HIDE DEF U2, q
<1>19. Decided(G2, X2, q, T2[f])
  BY <1>2, <1>6, <1>17, <1>18, DecidedWidens
<1>20. OnTree(G2, q)
  BY <1>14 DEF OnTree
<1> QED
  BY <1>19, <1>20 DEF q, L, X2

LEMMA OutboundSafe ==
  ASSUME NEW V, NEW G, NEW A, NEW x, NEW nd, NEW H, NEW G2, NEW A2, NEW T2,
         Acted(V, G, A, x, nd, H, G2, A2, T2), NEW p \in Outbound(nd)
  PROVE  /\ PacketSafe(G2, A2, Chosen(V, A2), T2, p)
         /\ p.msg.type = "RequestVoteCall" =>
              /\ nd.role = "Candidate"
              /\ p.msg.from = x
              /\ p.msg.term = nd.current_term
              /\ p.msg.last_position = LastPosition(nd.log.entries)
         /\ p.msg.type = "AppendEntriesReply" =>
              /\ p.msg.from = x
              /\ p.msg.last_position = LastPosition(nd.log.entries)
<1> DEFINE C == FixedConfigs(V)
<1>1. Acting(V, G, A, x, nd, H)
  BY ActedFacts
<1>2. Sound(nd, C) /\ nd.id = x
  BY <1>1, ActingTyped
<1>3. Speaking(nd, H)
  BY <1>1 DEF Acting, Deed
<1>4. /\ \A b \in nd.actions.broadcast_message :
           IsMessage(b) /\ MessageOK(b, C) /\ Honest(nd, b) /\ b.from = x
      /\ \A d \in DOMAIN nd.actions.send_messages :
           /\ IsMessage(nd.actions.send_messages[d])
           /\ MessageOK(nd.actions.send_messages[d], C)
           /\ Honest(nd, nd.actions.send_messages[d])
           /\ nd.actions.send_messages[d].from = x
  BY <1>2, <1>3 DEF Sound, QueuesOK, IsNode, OwnMessages, Speaks, Speaking
<1> HIDE DEF C
<1>5. ASSUME NEW m, IsMessage(m), MessageOK(m, C), Honest(nd, m), m.from = x, p.msg \in Slices(m)
      PROVE  /\ PacketSafe(G2, A2, Chosen(V, A2), T2, p)
             /\ p.msg.type = "RequestVoteCall" =>
                  /\ nd.role = "Candidate"
                  /\ p.msg.from = x
                  /\ p.msg.term = nd.current_term
                  /\ p.msg.last_position = LastPosition(nd.log.entries)
             /\ p.msg.type = "AppendEntriesReply" =>
                  /\ p.msg.from = x
                  /\ p.msg.last_position = LastPosition(nd.log.entries)
  <2>1. IsMessage(p.msg) /\ MessageOK(p.msg, C) /\ p.msg.from = x /\ Honest(nd, p.msg)
    BY <1>2, <1>5, SliceHonest
  <2>2. PacketSafe(G2, A2, Chosen(V, A2), T2, p)
    BY <2>1, HonestSafe DEF C
  <2> QED
    BY <2>1, <2>2 DEF Honest
<1>6. CASE p \in Broadcasts(nd)
  <2>1. PICK b \in nd.actions.broadcast_message : p.msg \in Slices(b)
    BY <1>6 DEF Broadcasts
  <2> QED
    BY <1>4, <1>5, <2>1
<1>7. CASE p \in Sends(nd)
  <2>1. PICK d \in DOMAIN nd.actions.send_messages :
          p.msg \in Slices(nd.actions.send_messages[d])
    BY <1>7 DEF Sends
  <2> QED
    BY <1>4, <1>5, <2>1
<1>8. CASE p \in Transfers(nd)
  <2>1. PICK f \in nd.actions.install_snapshots : p.to = f /\ p.msg = SnapshotTransfer(nd)
    BY <1>8 DEF Transfers
  <2>2. p.msg.type = "InstallSnapshot" /\ p.msg.position = nd.log.entries.prev
    BY <2>1 DEF SnapshotTransfer
  <2>3. f \in NodeId => /\ OnTree(G2, nd.log.entries.prev)
                        /\ Decided(G2, Chosen(V, A2), nd.log.entries.prev, T2[f])
    BY TransferSafe
  <2> QED
    BY <2>1, <2>2, <2>3 DEF PacketSafe
<1> QED
  BY <1>6, <1>7, <1>8 DEF Outbound

-----------------------------------------------------------------------------
(* Candidates. *)

\* The call's actions are executed.
Executes(V, G, A, x, nd, H, G2, A2, T2) ==
  /\ Acted(V, G, A, x, nd, H, G2, A2, T2)
  /\ Moves(x, nd, FixedConfigs(V))
  /\ stored'[x].log = Persist(stored[x], nd, 4).log

LEMMA ExecutesFacts ==
  ASSUME NEW V, NEW G, NEW A, NEW x, NEW nd, NEW H, NEW G2, NEW A2, NEW T2,
         Executes(V, G, A, x, nd, H, G2, A2, T2), NEW C, C = FixedConfigs(V)
  PROVE  /\ Acted(V, G, A, x, nd, H, G2, A2, T2)
         /\ Acting(V, G, A, x, nd, H)
         /\ x \in NodeId
         /\ Typed(C)
         /\ FixedInv(V)
         /\ Acts(V, x, nd)
         /\ Moves(x, nd, C)
         /\ OthersRest(x)
         /\ \A y \in NodeId : y # x => node'[y] = node[y] /\ stored'[y] = stored[y]
         /\ node'[x].id = x
         /\ node'[x].role = nd.role
         /\ node'[x].current_term = nd.current_term
         /\ node'[x].log = nd.log
         /\ node'[x].commit_index = nd.commit_index
         /\ node'[x].followers = nd.followers
         /\ \A p \in net' : p \in net \/ p \in Outbound(nd)
         /\ nd.role = "Candidate" =>
              \/ node[x].role = "Candidate" /\ nd.current_term = node[x].current_term
              \/ node[x].current_term < nd.current_term
<1>1. /\ Acted(V, G, A, x, nd, H, G2, A2, T2)
      /\ Moves(x, nd, C)
  BY DEF Executes
<1>2. Acting(V, G, A, x, nd, H)
  BY <1>1, ActedFacts
<1>3. /\ x \in NodeId /\ Typed(C) /\ FixedInv(V) /\ VotersFixed(V) /\ Turns(x, nd, C)
  BY <1>2 DEF Acting
<1>4. Acts(V, x, nd)
  BY <1>1, <1>3, TurnsTurned DEF Acts
<1>5. nd.id = x
  BY <1>2, ActingTyped
<1>6. /\ OthersRest(x)
      /\ SameState(nd, node'[x])
      /\ \A p \in net' : p \in net \/ p \in Outbound(nd)
  BY <1>1 DEF Moves
<1>7. nd.role = "Candidate" =>
              \/ node[x].role = "Candidate" /\ nd.current_term = node[x].current_term
              \/ node[x].current_term < nd.current_term
  BY <1>3 DEF Turns, Outcome, CountsRightly
<1>8. \A y \in NodeId : y # x => node'[y] = node[y] /\ stored'[y] = stored[y]
  BY <1>6 DEF OthersRest
<1> QED
  BY <1>1, <1>2, <1>3, <1>4, <1>5, <1>6, <1>7, <1>8 DEF SameState

\* The candidate's log keeps what is before the position it calls with.
LEMMA CandidateCalls ==
  ASSUME NEW V, NEW G, NEW A, NEW x, NEW nd, NEW H, NEW G2, NEW A2, NEW T2,
         Executes(V, G, A, x, nd, H, G2, A2, T2), NEW U2, U2 = Voided(V, A2, T2),
         NEW c \in NodeId, node'[c].role = "Candidate", NEW p \in net',
         p.msg.type = "RequestVoteCall", p.msg.from = c, p.msg.term = node'[c].current_term,
         NEW r, Before(G2, r, p.msg.last_position)
  PROVE  Kept(G2, U2, r, LastPosition(node'[c].log.entries))
<1> DEFINE C == FixedConfigs(V)
           U == Voided(V, A, Now)
           X == Chosen(V, A)
           X2 == Chosen(V, A2)
           lp == p.msg.last_position
           old == LastPosition(node[c].log.entries)
           new == LastPosition(node'[c].log.entries)
<1>1. /\ Acted(V, G, A, x, nd, H, G2, A2, T2)
      /\ Acting(V, G, A, x, nd, H)
      /\ x \in NodeId /\ Typed(C)
      /\ \A y \in NodeId : y # x => node'[y] = node[y]
      /\ node'[x].role = nd.role
      /\ node'[x].current_term = nd.current_term
      /\ node'[x].log = nd.log
      /\ p \in net \/ p \in Outbound(nd)
      /\ nd.role = "Candidate" =>
              \/ node[x].role = "Candidate" /\ nd.current_term = node[x].current_term
              \/ node[x].current_term < nd.current_term
  BY ExecutesFacts
<1>2. /\ Widens(C, G, U, X, G2, U2, X2)
      /\ Continues(G, U, G2, U2, node[x].log.entries, nd.log.entries, node[x].commit_index)
  BY <1>1, ActedFacts
<1>3. SafeInv(V, G, A)
  BY <1>1 DEF Acting
<1>4. /\ \A q \in net : PacketSafe(G, A, X, Now, q)
      /\ node[c].role = "Candidate" => CandidateSafe(V, G, A, U, c)
  BY <1>3 DEF SafeInv, SafeNow
<1>5. ASSUME p \in net, node[c].role = "Candidate", node[c].current_term = p.msg.term
      PROVE  Kept(G, U, r, old)
  <2>1. OnTree(G, lp)
    BY <1>4, <1>5 DEF PacketSafe
  <2>2. Before(G, r, lp)
    <3>1. G \subseteq G2 /\ Tree(G2, C)
      BY <1>2 DEF Widens
    <3>2. Before(G2, r, lp)
      OBVIOUS
    <3> HIDE DEF C, lp
    <3> QED
      BY <2>1, <3>1, <3>2, BeforeGrown
  <2>3. CandidateSafe(V, G, A, U, c)
    BY <1>4, <1>5
  <2> HIDE DEF U
  <2> QED
    BY <1>5, <2>2, <2>3 DEF CandidateSafe
<1>6. CASE p \in Outbound(nd)
  <2>1. nd.role = "Candidate" /\ p.msg.from = x /\ lp = LastPosition(nd.log.entries)
    BY <1>1, <1>6, OutboundSafe
  <2>2. lp = new
    BY <1>1, <2>1
  <2> QED
    BY <2>2 DEF Kept
<1>7. CASE p \in net /\ c # x
  <2>1. node'[c] = node[c]
    BY <1>1, <1>7
  <2>2. Kept(G, U, r, old)
    BY <1>5, <1>7, <2>1
  <2> HIDE DEF U, X, X2, C
  <2>3. Kept(G2, U2, r, old)
    BY <1>2, <2>2, KeptWidens
  <2> QED
    BY <2>1, <2>3
<1>8. CASE p \in net /\ c = x
  <2>1. p.msg.term = nd.current_term /\ nd.role = "Candidate"
    BY <1>1, <1>8
  <2>2. p.msg.term <= stored[x].current_term
    BY <1>1, <1>8 DEF Typed, Durable, PacketsDurable
  <2>3. /\ stored[x].current_term <= node[x].current_term
        /\ node[x].current_term \in Nat /\ stored[x].current_term \in Nat
        /\ nd.current_term \in Nat
    <3>1. Backs(stored[x], node[x]) /\ IsNode(node[x])
      BY <1>1, TypedFacts
    <3>2. nd.current_term \in Nat
      BY <1>1, ActingTyped
    <3> QED
      BY <3>1, <3>2 DEF Backs, IsDisk, IsNode, IsRecord
  <2>4. node[x].role = "Candidate" /\ nd.current_term = node[x].current_term
    BY <1>1, <2>1, <2>2, <2>3
  <2>5. Kept(G, U, r, old)
    BY <1>5, <1>8, <2>1, <2>4
  <2>6. Kept(G2, U2, r, LastPosition(nd.log.entries))
    BY <1>2, <1>8, <2>5 DEF Continues
  <2> QED
    BY <1>1, <1>8, <2>6
<1> QED
  BY <1>1, <1>6, <1>7, <1>8

\* What the voters of the candidate have acknowledged.
LEMMA CandidateVotes ==
  ASSUME NEW V, NEW G, NEW A, NEW x, NEW nd, NEW H, NEW G2, NEW A2, NEW T2,
         Executes(V, G, A, x, nd, H, G2, A2, T2), NEW U2, U2 = Voided(V, A2, T2),
         NEW c \in NodeId, node'[c].role = "Candidate",
         Keeper(G2, A2, U2, c, node'[c].log.entries),
         NEW w \in V, NEW t, t = node'[c].current_term, Granted(w, t, c)',
         NEW r, OnTree(G2, r), r.term < t, Acked(A2, w, r)
  PROVE  Kept(G2, U2, r, LastPosition(node'[c].log.entries))
<1> DEFINE C == FixedConfigs(V)
           U == Voided(V, A, Now)
           X == Chosen(V, A)
           X2 == Chosen(V, A2)
           old == LastPosition(node[c].log.entries)
           new == LastPosition(node'[c].log.entries)
           mine == LastPosition(nd.log.entries)
<1>1. /\ Acted(V, G, A, x, nd, H, G2, A2, T2)
      /\ Acting(V, G, A, x, nd, H)
      /\ x \in NodeId /\ Typed(C) /\ FixedInv(V) /\ Acts(V, x, nd)
      /\ \A y \in NodeId : y # x => node'[y] = node[y]
      /\ node'[x].role = nd.role
      /\ node'[x].current_term = nd.current_term
      /\ node'[x].log = nd.log
      /\ nd.role = "Candidate" =>
              \/ node[x].role = "Candidate" /\ nd.current_term = node[x].current_term
              \/ node[x].current_term < nd.current_term
  BY ExecutesFacts
<1>2. /\ Widens(C, G, U, X, G2, U2, X2)
      /\ Tree(G2, C) /\ Lined(G2, U2)
      /\ Continues(G, U, G2, U2, node[x].log.entries, nd.log.entries, node[x].commit_index)
      /\ Later(x, A, Now, A2, T2)
      /\ T2[x] = nd.current_term
      /\ OnTree(G2, mine)
  BY <1>1, ActedFacts
<1>3. SafeInv(V, G, A)
  BY <1>1 DEF Acting
<1>4. /\ AcksOK(G, A, Now)
      /\ node[c].role = "Candidate" => CandidateSafe(V, G, A, U, c)
  BY <1>3 DEF SafeInv, SafeNow
<1>5. /\ node[x].current_term \in Nat /\ nd.current_term \in Nat
      /\ node[x].current_term <= nd.current_term
  BY <1>1, ActingTyped
<1>6. Keeper(G2, A2, U2, x, nd.log.entries)
  BY <1>1, KeeperActed
<1> HIDE DEF C, U, X, X2
\* A vote that was there.
<1>7. ASSUME Granted(w, t, c), w # c
      PROVE  Kept(G2, U2, r, new)
  <2>1. Voted(w, t, c)
    BY <1>7 DEF Voted
  <2>2. /\ t \in Nat /\ w \in NodeId
        /\ Safe(c, t, Pledge(t, c)) /\ Loyal(node[w], t, Pledge(t, c))
    BY <1>1, <2>1 DEF FixedInv, VotesPledged
  <2>3. node[w].current_term >= t /\ node[c].current_term >= t
    <3>1. node[w].current_term \in Nat /\ node[c].current_term \in Nat
      BY <1>1, <2>2, TypedFacts DEF IsNode, IsRecord
    <3> QED
      BY <2>2, <3>1 DEF Safe, Loyal
  <2>4. Acked(A, w, r)
    <3>1. CASE w # x
      BY <1>1, <1>2, <3>1, AckedLater
    <3>2. CASE w = x
      <4>1. Acked(A, x, r) \/ r.term = T2[x]
        BY <1>1, <1>2, <3>2, AckedLater
      <4>2. r.term # nd.current_term
        BY <1>5, <2>2, <2>3, <3>2
      <4> QED
        BY <1>2, <3>2, <4>1, <4>2
    <3> QED
      BY <3>1, <3>2
  <2>5. OnTree(G, r)
    BY <1>2, <1>4, <2>4, AckedOnTree
  <2>6. ASSUME node[c].role = "Candidate", node[c].current_term = t
        PROVE  Kept(G, U, r, old)
    <3>1. CandidateSafe(V, G, A, U, c)
      BY <1>4, <2>6
    <3> QED
      BY <1>7, <2>4, <2>5, <2>6, <3>1 DEF CandidateSafe
  <2>7. CASE c # x
    <3>1. node'[c] = node[c]
      BY <1>1, <2>7
    <3>2. Kept(G, U, r, old)
      BY <2>6, <3>1
    <3>3. Kept(G2, U2, r, old)
      BY <1>2, <3>2, KeptWidens
    <3> QED
      BY <3>1, <3>3
  <2>8. CASE c = x
    <3>1. nd.role = "Candidate" /\ t = nd.current_term
      BY <1>1, <2>8
    <3>2. node[x].role = "Candidate" /\ nd.current_term = node[x].current_term
      BY <1>1, <1>5, <2>3, <2>8, <3>1
    <3>3. Kept(G, U, r, old)
      BY <2>6, <2>8, <3>1, <3>2
    <3>4. Kept(G2, U2, r, mine)
      BY <1>2, <2>8, <3>3 DEF Continues
    <3> QED
      BY <1>1, <2>8, <3>4
  <2> QED
    BY <2>7, <2>8
\* The node's own vote.
<1>8. CASE w = c
  BY <1>8 DEF Keeper
\* A vote that the node gives.
<1>9. ASSUME w = x, w # c, Said(nd.actions, "RequestVoteReply", t, c)
      PROVE  Kept(G2, U2, r, new)
  <2>1. Speaking(nd, H)
    BY <1>1 DEF Acting, Deed
  <2>2. \A m \in nd.actions.broadcast_message : ~Tells(m, "RequestVoteReply", t)
    BY <2>1 DEF Speaking, IsCall, Tells
  <2> DEFINE m == nd.actions.send_messages[c]
  <2>3. c \in DOMAIN nd.actions.send_messages /\ Tells(m, "RequestVoteReply", t)
    BY <1>9, <2>2 DEF Said
  <2>4. Grants(nd, m, c, H)
    BY <2>1, <2>3 DEF Speaking
  <2>5. m.type = "RequestVoteReply" /\ m.vote_granted /\ m.term = t
    BY <2>3 DEF Tells
  <2> HIDE DEF m
  <2>6. PICK h \in H : /\ h.type = "RequestVoteCall"
                       /\ h.from = c
                       /\ h.term = nd.current_term
                       /\ ~PosLess(h.last_position, mine)
    BY <2>4, <2>5 DEF Grants
  <2>7. t = nd.current_term
    BY <2>4, <2>5 DEF Grants
  <2>8. \E p \in net : p.to = x /\ p.msg = h /\ PacketSafe(G, A, X, Now, p)
    BY <1>1, PacketHeard DEF X
  <2>9. PICK p \in net : p.msg = h /\ PacketSafe(G, A, X, Now, p)
    BY <2>8
  <2> DEFINE lp == h.last_position
  <2>10. OnTree(G, lp)
    BY <2>6, <2>9 DEF PacketSafe
  <2>11. node'[c] = node[c]
    BY <1>1, <1>9
  <2>12. CandidateSafe(V, G, A, U, c) /\ node[c].current_term = nd.current_term
    BY <1>4, <2>7, <2>11
  <2>13. \A s : Before(G, s, lp) => Kept(G, U, s, old)
    BY <2>6, <2>9, <2>12 DEF CandidateSafe
  <2>14. Kept(G2, U2, r, mine)
    BY <1>6, <1>9 DEF Keeper
  <2> HIDE DEF lp
  <2>15. G \subseteq G2
    BY <1>2 DEF Widens
  <2>16. OnTree(G2, lp)
    BY <1>2, <2>10, <2>15, BeforeGrown
  <2>17. ~PosLess(lp, mine)
    BY <2>6 DEF lp
  <2> HIDE DEF mine
  <2>18. Kept(G2, U2, r, lp)
    BY <1>2, <2>14, <2>16, <2>17, VoteInherits
  <2>19. CASE Pos(r.term, r.index) \in U2
    BY <2>19 DEF Kept
  <2>20. CASE Before(G2, r, lp)
    <3>1. Before(G, r, lp)
      BY <1>2, <2>10, <2>15, <2>20, BeforeGrown
    <3>2. Kept(G, U, r, old)
      BY <2>13, <3>1
    <3>3. Kept(G2, U2, r, old)
      BY <1>2, <3>2, KeptWidens
    <3> QED
      BY <2>11, <3>3
  <2> QED
    BY <2>18, <2>19, <2>20 DEF Kept
<1>10. w # c => \/ Granted(w, t, c)
                \/ w = x /\ Said(nd.actions, "RequestVoteReply", t, c)
  BY <1>1, GrantedStep DEF C
<1> QED
  BY <1>7, <1>8, <1>9, <1>10

LEMMA CandidateActed ==
  ASSUME NEW V, NEW G, NEW A, NEW x, NEW nd, NEW H, NEW G2, NEW A2, NEW T2,
         Executes(V, G, A, x, nd, H, G2, A2, T2), NEW U2, U2 = Voided(V, A2, T2),
         NEW c \in NodeId, node'[c].role = "Candidate",
         Keeper(G2, A2, U2, c, node'[c].log.entries)
  PROVE  CandidateSafe(V, G2, A2, U2, c)'
<1> DEFINE last == LastPosition(node'[c].log.entries)
<1>0. PICK t : t = node'[c].current_term
  OBVIOUS
<1>1. \A p \in net' :
        (p.msg.type = "RequestVoteCall" /\ p.msg.from = c /\ p.msg.term = t)
        => \A r : Before(G2, r, p.msg.last_position) => Kept(G2, U2, r, last)
  BY <1>0, CandidateCalls
<1>2. \A w \in V : Granted(w, t, c)' =>
        \A r : (OnTree(G2, r) /\ r.term < t /\ Acked(A2, w, r)) => Kept(G2, U2, r, last)
  BY <1>0, CandidateVotes
<1>3. \A w \in V : (Granted(w, node[c].current_term, c))' => Granted(w, t, c)'
  BY <1>0 DEF Granted, Said
<1> QED
  BY <1>0, <1>1, <1>2, <1>3 DEF CandidateSafe

-----------------------------------------------------------------------------
(* The tree's leaders, and what users saw committed. *)

LEMMA TreeLedKept ==
  ASSUME NEW C, Typed(C), NEW x \in NodeId, NEW nd, Turns(x, nd, C), OthersRest(x),
         SameState(nd, node'[x]), elected \subseteq elected',
         nd.role = "Leader" => <<nd.current_term, x>> \in elected',
         nd.current_term \in Nat, NEW G, TreeLed(G), NEW G2, Reaches(G, G2, nd)
  PROVE  TreeLed(G2)'
<1>1. Led \subseteq Led'
  <2>1. ASSUME NEW t \in Nat, NEW i \in Nat, Ahead(node[x], t, i) PROVE Ahead(node'[x], t, i)
    <3>1. Ahead(nd, t, i)
      BY <2>1, TurnsAhead
    <3> QED
      BY <3>1 DEF Ahead, Settled, SameState
  <2> QED
    BY <2>1, LedKept
<1>2. ASSUME NEW p, OnTree(G2, p) PROVE <<p.term, p.index>> \in Led'
  <2>1. CASE OnTree(G, p)
    BY <1>1, <2>1 DEF TreeLed
  <2>2. CASE /\ nd.role = "Leader"
             /\ p.term = nd.current_term
             /\ p.index \in Nat
             /\ p.index <= LastIndex(nd.log.entries)
    <3>1. Ahead(node'[x], p.term, p.index)
      BY <2>2 DEF Ahead, Settled, SameState
    <3>2. <<p.term, x>> \in elected'
      BY <2>2
    <3> DEFINE q == <<p.term, p.index>>
    <3>3. q \in Nat \X Nat /\ q[1] = p.term /\ q[2] = p.index
      BY <2>2
    <3> HIDE DEF q
    <3>4. \E L \in NodeId : <<q[1], L>> \in elected' /\ Ahead(node'[L], q[1], q[2])
      BY <3>1, <3>2, <3>3
    <3>5. q \in Led'
      BY <3>3, <3>4 DEF Led, Ahead, Settled
    <3> QED
      BY <3>5 DEF q
  <2> QED
    BY <1>2, <2>1, <2>2 DEF Reaches
<1> QED
  BY <1>2 DEF TreeLed

\* A committed entry is below a chosen position of the tree.
Below(G, X, c) ==
  \E h \in G : \E k \in 1 .. LastIndex(h) :
    c[1] \in 1 .. k /\ Spot(h, k) \in X /\ EntryAt(h, c[1]) = c[2]

LEMMA CommittedBelow ==
  ASSUME NEW C, NEW G, Tree(G, C), NEW X, X \subseteq Position, NEW nd,
         nd.log.entries \in Entries(C), Backed(G, nd.log.entries), CommitSafe(G, X, nd),
         NEW c \in CommittedEntries(nd)
  PROVE  Below(G, X, c)
<1> DEFINE es == nd.log.entries
           ci == nd.commit_index
           q == Spot(es, ci)
<1>1. PICK i \in es.prev.index + 1 .. ci : ContainsIndex(es, i) /\ c = <<i, EntryAt(es, i)>>
  BY DEF CommittedEntries
<1>2. ContainsIndex(es, ci) /\ Decided(G, X, q, nd.current_term)
  BY DEF CommitSafe
<1>3. es.prev.index \in Nat /\ LastIndex(es) \in Nat /\ es \in Entries(C)
  BY EntriesFacts
<1>4. ci \in es.prev.index .. LastIndex(es) /\ i \in es.prev.index .. LastIndex(es)
  BY <1>1, <1>2 DEF ContainsIndex
<1>5. Contains(es, q) /\ q.index = ci
  BY <1>4 DEF Contains, ContainsIndex, Spot, Pos
<1>6. q # ZERO
  <2>1. ci # 0
    BY <1>1, <1>3, <1>4
  <2> QED
    BY <1>5, <2>1 DEF ZERO, Pos
<1>7. PICK r \in X : Before(G, q, r)
  BY <1>2, <1>6 DEF Decided
<1> HIDE DEF q
<1>8. PICK h \in G : Contains(h, q) /\ Contains(h, r)
  BY <1>7 DEF Before
<1>9. PICK g \in G : PartOf(es, g)
  BY DEF Backed
<1>10. /\ g \in Entries(C) /\ g.prev = ZERO /\ g.prev.index = 0
       /\ h \in Entries(C) /\ h.prev = ZERO /\ h.prev.index = 0
  BY DEF Tree, ZERO, Pos
<1>11. Contains(g, q)
  <2>1. g.prev.index <= es.prev.index
    BY <1>3, <1>10
  <2> QED
    BY <1>3, <1>5, <1>9, <1>10, <2>1, PartFacts
<1>12. EntryAt(g, i) = EntryAt(h, i)
  <2>1. \A j \in 1 .. q.index : EntryAt(g, j) = EntryAt(h, j)
    BY <1>8, <1>11, SameBelow
  <2>2. i \in 1 .. q.index
    BY <1>1, <1>3, <1>4, <1>5
  <2> QED
    BY <2>1, <2>2
<1>13. EntryAt(es, i) = EntryAt(g, i)
  <2>1. i \in es.prev.index + 1 .. LastIndex(es)
    BY <1>1, <1>3, <1>4
  <2> QED
    BY <1>9, <2>1 DEF PartOf
<1>14. /\ q.index \in Nat /\ r.index \in Nat /\ q.index <= r.index
  BY <1>7, BeforeFacts
<1>15. /\ LastIndex(h) \in Nat
       /\ r.index \in 0 .. LastIndex(h) /\ TermAt(h, r.index) = r.term
  BY <1>8, <1>10, FullFacts
<1>16. r.index \in 1 .. LastIndex(h) /\ i \in 1 .. r.index
  BY <1>1, <1>3, <1>4, <1>5, <1>14, <1>15
<1>17. Spot(h, r.index) = r
  <2>1. r \in Position
    OBVIOUS
  <2> QED
    BY <1>15, <2>1 DEF Spot, Pos, Position
<1>18. EntryAt(h, c[1]) = c[2] /\ c[1] = i
  BY <1>1, <1>12, <1>13
<1> QED
  BY <1>16, <1>17, <1>18 DEF Below

LEMMA HistoryStep ==
  ASSUME NEW C, NEW G, NEW U, NEW X, NEW G2, NEW U2, NEW X2, Widens(C, G, U, X, G2, U2, X2),
         HistorySafe(G, X), NEW S, committed' \subseteq committed \cup S,
         \A c \in S : Below(G2, X2, c)
  PROVE  HistorySafe(G2, X2)'
<1>1. ASSUME NEW c \in committed' PROVE Below(G2, X2, c)
  <2>1. CASE c \in committed
    BY <2>1 DEF HistorySafe, Below, Widens
  <2> QED
    BY <2>1
<1> QED
  BY <1>1 DEF HistorySafe, Below

-----------------------------------------------------------------------------
(* A step of one node, put together. *)

LEMMA OneKeeps ==
  ASSUME NEW V, NEW C, C = FixedConfigs(V), Typed(C), NEW G, NEW A, SafeInv(V, G, A),
         NEW x \in NodeId, OthersRest(x), NEW G2, NEW A2, NEW T2, T2 = Now',
         NEW U2, U2 = Voided(V, A2, T2), NEW X2, X2 = Chosen(V, A2),
         Widens(C, G, Voided(V, A, Now), Chosen(V, A), G2, U2, X2),
         Lined(G2, U2), Later(x, A, Now, A2, T2), AcksOK(G2, A2, T2), TreeLed(G2)',
         NodeSafe(G2, A2, U2, X2, x, node'[x], stored'[x]),
         \A p \in net' : p \in net \/ PacketSafe(G2, A2, X2, T2, p),
         \A c \in NodeId : node'[c].role = "Candidate" => CandidateSafe(V, G2, A2, U2, c)',
         HistorySafe(G2, X2)'
  PROVE  SafeInv(V, G2, A2)'
<1> DEFINE U == Voided(V, A, Now)
           X == Chosen(V, A)
<1>1. /\ AcksOK(G, A, Now)
      /\ FoundingLogs \subseteq G
      /\ \A y \in NodeId : NodeSafe(G, A, U, X, y, node[y], stored[y])
      /\ \A p \in net : PacketSafe(G, A, X, Now, p)
  BY DEF SafeInv, SafeNow
<1>2. Widens(C, G, U, X, G2, U2, X2)
  OBVIOUS
<1> HIDE DEF U, X
<1>3. Tree(G2, C) /\ FoundingLogs \subseteq G2
  BY <1>1, <1>2 DEF Widens
<1>4. ASSUME NEW y \in NodeId PROVE NodeSafe(G2, A2, U2, X2, y, node'[y], stored'[y])
  <2>1. CASE y # x
    <3>1. node'[y] = node[y] /\ stored'[y] = stored[y]
      BY <2>1 DEF OthersRest
    <3>2. node[y].current_term \in Nat
      BY TypedFacts DEF IsNode, IsRecord
    <3>3. NodeSafe(G2, A2, U2, X2, y, node[y], stored[y])
      BY <1>1, <1>2, <2>1, <3>2, OtherSafe
    <3> QED
      BY <3>1, <3>3
  <2> QED
    BY <2>1
<1>5. ASSUME NEW p \in net' PROVE PacketSafe(G2, A2, X2, T2, p)
  <2>1. CASE p \in net
    <3>1. IsMessage(p.msg) \/ p.msg.type = "InstallSnapshot"
      BY <2>1 DEF Typed, Durable, PacketsDurable
    <3>2. p.msg.type = "AppendEntriesCall" => p.msg.term \in Nat
      BY <3>1 DEF IsMessage
    <3> QED
      BY <1>1, <1>2, <2>1, <3>2, PacketWidens
  <2> QED
    BY <2>1
<1>6. SafeNow(V, G2, A2, U2, X2)'
  BY <1>3, <1>4, <1>5 DEF SafeNow
<1>7. Voided(V, A2, Now') = U2
  OBVIOUS
<1> QED
  BY <1>6, <1>7 DEF SafeInv, SafeNow

\* The tree grows, and what is chosen stays so.
Spreads(V, G, A, G2, A2) == G \subseteq G2 /\ Chosen(V, A) \subseteq Chosen(V, A2)

\* A call whose actions are executed.
LEMMA CallKeeps ==
  ASSUME NEW V, NEW G, NEW A, NEW x, NEW nd, NEW H, Acting(V, G, A, x, nd, H),
         NEW armed, NEW rest, rest \subseteq net, ExecuteUpTo(nd, 4, armed, rest)
  PROVE  \E G2, A2 : Spreads(V, G, A, G2, A2) /\ SafeInv(V, G2, A2)'
<1> DEFINE C == FixedConfigs(V)
           U == Voided(V, A, Now)
           X == Chosen(V, A)
           nd2 == Executed(nd, 4)
           d == Persist(stored[x], nd, 4)
<1>1. PICK G2, A2, T2 : Acted(V, G, A, x, nd, H, G2, A2, T2)
  BY CallActed
<1> DEFINE U2 == Voided(V, A2, T2)
           X2 == Chosen(V, A2)
<1>2. /\ Typed(C) /\ SafeInv(V, G, A) /\ Turns(x, nd, C) /\ x \in NodeId
      /\ DOMAIN node = NodeId /\ DOMAIN stored = NodeId
  BY TypedFacts DEF Acting
<1>3. /\ Sound(nd, C)
      /\ nd.id = x
      /\ nd.current_term \in Nat
      /\ nd.log.entries \in Entries(C)
  BY ActingTyped
<1>4. nd2.log = nd.log /\ SameState(nd, nd2) /\ nd2.actions = NoActions
  BY <1>3, ExecutedSound DEF Executed, SameState, Sound, IsNode, IsRecord
<1>5. /\ node' = [node EXCEPT ![x] = nd2]
      /\ stored' = [stored EXCEPT ![x] = d]
      /\ Observe(nd2)
  BY <1>3 DEF ExecuteUpTo
<1> HIDE DEF nd2
<1>6. node'[x] = nd2 /\ stored'[x] = d /\ OthersRest(x)
  BY <1>2, <1>5 DEF OthersRest
<1>7. Moves(x, nd, C)
  <2>1. 4 \in 1 .. 4
    OBVIOUS
  <2> QED
    BY <1>2, <2>1, ExecuteUpToForm
<1>8. Executes(V, G, A, x, nd, H, G2, A2, T2)
  BY <1>1, <1>6, <1>7 DEF Executes
<1> HIDE DEF d
<1>9. committed' \subseteq committed \cup CommittedEntries(nd)
  <2>1. CommittedEntries(nd2) = CommittedEntries(nd)
    BY <1>4 DEF CommittedEntries, SameState
  <2> QED
    BY <1>5, <2>1 DEF Observe
<1>10. /\ Widens(C, G, U, X, G2, U2, X2)
       /\ Lined(G2, U2) /\ Tree(G2, C)
       /\ Later(x, A, Now, A2, T2)
       /\ Reaches(G, G2, nd)
       /\ Backed(G2, nd.log.entries)
  BY <1>1, ActedFacts
<1>11. T2 = Now'
  <2>1. T2 = [Now EXCEPT ![x] = nd.current_term]
    BY <1>1 DEF Acted, NewTerms
  <2>2. node'[x].current_term = nd.current_term
    BY <1>4, <1>6 DEF SameState
  <2>3. \A y \in NodeId : T2[y] = node'[y].current_term
    BY <1>6, <2>1, <2>2 DEF OthersRest, Now
  <2> QED
    BY <2>1, <2>3 DEF Now
<1>12. AcksOK(G2, A2, T2)
  BY <1>1, AcksActed
<1>13. TreeLed(G) /\ HistorySafe(G, X)
  BY <1>2 DEF SafeInv, SafeNow
<1>14. TreeLed(G2)'
  <2>1. /\ SameState(nd, node'[x])
        /\ elected \subseteq elected'
        /\ nd.role = "Leader" => <<nd.current_term, x>> \in elected'
    BY <1>7 DEF Moves
  <2> HIDE DEF C
  <2> QED
    BY <1>2, <1>3, <1>6, <1>10, <1>13, <2>1, TreeLedKept
<1>15. NodeSafe(G2, A2, U2, X2, x, nd, d)
  BY <1>1, NodeActed DEF d
<1>16. NodeSafe(G2, A2, U2, X2, x, node'[x], stored'[x])
  <2> HIDE DEF U2, X2
  <2> QED
    BY <1>4, <1>6, <1>15 DEF NodeSafe, Matches, CommitSafe, SameState
<1>17. ASSUME NEW p \in net', p \notin net PROVE PacketSafe(G2, A2, X2, T2, p)
  BY <1>1, <1>7, <1>17, OutboundSafe DEF Moves
<1>18. HistorySafe(G2, X2)'
  <2>1. \A c \in CommittedEntries(nd) : Below(G2, X2, c)
    <3>1. CommitSafe(G2, X2, nd)
      BY <1>1, CommitActed
    <3>2. X2 \subseteq Position
      BY DEF Chosen
    <3> HIDE DEF X2, C
    <3> QED
      BY <1>3, <1>10, <3>1, <3>2, CommittedBelow
  <2> HIDE DEF X2, C, U, X, U2
  <2> QED
    BY <1>9, <1>10, <1>13, <2>1, HistoryStep
<1>19. ASSUME NEW c \in NodeId, node'[c].role = "Candidate"
       PROVE  CandidateSafe(V, G2, A2, U2, c)'
  <2>1. Keeper(G2, A2, U2, c, node'[c].log.entries)
    <3>1. CASE c = x
      BY <1>16, <3>1 DEF NodeSafe
    <3>2. CASE c # x
      <4>1. node'[c] = node[c]
        BY <1>6, <3>2 DEF OthersRest
      <4>2. node[c].current_term \in Nat
        BY <1>2, TypedFacts DEF IsNode, IsRecord
      <4>3. NodeSafe(G, A, U, X, c, node[c], stored[c]) /\ AcksOK(G, A, Now)
        BY <1>2 DEF SafeInv, SafeNow
      <4>4. NodeSafe(G2, A2, U2, X2, c, node[c], stored[c])
        <5> HIDE DEF U, X, U2, X2, C
        <5> QED
          BY <1>2, <1>10, <3>2, <4>2, <4>3, OtherSafe
      <4> QED
        BY <4>1, <4>4 DEF NodeSafe
    <3> QED
      BY <3>1, <3>2
  <2> QED
    BY <1>8, <1>19, <2>1, CandidateActed
<1>20. SafeInv(V, G2, A2)'
  <2>1. X2 = Chosen(V, A2) /\ U2 = Voided(V, A2, T2) /\ C = FixedConfigs(V)
    OBVIOUS
  <2>2. Widens(C, G, Voided(V, A, Now), Chosen(V, A), G2, U2, X2)
    BY <1>10
  <2>3. \A p \in net' : p \in net \/ PacketSafe(G2, A2, X2, T2, p)
    BY <1>17
  <2>4. \A c \in NodeId : node'[c].role = "Candidate" => CandidateSafe(V, G2, A2, U2, c)'
    BY <1>19
  <2> HIDE DEF U2, X2, U, X, C
  <2> QED
    BY <1>2, <1>6, <1>10, <1>11, <1>12, <1>14, <1>16, <1>18, <2>1, <2>2, <2>3, <2>4, OneKeeps
<1>21. Spreads(V, G, A, G2, A2)
  BY <1>10 DEF Widens, Spreads
<1> QED
  BY <1>20, <1>21
=============================================================================
