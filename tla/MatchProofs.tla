----------------------------- MODULE MatchProofs -----------------------------
(***************************************************************************)
(* Logs match (LogMatching) for every number of nodes, every configuration *)
(* change and every bound, where no term has two leaders and users execute *)
(* the actions of a call before the next one.                              *)
(*                                                                         *)
(* Logs in memory, in storage and in flight are made of edges (LogTypes):  *)
(* an entry, its index and the term before it.  Two logs that contain one  *)
(* position agree before it if there is one edge of a term at an index.  A *)
(* call takes edges from the node's log or from the message, unless the    *)
(* node leads its term, when the new ones lie beyond its log; so the       *)
(* lemmas say first what every operator of Node and Handlers does to the   *)
(* edges of a log and of the queues.                                       *)
(***************************************************************************)
EXTENDS ElectionProofs

\* The edges that a message carries.
Carried(m) == IF m.type = "AppendEntriesCall" THEN Edges(m.entries) ELSE {}

Carries(nd, S) ==
  /\ \A m \in nd.actions.broadcast_message : Carried(m) \subseteq S
  /\ \A d \in DOMAIN nd.actions.send_messages : Carried(nd.actions.send_messages[d]) \subseteq S

\* What is queued is of the node's log, and writes reach its end.
Covered(nd) ==
  /\ Carries(nd, Edges(nd.log.entries))
  /\ \A w \in nd.actions.append_log_entries :
       /\ Edges(w) \subseteq Edges(nd.log.entries)
       /\ LastPosition(w) = LastPosition(nd.log.entries)

\* The last entry is of the node's term: a leader has appended in its term.
Ripe(nd) == LastPosition(nd.log.entries).term = nd.current_term

\* An edge that the node may append in its term.
Adds(nd, e) ==
  e.index > LastIndex(nd.log.entries) /\ e.entry.term = nd.current_term /\ TermsStep(e)

\* A leader's log has grown in its term.
Grows(nd, nd2) ==
  /\ Covered(nd2)
  /\ Ripe(nd2)
  /\ nd2.current_term = nd.current_term
  /\ nd2.log.entries.prev = nd.log.entries.prev
  /\ LastIndex(nd.log.entries) <= LastIndex(nd2.log.entries)
  /\ Edges(nd.log.entries) \subseteq Edges(nd2.log.entries)
  /\ \A e \in Edges(nd2.log.entries) : e \in Edges(nd.log.entries) \/ Adds(nd, e)

-----------------------------------------------------------------------------
(* Operators that neither append nor send. *)

LEMMA KeepsSame ==
  ASSUME NEW nd, NEW nd2, nd2.log = nd.log, SameQueues(nd, nd2)
  PROVE  Spares(nd, nd2)
  BY DEF Spares, SameQueues

LEMMA KeepsTransitive ==
  ASSUME NEW a, NEW b, NEW c, Spares(a, b), Spares(b, c)
  PROVE  Spares(a, c)
  BY DEF Spares

LEMMA KeepsCovered ==
  ASSUME NEW nd, NEW nd2, Covered(nd), Spares(nd, nd2)
  PROVE  Covered(nd2)
  BY DEF Spares, Covered, Carries

LEMMA KeepsGrows ==
  ASSUME NEW C, NEW nd, Sound(nd, C), Covered(nd), Ripe(nd), NEW nd2, Spares(nd, nd2),
         nd2.current_term = nd.current_term
  PROVE  Grows(nd, nd2)
<1>1. Covered(nd2)
  BY KeepsCovered
<1>2. nd2.log = nd.log
  BY DEF Spares
<1>3. LastIndex(nd.log.entries) \in Nat
  BY SoundLog, EntriesFacts
<1>4. LastIndex(nd.log.entries) <= LastIndex(nd.log.entries)
  BY <1>3
<1>5. Ripe(nd2)
  BY <1>2 DEF Ripe
<1> QED
  BY <1>1, <1>2, <1>4, <1>5 DEF Grows

LEMMA TimerKeeps == ASSUME NEW nd, IsNode(nd) PROVE Spares(nd, SetElectionTimeout(nd))
  BY TimerFacts, KeepsSame DEF SameState

LEMMA RoleKeeps == ASSUME NEW nd, IsNode(nd), NEW role PROVE Spares(nd, SetRole(nd, role))
  BY RoleFacts DEF Spares

LEMMA VoteKeeps == ASSUME NEW nd, IsNode(nd), NEW v PROVE Spares(nd, SetVotedFor(nd, v))
  BY VotedForFacts, KeepsSame

LEMMA TermKeeps == ASSUME NEW nd, IsNode(nd), NEW t PROVE Spares(nd, SetCurrentTerm(nd, t))
  BY CurrentTermFacts, KeepsSame

LEMMA AssertKeeps ==
  ASSUME NEW nd, IsNode(nd), NEW name, NEW holds \in BOOLEAN
  PROVE  Spares(nd, DebugAssert(nd, name, holds))
  BY AssertFacts DEF Spares, SameState

LEMMA RebuildKeeps == ASSUME NEW nd, IsNode(nd) PROVE Spares(nd, RebuildFollowers(nd))
  BY DEF Spares, RebuildFollowers, IsNode, IsRecord

LEMMA AdvanceKeeps ==
  ASSUME NEW nd, IsNode(nd)
  PROVE  /\ Spares(nd, AdvanceCommitIndex(nd))
         /\ AdvanceCommitIndex(nd).current_term = nd.current_term
  BY DEF Spares, AdvanceCommitIndex, IsNode, IsRecord

-----------------------------------------------------------------------------
(* Messages. *)

\* A message that absorbs another carries what they carry.
LEMMA MergeCarries ==
  ASSUME NEW C, NEW m0, MessageOK(m0, C), NEW m1, MessageOK(m1, C), IsMessage(m1)
  PROVE  Carried(Merge(m0, m1)) \subseteq Carried(m0) \cup Carried(m1)
<1>1. CASE Merge(m0, m1) = m1
  BY <1>1
<1>2. CASE Merge(m0, m1) # m1
  <2> DEFINE entries == AppendUnchecked(m0.entries, m1.entries)
             m == [m1 EXCEPT !.entries = entries]
  <2>1. /\ m0.type = "AppendEntriesCall"
        /\ m1.type = "AppendEntriesCall"
        /\ Contains(m0.entries, m1.entries.prev)
        /\ Merge(m0, m1) = m
    BY <1>2 DEF Merge
  <2>2. m1 \in [type : {"AppendEntriesCall"}, from : {m1.from}, term : Nat,
                commit_index : {m1.commit_index}, entries : {m1.entries}]
    BY <2>1 DEF IsMessage
  <2>3. Edges(entries) \subseteq Edges(m0.entries) \cup Edges(m1.entries)
    BY <2>1, AppendEdges DEF MessageOK
  <2> HIDE DEF entries
  <2>4. m.type = "AppendEntriesCall" /\ m.entries = entries
    BY <2>2
  <2> HIDE DEF m
  <2> QED
    BY <2>1, <2>3, <2>4 DEF Carried
<1> QED
  BY <1>1, <1>2

LEMMA BroadcastCarries ==
  ASSUME NEW C, NEW nd, Sound(nd, C), NEW m, MessageOK(m, C), Speaks(m, nd.id, nd.current_term),
         NEW S, Carries(nd, S), Carried(m) \subseteq S
  PROVE  LET nd2 == QueueBroadcast(nd, m) IN
         /\ Carries(nd2, S)
         /\ nd2.actions.append_log_entries = nd.actions.append_log_entries
<1> DEFINE merged == {Merge(x, m) : x \in nd.actions.broadcast_message}
           held == \A x \in nd.actions.broadcast_message : x.term <= m.term
           a == DebugAssert(nd, "merge term", held)
           queued == IF merged = {} THEN {m} ELSE merged
           nd2 == [a EXCEPT !.actions.broadcast_message = queued]
<1>1. QueueBroadcast(nd, m) = nd2
  BY DEF QueueBroadcast
<1>2. \A x \in queued : Carried(x) \subseteq S
  <2>1. ASSUME NEW x \in nd.actions.broadcast_message PROVE Carried(Merge(x, m)) \subseteq S
    <3>1. MessageOK(x, C) /\ Carried(x) \subseteq S
      BY DEF Sound, QueuesOK, Carries
    <3>2. Carried(Merge(x, m)) \subseteq Carried(x) \cup Carried(m)
      BY <3>1, MergeCarries DEF Speaks
    <3> QED
      BY <3>1, <3>2
  <2> QED
    BY <2>1
<1>3. /\ a.actions = nd.actions
      /\ IsRecord(a) /\ IsActions(a.actions)
  <2>1. held \in BOOLEAN
    OBVIOUS
  <2>2. IsNode(a)
    BY DebugAssertEvolves DEF Sound
  <2> HIDE DEF held
  <2> QED
    BY <2>1, <2>2, AssertFacts DEF Sound, IsNode
<1> HIDE DEF queued, a
<1>4. /\ nd2.actions.append_log_entries = nd.actions.append_log_entries
      /\ nd2.actions.broadcast_message = queued
      /\ nd2.actions.send_messages = nd.actions.send_messages
  BY <1>3 DEF IsRecord, IsActions
<1> HIDE DEF nd2
<1> QED
  BY <1>1, <1>2, <1>4 DEF Carries

LEMMA SendCarries ==
  ASSUME NEW C, NEW nd, Sound(nd, C), NEW dest, NEW m, MessageOK(m, C),
         Speaks(m, nd.id, nd.current_term), NEW S, Carries(nd, S), Carried(m) \subseteq S
  PROVE  LET nd2 == QueueSend(nd, dest, m) IN
         /\ Carries(nd2, S)
         /\ nd2.actions.append_log_entries = nd.actions.append_log_entries
<1> DEFINE queued == nd.actions.send_messages
           old == {queued[d] : d \in DOMAIN queued \cap {dest}}
           merged == IF old = {} THEN m ELSE Merge(queued[dest], m)
           held == \A x \in old : x.term <= m.term
           a == DebugAssert(nd, "merge term", held)
           kept == [d \in DOMAIN queued \cup {dest} |-> IF d = dest THEN merged ELSE queued[d]]
           nd2 == [a EXCEPT !.actions.send_messages = kept]
<1>1. QueueSend(nd, dest, m) = nd2
  BY DEF QueueSend
<1>2. Carried(merged) \subseteq S
  <2>1. CASE dest \in DOMAIN queued
    <3>1. MessageOK(queued[dest], C) /\ Carried(queued[dest]) \subseteq S
      BY <2>1 DEF Sound, QueuesOK, Carries
    <3>2. merged = Merge(queued[dest], m)
      BY <2>1
    <3> HIDE DEF merged, queued
    <3>3. Carried(Merge(queued[dest], m)) \subseteq Carried(queued[dest]) \cup Carried(m)
      BY <3>1, MergeCarries DEF Speaks
    <3> QED
      BY <3>1, <3>2, <3>3
  <2>2. CASE dest \notin DOMAIN queued
    BY <2>2
  <2> QED
    BY <2>1, <2>2
<1> HIDE DEF merged
<1>3. /\ a.actions = nd.actions
      /\ IsRecord(a) /\ IsActions(a.actions)
  <2>1. held \in BOOLEAN
    OBVIOUS
  <2>2. IsNode(a)
    BY DebugAssertEvolves DEF Sound
  <2> HIDE DEF held
  <2> QED
    BY <2>1, <2>2, AssertFacts DEF Sound, IsNode
<1>4. /\ \A d \in DOMAIN kept : kept[d] = IF d = dest THEN merged ELSE queued[d]
      /\ DOMAIN kept = DOMAIN queued \cup {dest}
  OBVIOUS
<1> HIDE DEF kept, a
<1>5. /\ nd2.actions.append_log_entries = nd.actions.append_log_entries
      /\ nd2.actions.broadcast_message = nd.actions.broadcast_message
      /\ nd2.actions.send_messages = kept
  BY <1>3 DEF IsRecord, IsActions
<1> HIDE DEF nd2
<1> QED
  BY <1>1, <1>2, <1>4, <1>5 DEF Carries

\* A message whose edges are of the log.
LEMMA UttersGrows ==
  ASSUME NEW C, NEW nd, Sound(nd, C), Covered(nd), Ripe(nd), NEW nd2, SameState(nd, nd2),
         Carries(nd2, Edges(nd.log.entries)),
         nd2.actions.append_log_entries = nd.actions.append_log_entries
  PROVE  Grows(nd, nd2)
<1>1. LastIndex(nd.log.entries) \in Nat
  BY SoundLog, EntriesFacts
<1>2. LastIndex(nd.log.entries) <= LastIndex(nd.log.entries)
  BY <1>1
<1>3. nd2.log = nd.log /\ nd2.current_term = nd.current_term
  BY DEF SameState
<1>4. Covered(nd2)
  BY <1>3 DEF Covered
<1>5. Ripe(nd2)
  BY <1>3 DEF Ripe
<1> QED
  BY <1>2, <1>3, <1>4, <1>5 DEF Grows

\* A leader's calls carry a part of its log.
LEMMA BroadcastCallGrows ==
  ASSUME NEW C, NEW nd, Sound(nd, C), Covered(nd), Ripe(nd), NEW entries \in Entries(C),
         Edges(entries) \subseteq Edges(nd.log.entries)
  PROVE  LET nd2 == QueueBroadcast(nd, AppendEntriesCall(nd, entries)) IN
         Grows(nd, nd2) /\ Sound(nd2, C) /\ SameState(nd, nd2)
<1> DEFINE m == AppendEntriesCall(nd, entries)
           nd2 == QueueBroadcast(nd, m)
<1>1. Carried(m) = Edges(entries)
  BY DEF Carried, AppendEntriesCall
<1>2. /\ MessageOK(m, C)
      /\ IsCall(m)
      /\ Speaks(m, nd.id, nd.current_term)
      /\ m.term = nd.current_term
  BY NewCallTyped
<1> HIDE DEF m
<1>3. Utters(nd, nd2, C, m)
  BY <1>2, QueueBroadcastUtters
<1>4. Carries(nd2, Edges(nd.log.entries))
      /\ nd2.actions.append_log_entries = nd.actions.append_log_entries
  BY <1>1, <1>2, BroadcastCarries DEF Covered
<1> HIDE DEF nd2
<1>5. Grows(nd, nd2) /\ Sound(nd2, C) /\ SameState(nd, nd2)
  BY <1>3, <1>4, UttersGrows DEF Utters
<1> QED
  BY <1>5 DEF nd2, m

LEMMA SendCallGrows ==
  ASSUME NEW C, NEW nd, Sound(nd, C), Covered(nd), Ripe(nd), NEW to, NEW entries \in Entries(C),
         Edges(entries) \subseteq Edges(nd.log.entries)
  PROVE  Grows(nd, QueueSend(nd, to, AppendEntriesCall(nd, entries)))
<1> DEFINE m == AppendEntriesCall(nd, entries)
           nd2 == QueueSend(nd, to, m)
<1>1. Carried(m) = Edges(entries)
  BY DEF Carried, AppendEntriesCall
<1>2. /\ MessageOK(m, C)
      /\ Speaks(m, nd.id, nd.current_term)
      /\ m.term = nd.current_term
  BY NewCallTyped
<1> HIDE DEF m
<1>3. Utters(nd, nd2, C, m)
  BY <1>2, QueueSendUtters
<1>4. Carries(nd2, Edges(nd.log.entries))
      /\ nd2.actions.append_log_entries = nd.actions.append_log_entries
  BY <1>1, <1>2, SendCarries DEF Covered
<1> HIDE DEF nd2
<1>5. Grows(nd, nd2)
  BY <1>3, <1>4, UttersGrows DEF Utters
<1> QED
  BY <1>5 DEF nd2, m

-----------------------------------------------------------------------------
(* Proposals and commits. *)

LEMMA QueueAppendFacts ==
  ASSUME NEW nd, IsNode(nd), NEW entries
  PROVE  LET nd2 == QueueAppend(nd, entries)
             merged == {AppendUnchecked(w, entries) : w \in nd.actions.append_log_entries}
         IN  /\ IsRecord(nd2)
             /\ nd2.log = nd.log
             /\ nd2.actions.append_log_entries = IF merged = {} THEN {entries} ELSE merged
             /\ nd2.actions.broadcast_message = nd.actions.broadcast_message
             /\ nd2.actions.send_messages = nd.actions.send_messages
<1> DEFINE merged == {AppendUnchecked(w, entries) : w \in nd.actions.append_log_entries}
           held == \A w \in nd.actions.append_log_entries : Contains(w, entries.prev)
           a == DebugAssert(nd, "append anchor", held)
           writes == IF merged = {} THEN {entries} ELSE merged
           nd2 == [a EXCEPT !.actions.append_log_entries = writes]
<1>1. QueueAppend(nd, entries) = nd2
  BY DEF QueueAppend
<1>2. /\ a.actions = nd.actions
      /\ a.log = nd.log
      /\ IsRecord(a) /\ IsActions(a.actions)
  <2>1. held \in BOOLEAN
    OBVIOUS
  <2>2. IsNode(a)
    BY DebugAssertEvolves
  <2> HIDE DEF held
  <2> QED
    BY <2>1, <2>2, AssertFacts DEF SameState, IsNode
<1> HIDE DEF writes, a
<1>3. /\ IsRecord(nd2)
      /\ nd2.log = nd.log
      /\ nd2.actions.append_log_entries = writes
      /\ nd2.actions.broadcast_message = nd.actions.broadcast_message
      /\ nd2.actions.send_messages = nd.actions.send_messages
  BY <1>2 DEF IsRecord, IsActions
<1> QED
  BY <1>1, <1>3 DEF writes

\* The edge of an entry appended to the log.
NextEdge(nd, entry) ==
  [before |-> LastPosition(nd.log.entries).term, index |-> LastIndex(nd.log.entries) + 1,
   entry |-> entry]

LEMMA OneEdge ==
  ASSUME NEW C, NEW nd, Sound(nd, C), NEW entry \in Entry(C),
         LastIndex(nd.log.entries) = 0 => entry.kind = "ClusterConfig"
  PROVE  LET one == [prev |-> LastPosition(nd.log.entries), ents |-> <<entry>>] IN
         one \in Entries(C) /\ Edges(one) = {NextEdge(nd, entry)}
<1> DEFINE es == nd.log.entries
           one == [prev |-> LastPosition(es), ents |-> <<entry>>]
           s == Push(es, entry)
<1>1. es \in Entries(C)
  BY SoundLog
<1>2. /\ s \in Entries(C)
      /\ s.prev = es.prev
      /\ LastIndex(s) = LastIndex(es) + 1
      /\ LastPosition(s) = Pos(entry.term, LastIndex(es) + 1)
      /\ Edges(s) = Edges(es) \cup {NextEdge(nd, entry)}
      /\ one \in Entries(C)
      /\ one.prev = LastPosition(es)
      /\ LastPosition(one) = LastPosition(s)
      /\ Edges(one) = {NextEdge(nd, entry)}
  BY <1>1, PushEdges DEF NextEdge
<1> QED
  BY <1>2

LEMMA PushedCovers ==
  ASSUME NEW C, NEW nd, Sound(nd, C), Covered(nd), NEW entry \in Entry(C),
         LastIndex(nd.log.entries) = 0 => entry.kind = "ClusterConfig"
  PROVE  LET nd2 == Pushed(nd, entry) IN
         /\ Covered(nd2)
         /\ Edges(nd2.log.entries) = Edges(nd.log.entries) \cup {NextEdge(nd, entry)}
         /\ LastPosition(nd2.log.entries) = Pos(entry.term, LastIndex(nd.log.entries) + 1)
         /\ LastIndex(nd2.log.entries) = LastIndex(nd.log.entries) + 1
         /\ nd2.log.entries.prev = nd.log.entries.prev
<1> DEFINE es == nd.log.entries
           one == [prev |-> LastPosition(es), ents |-> <<entry>>]
           a == QueueAppend(nd, one)
           s == Push(es, entry)
           nd2 == Pushed(nd, entry)
<1>1. es \in Entries(C) /\ IsNode(nd)
  BY SoundLog DEF Sound
<1>2. /\ s.prev = es.prev
      /\ LastIndex(s) = LastIndex(es) + 1
      /\ LastPosition(s) = Pos(entry.term, LastIndex(es) + 1)
      /\ Edges(s) = Edges(es) \cup {NextEdge(nd, entry)}
      /\ one \in Entries(C)
      /\ one.prev = LastPosition(es)
      /\ LastPosition(one) = LastPosition(s)
      /\ Edges(one) = {NextEdge(nd, entry)}
  BY <1>1, PushEdges DEF NextEdge
<1>3. nd2.log.entries = s
  BY PushedFacts
<1>4. nd2 = [a EXCEPT !.log.entries = Push(@, entry)]
  BY DEF Pushed
<1> DEFINE merged == {AppendUnchecked(w, one) : w \in nd.actions.append_log_entries}
<1> HIDE DEF one
<1>5. /\ IsRecord(a)
      /\ a.actions.append_log_entries = IF merged = {} THEN {one} ELSE merged
      /\ a.actions.broadcast_message = nd.actions.broadcast_message
      /\ a.actions.send_messages = nd.actions.send_messages
  BY <1>1, QueueAppendFacts
<1> HIDE DEF a
<1>6. nd2.actions = a.actions
  BY <1>4, <1>5 DEF IsRecord
<1> HIDE DEF s, nd2, es
<1>7. ASSUME NEW w \in a.actions.append_log_entries
      PROVE  Edges(w) \subseteq Edges(s) /\ LastPosition(w) = LastPosition(s)
  <2>1. CASE w = one
    BY <1>2, <2>1
  <2>2. CASE w \in merged
    <3>1. PICK x \in nd.actions.append_log_entries : w = AppendUnchecked(x, one)
      BY <2>2
    <3>2. /\ x \in Entries(C)
          /\ Edges(x) \subseteq Edges(es)
          /\ LastPosition(x) = LastPosition(es)
      BY <3>1 DEF Sound, QueuesOK, Writes, Covered, es
    <3>3. Contains(x, one.prev)
      BY <1>2, <3>2, LastPositionTyped
    <3>4. /\ Edges(w) \subseteq Edges(x) \cup Edges(one)
          /\ LastPosition(w) = LastPosition(one)
      BY <1>2, <3>1, <3>2, <3>3, AppendEdges
    <3> QED
      BY <1>2, <3>2, <3>4
  <2> QED
    BY <1>5, <2>1, <2>2
<1>8. Carries(nd2, Edges(s))
  BY <1>2, <1>5, <1>6 DEF Covered, Carries, es
<1>9. Covered(nd2)
  BY <1>3, <1>6, <1>7, <1>8 DEF Covered
<1> QED
  BY <1>2, <1>3, <1>9 DEF nd2, s, es

LEMMA GrowsTransitive ==
  ASSUME NEW C, NEW a, Sound(a, C), NEW b, Sound(b, C), NEW c, Sound(c, C),
         Grows(a, b), Grows(b, c)
  PROVE  Grows(a, c)
<1>1. /\ LastIndex(a.log.entries) \in Nat
      /\ LastIndex(b.log.entries) \in Nat
      /\ LastIndex(c.log.entries) \in Nat
  BY SoundLog, EntriesFacts
<1>2. ASSUME NEW e \in Edges(c.log.entries)
      PROVE  e \in Edges(a.log.entries) \/ Adds(a, e)
  <2>1. e \in Edges(b.log.entries) \/ Adds(b, e)
    BY DEF Grows
  <2>2. e.index \in Nat
    BY SoundLog, EdgesFacts
  <2>3. LastIndex(a.log.entries) <= LastIndex(b.log.entries) /\ b.current_term = a.current_term
    BY DEF Grows
  <2>4. Adds(b, e) => Adds(a, e)
    BY <1>1, <2>2, <2>3 DEF Adds
  <2> QED
    BY <2>1, <2>4 DEF Grows
<1>3. LastIndex(a.log.entries) <= LastIndex(c.log.entries)
  BY <1>1 DEF Grows
<1> QED
  BY <1>2, <1>3 DEF Grows

LEMMA AppendProposedGrows ==
  ASSUME NEW C, NEW nd, Sound(nd, C), nd.role = "Leader", Covered(nd), NEW entry \in Entry(C),
         entry.term = nd.current_term, TermsStep(NextEdge(nd, entry))
  PROVE  LET nd2 == AppendProposedLogEntry(nd, entry) IN
         Grows(nd, nd2) /\ NextEdge(nd, entry) \in Edges(nd2.log.entries)
<1> DEFINE a == Pushed(nd, entry)
           nd2 == AppendProposedLogEntry(nd, entry)
           edge == NextEdge(nd, entry)
<1>1. nd2 = IF entry.kind = "ClusterConfig" THEN RebuildFollowers(a) ELSE a
  BY DEF AppendProposedLogEntry, Pushed
<1>2. LastIndex(nd.log.entries) = 0 => entry.kind = "ClusterConfig"
  BY DEF Sound, Stands
<1>3. Sound(a, C) /\ a.current_term = nd.current_term
  BY <1>2, PushedFacts
<1>4. /\ Covered(a)
      /\ Edges(a.log.entries) = Edges(nd.log.entries) \cup {edge}
      /\ LastPosition(a.log.entries) = Pos(entry.term, LastIndex(nd.log.entries) + 1)
      /\ LastIndex(a.log.entries) = LastIndex(nd.log.entries) + 1
      /\ a.log.entries.prev = nd.log.entries.prev
  BY <1>2, PushedCovers
<1> HIDE DEF a
<1>5. LastIndex(nd.log.entries) \in Nat
  BY SoundLog, EntriesFacts
<1>6. Adds(nd, edge)
  <2>1. edge.index = LastIndex(nd.log.entries) + 1 /\ edge.entry = entry
    BY DEF NextEdge
  <2> HIDE DEF edge
  <2> QED
    BY <1>5, <2>1 DEF Adds, edge
<1>7. Ripe(a)
  BY <1>3, <1>4 DEF Ripe, Pos
<1>8. LastIndex(nd.log.entries) <= LastIndex(a.log.entries)
  BY <1>4, <1>5
<1> HIDE DEF edge
<1>9. Grows(nd, a)
  BY <1>3, <1>4, <1>6, <1>7, <1>8 DEF Grows
<1>10. Spares(a, nd2)
  <2>1. Spares(a, a) /\ Spares(a, RebuildFollowers(a))
    BY <1>3, RebuildKeeps DEF Spares, Sound
  <2> QED
    BY <1>1, <2>1
<1>11. nd2.current_term = a.current_term
  <2>1. RebuildFollowers(a).current_term = a.current_term
    BY <1>3, RebuildFollowersEvolves DEF RebuildFollowers, Sound, IsNode, IsRecord
  <2> QED
    BY <1>1, <2>1
<1> HIDE DEF nd2
<1>12. Covered(nd2)
  BY <1>4, <1>10, KeepsCovered
<1>13. nd2.log = a.log
  BY <1>10 DEF Spares
<1>14. Grows(nd, nd2)
  BY <1>9, <1>11, <1>12, <1>13 DEF Grows, Ripe
<1> QED
  BY <1>4, <1>13, <1>14 DEF nd2, edge

LEMMA BroadcastProposalGrows ==
  ASSUME NEW C, NEW nd, Sound(nd, C), nd.role = "Leader", Covered(nd), Ripe(nd),
         NEW last, NEW entry, [prev |-> last, ents |-> <<entry>>] \in Entries(C),
         Edges([prev |-> last, ents |-> <<entry>>]) \subseteq Edges(nd.log.entries)
  PROVE  Grows(nd, BroadcastProposal(nd, last, entry))
<1> DEFINE entries == [prev |-> last, ents |-> <<entry>>]
           leads == nd.role = "Leader"
           asserted == DebugAssert(nd, "still leader", leads)
           queued == QueueBroadcast(nd, AppendEntriesCall(nd, entries))
           sent == IF DOMAIN nd.followers = {} THEN asserted ELSE queued
           nd2 == SetElectionTimeout(sent)
<1>1. BroadcastProposal(nd, last, entry) = nd2
  BY DEF BroadcastProposal
<1>2. asserted = nd
  BY DEF DebugAssert
<1>3. Grows(nd, nd)
  BY KeepsGrows DEF Spares
<1>4. Grows(nd, queued) /\ Sound(queued, C) /\ SameState(nd, queued)
  BY BroadcastCallGrows
<1> HIDE DEF asserted, queued
<1>5. Grows(nd, sent) /\ Sound(sent, C)
  BY <1>2, <1>3, <1>4
<1> HIDE DEF sent
<1>6. Grows(sent, nd2) /\ Sound(nd2, C)
  <2>1. Spares(sent, nd2) /\ Idles(sent, nd2, C)
    BY <1>5, TimerKeeps, TimerIdles DEF Sound
  <2> HIDE DEF nd2
  <2>2. nd2.current_term = sent.current_term /\ Sound(nd2, C)
    BY <2>1 DEF Idles, SameState
  <2>3. Covered(sent) /\ Ripe(sent)
    BY <1>5 DEF Grows
  <2> QED
    BY <1>5, <2>1, <2>2, <2>3, KeepsGrows
<1> HIDE DEF nd2
<1>7. Grows(nd, nd2)
  BY <1>5, <1>6, GrowsTransitive
<1> QED
  BY <1>1, <1>7

\* What is left of propose once the entry is appended and perhaps committed.
LEMMA ProposedGrows ==
  ASSUME NEW C, NEW nd, Sound(nd, C), nd.role = "Leader", Covered(nd), NEW entry \in Entry(C),
         entry.term = nd.current_term, TermsStep(NextEdge(nd, entry)),
         NEW appended, Sound(appended, C), appended = AppendProposedLogEntry(nd, entry),
         NEW settled, Sound(settled, C), settled.role = "Leader", Grows(appended, settled)
  PROVE  Grows(nd, BroadcastProposal(settled, LastPosition(nd.log.entries), entry))
<1> DEFINE last == LastPosition(nd.log.entries)
           one == [prev |-> last, ents |-> <<entry>>]
           nd2 == BroadcastProposal(settled, last, entry)
<1>1. Grows(nd, appended) /\ NextEdge(nd, entry) \in Edges(appended.log.entries)
  BY AppendProposedGrows
<1>2. Grows(nd, settled)
  BY <1>1, GrowsTransitive
<1>3. Edges(one) = {NextEdge(nd, entry)} /\ one \in Entries(C)
  <2>1. LastIndex(nd.log.entries) = 0 => entry.kind = "ClusterConfig"
    BY DEF Sound, Stands
  <2> QED
    BY <2>1, OneEdge
<1>4. NextEdge(nd, entry) \in Edges(settled.log.entries)
  BY <1>1 DEF Grows
<1>5. Covered(settled) /\ Ripe(settled)
  BY <1>2 DEF Grows
<1> HIDE DEF last
<1>6. Grows(settled, nd2)
  BY <1>3, <1>4, <1>5, BroadcastProposalGrows
<1>7. Sound(nd2, C)
  BY <1>3, BroadcastProposalTenure DEF Tenure
<1> HIDE DEF nd2
<1>8. Grows(nd, nd2)
  BY <1>2, <1>6, <1>7, GrowsTransitive
<1> QED
  BY <1>8 DEF nd2, last

LEMMA AdvanceGrows ==
  ASSUME NEW C, NEW nd, Sound(nd, C), Covered(nd), Ripe(nd)
  PROVE  Grows(nd, AdvanceCommitIndex(nd))
  BY AdvanceKeeps, KeepsGrows DEF Sound

LEMMA NestedCommitGrows ==
  ASSUME NEW C, NEW nd, Sound(nd, C), nd.role = "Leader", Covered(nd), Ripe(nd),
         ~IsJointConsensus(Config(nd)), nd.id \in Config(nd).voters
  PROVE  Grows(nd, NestedCommit(nd))
<1>1. Grows(nd, nd)
  BY KeepsGrows DEF Spares
<1>2. CASE ~CanCommit(nd)
  BY <1>1, <1>2 DEF NestedCommit, CommitThen
<1>3. CASE CanCommit(nd)
  <2> DEFINE up == AdvanceCommitIndex(nd)
             failed == DebugAssert(up, "nested joint consensus", FALSE)
  <2>1. up.log = nd.log
    BY <1>3, AdvanceCommitTenure
  <2>2. Grows(nd, up)
    BY AdvanceGrows
  <2>3. NestedCommit(nd) = IF ~LatestConfigCommitted(up) THEN up
                           ELSE IF IsJointConsensus(Config(up)) THEN failed
                           ELSE IF nd.id \in Config(up).voters THEN up
                           ELSE TransitionToFollower(up, up.current_term)
    BY <1>3 DEF NestedCommit, CommitThen
  <2> HIDE DEF up, failed
  <2>4. Config(up) = Config(nd)
    BY <2>1 DEF Config
  <2> QED
    BY <2>2, <2>3, <2>4
<1> QED
  BY <1>2, <1>3

\* An entry that does not start a term may follow in the term of the last one.
LEMMA FollowsInTerm ==
  ASSUME NEW nd, Ripe(nd), NEW entry, entry.term = nd.current_term, entry.kind # "Term"
  PROVE  TermsStep(NextEdge(nd, entry))
  BY DEF TermsStep, NextEdge, Ripe

LEMMA FinalizeGrows ==
  ASSUME NEW C, Closed(C), NEW nd, Sound(nd, C), nd.role = "Leader", Covered(nd), Ripe(nd),
         IsJointConsensus(Config(nd))
  PROVE  Grows(nd, FinalizeJointConsensus(nd))
<1> DEFINE c == FinalConfig(Config(nd))
           disjoint == c.voters \cap c.non_voters = {}
           a == DebugAssert(nd, "final config", disjoint)
           entry == ConfigEntry(nd.current_term, c)
           appended == AppendProposedLogEntry(nd, entry)
           settled == IF IsSelfSoloVoter(appended) THEN NestedCommit(appended) ELSE appended
           last == LastPosition(nd.log.entries)
           nd2 == FinalizeJointConsensus(nd)
<1>1. /\ c \in C
      /\ c.voters = Config(nd).new_voters
      /\ c.new_voters = {}
      /\ c.non_voters = Config(nd).non_voters
      /\ disjoint
  <2>1. Config(nd) \in C
    BY ConfigOfLeader
  <2>2. /\ Config(nd) = [voters |-> Config(nd).voters, new_voters |-> Config(nd).new_voters,
                         non_voters |-> Config(nd).non_voters]
        /\ Config(nd).non_voters \cap UniqueVoters(Config(nd)) = {}
        /\ c \in C
    BY <2>1 DEF Closed
  <2>3. /\ c.voters = Config(nd).new_voters
        /\ c.new_voters = {}
        /\ c.non_voters = Config(nd).non_voters
    BY <2>2 DEF FinalConfig
  <2> QED
    BY <2>2, <2>3 DEF UniqueVoters
<1>2. nd2 = BroadcastProposal(settled, last, entry)
  <2>1. nd2 = BroadcastProposal(
                IF IsSelfSoloVoter(AppendProposedLogEntry(a, entry))
                THEN NestedCommit(AppendProposedLogEntry(a, entry))
                ELSE AppendProposedLogEntry(a, entry),
                LastPosition(a.log.entries), entry)
    BY DEF FinalizeJointConsensus, ProposeThen
  <2>2. a = nd
    BY <1>1 DEF DebugAssert
  <2> HIDE DEF a, entry, nd2
  <2> QED
    BY <2>1, <2>2
<1>3. /\ entry \in Entry(C)
      /\ entry.kind = "ClusterConfig"
      /\ entry.config = c
      /\ entry.term = nd.current_term
  BY <1>1 DEF Sound, IsNode, IsRecord, ConfigEntry, Entry
<1> HIDE DEF c, a, entry, nd2
<1>4. TermsStep(NextEdge(nd, entry))
  BY <1>3, FollowsInTerm
<1>5. /\ Tenure(nd, appended, C)
      /\ appended.log.entries = Push(nd.log.entries, entry)
  BY <1>3, AppendProposedTenure
<1>6. Grows(nd, appended)
  BY <1>3, <1>4, AppendProposedGrows
<1>7. appended = AppendProposedLogEntry(nd, entry)
  OBVIOUS
<1> HIDE DEF appended
<1>8. Config(appended) = c
  BY <1>3, <1>5, SoundLog, LatestConfigPushed DEF Config
<1>9. /\ Sound(appended, C) /\ appended.role = "Leader"
      /\ Covered(appended) /\ Ripe(appended)
  BY <1>5, <1>6 DEF Tenure, Grows
<1>10. Sound(settled, C) /\ settled.role = "Leader" /\ Grows(appended, settled)
  <2>1. CASE IsSelfSoloVoter(appended)
    <3>1. ~IsJointConsensus(Config(appended)) /\ appended.id \in Config(appended).voters
      BY <1>1, <1>8, <2>1 DEF IsJointConsensus, IsSelfSoloVoter
    <3>2. settled = NestedCommit(appended)
      BY <2>1
    <3> HIDE DEF settled
    <3> QED
      BY <1>9, <3>1, <3>2, NestedCommitTenure, NestedCommitGrows DEF Tenure
  <2>2. CASE ~IsSelfSoloVoter(appended)
    <3>1. Grows(appended, appended)
      BY <1>9, KeepsGrows DEF Spares
    <3> QED
      BY <1>9, <2>2, <3>1
  <2> QED
    BY <2>1, <2>2
<1> HIDE DEF settled
<1>11. Grows(nd, nd2)
  BY <1>2, <1>3, <1>4, <1>7, <1>9, <1>10, ProposedGrows
<1> QED
  BY <1>11 DEF nd2

LEMMA UpdateCommitGrows ==
  ASSUME NEW C, Closed(C), NEW nd, Sound(nd, C), nd.role = "Leader", Covered(nd), Ripe(nd)
  PROVE  Grows(nd, UpdateCommitIndexIfPossible(nd))
<1> DEFINE up == AdvanceCommitIndex(nd)
           nd2 == UpdateCommitIndexIfPossible(nd)
<1>1. CASE ~CanCommit(nd)
  <2>1. nd2 = nd
    BY <1>1 DEF UpdateCommitIndexIfPossible, CommitThen
  <2> QED
    BY <2>1, KeepsGrows DEF Spares
<1>2. CASE CanCommit(nd)
  <2>1. Tenure(nd, up, C) /\ up.log = nd.log /\ up.id = nd.id
    BY <1>2, AdvanceCommitTenure
  <2>2. Grows(nd, up)
    BY AdvanceGrows
  <2>3. nd2 = IF ~LatestConfigCommitted(up) THEN up
              ELSE IF IsJointConsensus(Config(up)) THEN FinalizeJointConsensus(up)
              ELSE IF nd.id \in Config(up).voters THEN up
              ELSE TransitionToFollower(up, up.current_term)
    BY <1>2 DEF UpdateCommitIndexIfPossible, CommitThen
  <2> HIDE DEF up, nd2
  <2>4. Sound(up, C) /\ up.role = "Leader" /\ Covered(up) /\ Ripe(up)
    BY <2>1, <2>2 DEF Tenure, Grows
  <2>5. CASE nd2 = up
    BY <2>2, <2>5 DEF nd2
  <2>6. CASE IsJointConsensus(Config(up)) /\ nd2 = FinalizeJointConsensus(up)
    <3>1. Sound(nd2, C)
      BY <2>4, <2>6, FinalizeTenure DEF Tenure
    <3>2. Grows(up, nd2)
      BY <2>4, <2>6, FinalizeGrows
    <3> QED
      BY <2>2, <2>4, <3>1, <3>2, GrowsTransitive DEF nd2
  <2>7. CASE nd2 = TransitionToFollower(up, up.current_term)
    <3>1. up.current_term \in Nat /\ up.current_term <= up.current_term
      BY <2>4 DEF Sound, IsNode, IsRecord
    <3>2. Demoted(up, nd2, C, up.current_term)
      BY <2>4, <2>7, <3>1, TransitionToFollowerDemotes
    <3>3. Grows(up, nd2)
      BY <2>4, <3>2, KeepsGrows DEF Demoted
    <3> QED
      BY <2>2, <2>4, <3>2, <3>3, GrowsTransitive DEF nd2, Demoted
  <2> QED
    BY <2>3, <2>5, <2>6, <2>7
<1> QED
  BY <1>1, <1>2

LEMMA ProposeGrows ==
  ASSUME NEW C, Closed(C), NEW nd, Sound(nd, C), nd.role = "Leader", Covered(nd),
         NEW entry \in Entry(C), entry.term = nd.current_term, TermsStep(NextEdge(nd, entry))
  PROVE  Grows(nd, Propose(nd, entry))
<1> DEFINE appended == AppendProposedLogEntry(nd, entry)
           settled == IF IsSelfSoloVoter(appended) THEN UpdateCommitIndexIfPossible(appended)
                      ELSE appended
           nd2 == Propose(nd, entry)
<1>1. nd2 = BroadcastProposal(settled, LastPosition(nd.log.entries), entry)
  BY DEF Propose, ProposeThen
<1>2. Tenure(nd, appended, C)
  BY AppendProposedTenure
<1>3. Grows(nd, appended)
  BY AppendProposedGrows
<1>4. appended = AppendProposedLogEntry(nd, entry)
  OBVIOUS
<1> HIDE DEF appended, nd2
<1>5. /\ Sound(appended, C) /\ appended.role = "Leader"
      /\ Covered(appended) /\ Ripe(appended)
  BY <1>2, <1>3 DEF Tenure, Grows
<1>6. Sound(settled, C) /\ settled.role = "Leader" /\ Grows(appended, settled)
  <2>1. CASE IsSelfSoloVoter(appended)
    <3>1. Tenure(appended, settled, C)
      BY <1>5, <2>1, UpdateCommitTenure
    <3>2. Grows(appended, settled)
      BY <1>5, <2>1, UpdateCommitGrows
    <3> HIDE DEF settled
    <3> QED
      BY <3>1, <3>2 DEF Tenure
  <2>2. CASE ~IsSelfSoloVoter(appended)
    <3>1. Grows(appended, appended)
      BY <1>5, KeepsGrows DEF Spares
    <3> QED
      BY <1>5, <2>2, <3>1
  <2> QED
    BY <2>1, <2>2
<1> HIDE DEF settled
<1>7. Grows(nd, nd2)
  BY <1>1, <1>4, <1>5, <1>6, ProposedGrows
<1> QED
  BY <1>7 DEF nd2

LEMMA HeartbeatGrows ==
  ASSUME NEW C, NEW nd, Sound(nd, C), Covered(nd), Ripe(nd)
  PROVE  Grows(nd, Heartbeat(nd))
<1> DEFINE entries == NewEntries(LastPosition(nd.log.entries))
           queued == QueueBroadcast(nd, AppendEntriesCall(nd, entries))
           sent == IF DOMAIN nd.followers = {} THEN nd ELSE queued
           nd2 == SetElectionTimeout(sent)
<1>1. Heartbeat(nd) = nd2
  BY DEF Heartbeat
<1>2. Grows(nd, nd)
  BY KeepsGrows DEF Spares
<1>3. entries \in Entries(C) /\ Edges(entries) \subseteq Edges(nd.log.entries)
  BY SoundLog, LastPositionTyped, NewEntriesTyped, EdgesOfNone
<1> HIDE DEF entries
<1>4. Grows(nd, queued) /\ Sound(queued, C) /\ SameState(nd, queued)
  BY <1>3, BroadcastCallGrows
<1> HIDE DEF queued
<1>5. Grows(nd, sent) /\ Sound(sent, C)
  BY <1>2, <1>4
<1> HIDE DEF sent
<1>6. Spares(sent, nd2) /\ Idles(sent, nd2, C)
  BY <1>5, TimerKeeps, TimerIdles DEF Sound
<1> HIDE DEF nd2
<1>7. Grows(sent, nd2) /\ Sound(nd2, C)
  BY <1>5, <1>6, KeepsGrows DEF Grows, Idles, SameState
<1>8. Grows(nd, nd2)
  BY <1>5, <1>7, GrowsTransitive
<1> QED
  BY <1>1, <1>8

LEMMA RepairFollowerGrows ==
  ASSUME NEW C, NEW nd, Sound(nd, C), Covered(nd), Ripe(nd), NEW from, NEW p \in Position
  PROVE  Grows(nd, RepairFollower(nd, from, p))
<1> DEFINE es == nd.log.entries
           entries == NewEntries(Pos(TermAt(es, p.index), p.index))
           sent == QueueSend(nd, from, AppendEntriesCall(nd, entries))
           told == QueueInstallSnapshot(nd, from)
<1>1. RepairFollower(nd, from, p) = IF ContainsIndex(es, p.index) THEN sent
                                    ELSE IF LastIndex(es) < p.index THEN nd ELSE told
  BY DEF RepairFollower
<1>2. Grows(nd, nd)
  BY KeepsGrows DEF Spares
<1>3. ASSUME ContainsIndex(es, p.index) PROVE Grows(nd, sent)
  <2>1. entries \in Entries(C) /\ Edges(entries) \subseteq Edges(es)
    BY <1>3, SoundLog, PositionTyped, NewEntriesTyped, EdgesOfNone
  <2> HIDE DEF entries
  <2> QED
    BY <2>1, SendCallGrows
<1>4. Grows(nd, told)
  <2>1. Spares(nd, told) /\ told.current_term = nd.current_term
    BY DEF Spares, QueueInstallSnapshot, Sound, IsNode, IsRecord, IsActions
  <2> HIDE DEF told
  <2> QED
    BY <2>1, KeepsGrows
<1> QED
  BY <1>1, <1>2, <1>3, <1>4

-----------------------------------------------------------------------------
(* Elections. *)

\* A new leader starts its term with an entry of it.
LEMMA LeaderGrows ==
  ASSUME NEW C, Closed(C), NEW nd, Sound(nd, C), Stands(nd, C), Covered(nd),
         LastPosition(nd.log.entries).term < nd.current_term
  PROVE  Grows(nd, TransitionToLeader(nd))
<1> DEFINE own == nd.voted_for = nd.id
           a == SetRole(nd, "Leader")
           b == RebuildFollowers(a)
           entry == TermEntry(nd.current_term)
           nd2 == TransitionToLeader(nd)
<1>1. nd2 = Propose(b, entry)
  <2>1. DebugAssert(nd, "leader vote", own) = nd
    BY DEF DebugAssert, Stands
  <2>2. nd2 = Propose(RebuildFollowers(SetRole(DebugAssert(nd, "leader vote", own), "Leader")), entry)
    BY DEF TransitionToLeader
  <2> HIDE DEF nd2, entry, own
  <2> QED
    BY <2>1, <2>2
<1>2. entry \in Entry(C) /\ entry.term = nd.current_term /\ entry.kind = "Term"
  BY DEF Sound, IsNode, IsRecord, TermEntry, Entry
<1> HIDE DEF entry, nd2
<1>3. /\ Sound(a, C)
      /\ a.current_term = nd.current_term
      /\ a.role = "Leader"
      /\ Spares(nd, a)
  BY RoleSound, RoleKeeps DEF Sound
<1> HIDE DEF a
<1>4. Tenure(a, b, C) /\ Spares(a, b)
  BY <1>3, RebuildFollowersTenure, RebuildKeeps DEF Sound
<1> HIDE DEF b
<1>5. /\ Sound(b, C) /\ b.role = "Leader" /\ b.current_term = nd.current_term
      /\ Spares(nd, b)
  BY <1>3, <1>4, KeepsTransitive DEF Tenure
<1>6. Covered(b) /\ b.log = nd.log
  BY <1>5, KeepsCovered DEF Spares
<1>7. TermsStep(NextEdge(b, entry))
  <2>1. /\ NextEdge(b, entry).before = LastPosition(nd.log.entries).term
        /\ NextEdge(b, entry).entry = entry
    BY <1>6 DEF NextEdge
  <2> QED
    BY <1>2, <2>1 DEF TermsStep
<1>8. Grows(b, nd2)
  BY <1>1, <1>2, <1>5, <1>6, <1>7, ProposeGrows
<1>9. Grows(nd, nd2)
  BY <1>5, <1>6, <1>8 DEF Grows, Adds
<1> QED
  BY <1>9 DEF nd2

LEMMA CandidateGrows ==
  ASSUME NEW C, Closed(C), NEW nd, Sound(nd, C), IsVoter(Config(nd), nd.id), Covered(nd),
         LastPosition(nd.log.entries).term <= nd.current_term
  PROVE  LET nd2 == TransitionToCandidate(nd) IN
         \/ /\ nd2.role = "Leader"
            /\ \E voted : Sound(voted, C) /\ voted.log = nd.log /\ Grows(voted, nd2)
         \/ nd2.role = "Candidate" /\ nd2.log = nd.log /\ Covered(nd2)
<1> DEFINE entered == SetCurrentTerm(nd, nd.current_term + 1)
           voted == SetVotedFor(entered, nd.id)
           role == SetRole(voted, "Candidate")
           candidate == [role EXCEPT !.granted_votes = {nd.id}]
           last == LastPosition(nd.log.entries)
           call == RequestVoteCall(candidate, last)
           sent == QueueBroadcast(candidate, call)
           timed == SetElectionTimeout(sent)
           nd2 == TransitionToCandidate(nd)
<1>1. nd2 = IF IsSelfSoloVoter(voted) THEN TransitionToLeader(voted) ELSE timed
  BY DEF TransitionToCandidate
<1>2. /\ Sound(voted, C)
      /\ Stands(voted, C)
      /\ voted.current_term = nd.current_term + 1
      /\ voted.log = nd.log
      /\ SameQueues(nd, voted)
  BY NextTermVote
<1> HIDE DEF voted, nd2
<1>3. Spares(nd, voted) /\ Covered(voted)
  BY <1>2, KeepsSame, KeepsCovered
<1>4. CASE IsSelfSoloVoter(voted)
  <2>1. nd2 = TransitionToLeader(voted)
    BY <1>1, <1>4
  <2>2. nd2.role = "Leader"
    BY <1>2, <2>1, TransitionToLeaderElects DEF Elected
  <2>3. LastPosition(voted.log.entries).term < voted.current_term
    <3>1. LastPosition(nd.log.entries).term \in Nat /\ nd.current_term \in Nat
      BY SoundLog, LastPositionTyped DEF Position, Sound, IsNode, IsRecord
    <3> QED
      BY <1>2, <3>1
  <2>4. Grows(voted, nd2)
    BY <1>2, <1>3, <2>1, <2>3, LeaderGrows
  <2> QED
    BY <1>2, <2>2, <2>4 DEF nd2
<1>5. CASE ~IsSelfSoloVoter(voted)
  <2>1. Sound(role, C) /\ role.role = "Candidate" /\ Spares(voted, role)
    BY <1>2, RoleSound, RoleKeeps DEF Sound
  <2> HIDE DEF role
  <2>2. /\ Alike(role, candidate)
        /\ candidate.log = role.log
        /\ candidate.commit_index = role.commit_index
        /\ candidate.role = role.role
        /\ candidate.followers = role.followers
        /\ candidate.broken = role.broken
    BY <2>1 DEF Sound, IsNode, IsRecord, Alike
  <2> HIDE DEF candidate
  <2>3. Evolves(role, candidate)
    BY <2>1, <2>2, AlikeEvolves DEF Sound
  <2>4. Sound(candidate, C)
    BY <2>1, <2>2, <2>3 DEF Sound, Stands, Evolves, Alike
  <2>5. Spares(role, candidate)
    BY <2>2 DEF Spares, Alike
  <2>6. Covered(candidate) /\ candidate.log = nd.log
    BY <1>2, <1>3, <2>1, <2>5, KeepsCovered DEF Spares
  <2>7. /\ IsCall(call)
        /\ MessageOK(call, C)
        /\ Speaks(call, candidate.id, candidate.current_term)
        /\ call.type = "RequestVoteCall"
        /\ call.term = candidate.current_term
    <3>1. Speaks(call, candidate.id, candidate.current_term)
      BY <2>4, NewMessagesSpeak DEF Sound
    <3>2. call.type = "RequestVoteCall" /\ call.term = candidate.current_term
      BY DEF RequestVoteCall
    <3> HIDE DEF call
    <3> QED
      BY <3>1, <3>2 DEF IsCall, MessageOK
  <2> HIDE DEF call
  <2>8. Utters(candidate, sent, C, call)
    BY <2>4, <2>7, QueueBroadcastUtters
  <2>9. Carried(call) = {}
    BY <2>7 DEF Carried
  <2>10. /\ Carries(sent, Edges(candidate.log.entries))
         /\ sent.actions.append_log_entries = candidate.actions.append_log_entries
    BY <2>4, <2>6, <2>7, <2>9, BroadcastCarries DEF Covered
  <2> HIDE DEF sent
  <2>11. Covered(sent) /\ sent.log = nd.log /\ sent.role = "Candidate"
    BY <2>1, <2>2, <2>6, <2>8, <2>10 DEF Utters, SameState, Covered
  <2>12. Spares(sent, timed) /\ timed.role = sent.role
    BY <2>8, TimerKeeps, TimerFacts DEF Utters, Sound, SameState
  <2> HIDE DEF timed
  <2>13. nd2 = timed
    BY <1>1, <1>5
  <2>14. Covered(timed) /\ timed.log = nd.log /\ timed.role = "Candidate"
    BY <2>11, <2>12, KeepsCovered DEF Spares
  <2> QED
    BY <2>13, <2>14 DEF nd2
<1> QED
  BY <1>4, <1>5

-----------------------------------------------------------------------------
(* What a call leaves, S being the edges that it may take. *)

IsNew(nd, nd2, e) ==
  /\ nd2.role = "Leader"
  /\ e.index > LastIndex(nd.log.entries)
  /\ e.entry.term = nd2.current_term
  /\ TermsStep(e)

Yields(nd, nd2, S) ==
  /\ nd2.log.entries.prev = nd.log.entries.prev
  /\ Carries(nd2, Edges(nd2.log.entries))
  /\ \A w \in nd2.actions.append_log_entries : Edges(w) \subseteq Edges(nd2.log.entries) \cup S
  /\ \A e \in Edges(nd2.log.entries) : e \in S \/ IsNew(nd, nd2, e)
  /\ nd2.role = "Leader" => Ripe(nd2)

LEMMA GrowsYields ==
  ASSUME NEW C, NEW nd, Sound(nd, C), NEW a, Sound(a, C), NEW nd2, Sound(nd2, C),
         a.log.entries.prev = nd.log.entries.prev,
         LastIndex(nd.log.entries) <= LastIndex(a.log.entries),
         NEW S, Edges(a.log.entries) \subseteq S,
         Grows(a, nd2), nd2.role = "Leader" \/ nd2.log = a.log
  PROVE  Yields(nd, nd2, S)
<1>1. /\ LastIndex(nd.log.entries) \in Nat
      /\ LastIndex(a.log.entries) \in Nat
  BY SoundLog, EntriesFacts
<1>2. ASSUME NEW e \in Edges(nd2.log.entries) PROVE e \in S \/ IsNew(nd, nd2, e)
  <2>1. e \in Edges(a.log.entries) \/ Adds(a, e)
    BY DEF Grows
  <2>2. e.index \in Nat
    BY SoundLog, EdgesFacts
  <2>3. CASE Adds(a, e) /\ nd2.role = "Leader"
    <3>1. e.index > LastIndex(nd.log.entries)
      BY <1>1, <2>2, <2>3 DEF Adds
    <3> QED
      BY <2>3, <3>1 DEF Adds, IsNew, Grows
  <2>4. CASE nd2.log = a.log
    BY <2>4
  <2> QED
    BY <2>1, <2>3, <2>4
<1> QED
  BY <1>2 DEF Grows, Covered, Yields

LEMMA CoveredYields ==
  ASSUME NEW nd, NEW nd2, Covered(nd2), nd2.log.entries.prev = nd.log.entries.prev,
         NEW S, Edges(nd2.log.entries) \subseteq S, nd2.role # "Leader" \/ Ripe(nd2)
  PROVE  Yields(nd, nd2, S)
  BY DEF Covered, Yields

-----------------------------------------------------------------------------
(* The handlers. *)

\* A node between calls, its actions executed: nothing that it queues has entries, and
\* a leader has appended in its term.
Ready(nd) ==
  /\ nd.actions.append_log_entries = {}
  /\ Carries(nd, {})
  /\ LastPosition(nd.log.entries).term <= nd.current_term
  /\ nd.role = "Leader" => Ripe(nd)

\* The node has no edges but those of S, and sends none.
Holds(nd, S) ==
  /\ Carries(nd, {})
  /\ \A w \in nd.actions.append_log_entries : Edges(w) \subseteq S
  /\ Edges(nd.log.entries) \subseteq S

LEMMA ReadyCovered == ASSUME NEW nd, Ready(nd) PROVE Covered(nd)
  BY DEF Ready, Covered, Carries

LEMMA ReadyHolds ==
  ASSUME NEW nd, Ready(nd), NEW S, Edges(nd.log.entries) \subseteq S
  PROVE  Holds(nd, S)
  BY DEF Ready, Holds

LEMMA KeepsHolds ==
  ASSUME NEW nd, NEW S, Holds(nd, S), NEW nd2, Spares(nd, nd2)
  PROVE  Holds(nd2, S)
  BY DEF Spares, Holds, Carries

LEMMA HoldsYields ==
  ASSUME NEW nd, NEW nd2, NEW S, Holds(nd2, S), nd2.log.entries.prev = nd.log.entries.prev,
         nd2.role # "Leader" \/ Ripe(nd2)
  PROVE  Yields(nd, nd2, S)
  BY DEF Holds, Yields, Carries

\* A reply, a vote or a call for votes.
LEMMA ReplyHolds ==
  ASSUME NEW C, NEW nd, Sound(nd, C), NEW S, Holds(nd, S), NEW to, NEW m, MessageOK(m, C),
         Speaks(m, nd.id, nd.current_term), m.term = nd.current_term,
         m.type # "AppendEntriesCall"
  PROVE  LET nd2 == QueueSend(nd, to, m) IN
         Holds(nd2, S) /\ Sound(nd2, C) /\ SameState(nd, nd2)
<1> DEFINE nd2 == QueueSend(nd, to, m)
<1>1. Utters(nd, nd2, C, m)
  BY QueueSendUtters
<1>2. Carried(m) = {} /\ Carries(nd, {})
  BY DEF Carried, Holds
<1>3. /\ Carries(nd2, {})
      /\ nd2.actions.append_log_entries = nd.actions.append_log_entries
  BY <1>2, SendCarries
<1> HIDE DEF nd2
<1>4. Holds(nd2, S)
  BY <1>1, <1>3 DEF Holds, Utters, SameState
<1> QED
  BY <1>1, <1>4 DEF Utters, nd2

LEMMA ReplyOK ==
  ASSUME NEW C, NEW nd, Sound(nd, C)
  PROVE  LET m == AppendEntriesReply(nd) IN
         /\ MessageOK(m, C)
         /\ Speaks(m, nd.id, nd.current_term)
         /\ m.term = nd.current_term
         /\ m.type # "AppendEntriesCall"
<1>1. Speaks(AppendEntriesReply(nd), nd.id, nd.current_term)
  BY NewMessagesSpeak DEF Sound
<1>2. LastPosition(nd.log.entries) \in Position
  BY SoundLog, LastPositionTyped
<1> QED
  BY <1>1, <1>2 DEF MessageOK, AppendEntriesReply

LEMMA VoteOK ==
  ASSUME NEW C, NEW nd, Sound(nd, C), NEW granted
  PROVE  LET m == RequestVoteReply(nd, granted) IN
         /\ MessageOK(m, C)
         /\ Speaks(m, nd.id, nd.current_term)
         /\ m.term = nd.current_term
         /\ m.type # "AppendEntriesCall"
<1>1. Speaks(RequestVoteReply(nd, granted), nd.id, nd.current_term)
  BY NewMessagesSpeak DEF Sound
<1> QED
  BY <1>1 DEF MessageOK, RequestVoteReply

LEMMA RequestVoteCallYields ==
  ASSUME NEW C, NEW nd, Sound(nd, C), Ready(nd), NEW m, NEW S,
         Edges(nd.log.entries) \subseteq S
  PROVE  Yields(nd, HandleRequestVoteCall(nd, m), S)
<1> DEFINE voted == IF nd.voted_for = Nil THEN SetVotedFor(nd, m.from) ELSE nd
           refused == QueueSend(nd, m.from, RequestVoteReply(nd, FALSE))
           reply == QueueSend(voted, m.from, RequestVoteReply(nd, TRUE))
           follows == nd.role = "Follower"
           asserted == DebugAssert(reply, "voter is follower", follows)
           timed == SetElectionTimeout(asserted)
           nd2 == HandleRequestVoteCall(nd, m)
           Fine(x) == Holds(x, S) /\ x.log = nd.log /\ x.role = nd.role
                        /\ x.current_term = nd.current_term
<1>1. \/ nd2 = refused
      \/ nd2 = nd
      \/ nd2 = voted
      \/ nd2 = timed
  BY DEF HandleRequestVoteCall
<1>2. IsNode(nd) /\ Holds(nd, S)
  BY ReadyHolds DEF Sound
<1>3. Fine(nd)
  BY <1>2
<1>4. Fine(refused)
  <2>1. Holds(refused, S) /\ SameState(nd, refused)
    BY <1>2, VoteOK, ReplyHolds
  <2> HIDE DEF refused
  <2> QED
    BY <2>1 DEF SameState
<1>5. Sound(voted, C) /\ Fine(voted) /\ voted.id = nd.id
  <2>1. CASE nd.voted_for = Nil
    <3> DEFINE v == SetVotedFor(nd, m.from)
    <3>1. nd.role = "Follower"
      BY <2>1 DEF Sound, Stands
    <3>2. Sound(v, C)
      BY <3>1, VotedSound
    <3>3. v.log = nd.log /\ v.role = nd.role /\ v.current_term = nd.current_term
          /\ v.id = nd.id
      BY <1>2, VotedForFacts
    <3>4. Holds(v, S)
      BY <1>2, VoteKeeps, KeepsHolds
    <3> HIDE DEF v
    <3>5. Fine(v)
      BY <3>3, <3>4
    <3>6. voted = v
      BY <2>1 DEF v
    <3> HIDE DEF voted, Fine
    <3> QED
      BY <3>2, <3>3, <3>5, <3>6
  <2>2. CASE nd.voted_for # Nil
    BY <1>3, <2>2
  <2> QED
    BY <2>1, <2>2
<1>6. Fine(timed)
  <2> HIDE DEF voted
  <2>1. Speaks(RequestVoteReply(nd, TRUE), voted.id, voted.current_term)
    BY <1>5, VoteOK
  <2>2. Holds(reply, S) /\ Sound(reply, C) /\ SameState(voted, reply)
    BY <1>5, <2>1, VoteOK, ReplyHolds
  <2> HIDE DEF reply
  <2>3. follows \in BOOLEAN
    OBVIOUS
  <2> HIDE DEF follows
  <2>4. Spares(reply, asserted) /\ SameState(reply, asserted) /\ IsNode(asserted)
    BY <2>2, <2>3, AssertKeeps, AssertFacts, DebugAssertEvolves DEF Sound
  <2> HIDE DEF asserted
  <2>5. Spares(asserted, timed) /\ SameState(asserted, timed)
    BY <2>4, TimerKeeps, TimerFacts
  <2> HIDE DEF timed
  <2>6. Holds(timed, S)
    BY <2>2, <2>4, <2>5, KeepsHolds
  <2> QED
    BY <1>5, <2>2, <2>4, <2>5, <2>6 DEF SameState
<1> HIDE DEF voted, refused, reply, asserted, timed, nd2
<1>7. Fine(nd2)
  BY <1>1, <1>3, <1>4, <1>5, <1>6
<1>8. nd2.role # "Leader" \/ Ripe(nd2)
  BY <1>7 DEF Ready, Ripe
<1>9. Yields(nd, nd2, S)
  BY <1>7, <1>8, HoldsYields
<1> QED
  BY <1>9 DEF nd2

\* A candidate that wins has no entry of its term.
Fits(nd, nd2) ==
  (nd.role = "Candidate" /\ nd2.role = "Leader" /\ nd2.current_term = nd.current_term)
    => LastPosition(nd.log.entries).term < nd.current_term

LEMMA RequestVoteReplyYields ==
  ASSUME NEW C, Closed(C), NEW nd, Sound(nd, C), Ready(nd), NEW m,
         Fits(nd, HandleRequestVoteReply(nd, m)), NEW S, Edges(nd.log.entries) \subseteq S
  PROVE  Yields(nd, HandleRequestVoteReply(nd, m), S)
<1> DEFINE votes == nd.granted_votes \cup {m.from}
           voted == [nd EXCEPT !.granted_votes = votes]
           won == TransitionToLeader(voted)
           nd2 == HandleRequestVoteReply(nd, m)
<1>1. nd2 = IF ~CountsVote(nd, m) THEN nd
            ELSE IF Wins(voted.granted_votes, Config(nd)) THEN won
            ELSE voted
  BY DEF HandleRequestVoteReply
<1>2. CASE nd2 = nd
  <2>1. Holds(nd, S)
    BY ReadyHolds
  <2> HIDE DEF nd2
  <2>2. Yields(nd, nd, S)
    BY <2>1, HoldsYields DEF Ready
  <2> QED
    BY <1>2, <2>2 DEF nd2
<1>3. CASE CountsVote(nd, m)
  <2>1. nd.role = "Candidate" /\ IsNode(nd)
    BY <1>3 DEF CountsVote, Sound
  <2> HIDE DEF votes
  <2>2. /\ Alike(nd, voted)
        /\ voted.log = nd.log
        /\ voted.commit_index = nd.commit_index
        /\ voted.role = nd.role
        /\ voted.followers = nd.followers
        /\ voted.broken = nd.broken
        /\ voted.current_term = nd.current_term
    BY <2>1 DEF IsNode, IsRecord, Alike
  <2> HIDE DEF voted
  <2>3. Evolves(nd, voted)
    BY <2>1, <2>2, AlikeEvolves
  <2>4. Sound(voted, C) /\ Stands(voted, C)
    BY <2>1, <2>2, <2>3 DEF Sound, Stands, Evolves, Alike
  <2>5. Spares(nd, voted)
    BY <2>2 DEF Spares, Alike
  <2>6. CASE nd2 = voted
    <3>1. Holds(voted, S)
      BY <2>5, ReadyHolds, KeepsHolds
    <3> HIDE DEF nd2
    <3>2. Yields(nd, voted, S)
      BY <2>1, <2>2, <3>1, HoldsYields
    <3> QED
      BY <2>6, <3>2 DEF nd2
  <2>7. CASE nd2 = won
    <3>1. Elected(voted, won, C)
      BY <2>4, TransitionToLeaderElects
    <3>2. Fits(nd, won)
      BY <2>7
    <3>3. LastPosition(nd.log.entries).term < nd.current_term
      <4> HIDE DEF won
      <4> QED
        BY <2>1, <2>2, <3>1, <3>2 DEF Fits, Elected
    <3>4. Covered(voted)
      BY <2>5, ReadyCovered, KeepsCovered
    <3>5. LastPosition(voted.log.entries).term < voted.current_term
      BY <2>2, <3>3
    <3>6. Grows(voted, won)
      BY <2>4, <3>4, <3>5, LeaderGrows
    <3> HIDE DEF won, nd2
    <3>7. LastIndex(nd.log.entries) <= LastIndex(voted.log.entries)
      BY <2>2, SoundLog, EntriesFacts
    <3>8. Yields(nd, won, S)
      BY <2>2, <2>4, <3>1, <3>6, <3>7, GrowsYields DEF Elected
    <3> QED
      BY <2>7, <3>8 DEF nd2
  <2> QED
    BY <1>1, <1>3, <2>6, <2>7
<1> QED
  BY <1>1, <1>2, <1>3

LEMMA AppendFromLeaderHolds ==
  ASSUME NEW C, NEW nd, Sound(nd, C), nd.actions.append_log_entries = {}, NEW es \in Entries(C),
         \A e \in Edges(es) : TermsStep(e), NEW S, Holds(nd, S), Edges(es) \subseteq S
  PROVE  LET nd2 == AppendFromLeader(nd, es).nd IN
         Holds(nd2, S) /\ nd2.log.entries.prev = nd.log.entries.prev
<1> DEFINE local == nd.log.entries
           delta == StripCommonPrefix(es, local)
           n == es.prev.index - local.prev.index - 1
           kept == Truncate(local, n)
           grown == AppendUnchecked(local, delta)
           queued == QueueAppend(nd, delta)
           appended == [queued EXCEPT !.log.entries = grown]
           truncated == [nd EXCEPT !.log.entries = kept]
           nd2 == AppendFromLeader(nd, es).nd
<1>1. local \in Entries(C) /\ nd.log \in Logs(C) /\ IsNode(nd) /\ IsRecord(nd)
  BY SoundLog DEF Sound, IsNode
<1>2. nd.log = [snapshot_config |-> nd.log.snapshot_config, entries |-> nd.log.entries]
  BY <1>1, LogFacts
<1>3. CASE ~Contains(local, LastPosition(es)) /\ Contains(local, es.prev) /\ nd2 = appended
  <2>1. delta \in Entries(C) /\ Contains(local, delta.prev) /\ Edges(delta) \subseteq Edges(es)
    BY <1>1, <1>3, StripTyped
  <2> HIDE DEF delta
  <2>2. grown.prev = local.prev /\ Edges(grown) \subseteq Edges(local) \cup Edges(delta)
    BY <1>1, <2>1, AppendEdges
  <2> HIDE DEF grown
  <2>3. /\ IsRecord(queued)
        /\ queued.log = nd.log
        /\ queued.actions.broadcast_message = nd.actions.broadcast_message
        /\ queued.actions.send_messages = nd.actions.send_messages
    BY <1>1, QueueAppendFacts
  <2>4. queued.actions.append_log_entries = {delta}
    <3> DEFINE merged == {AppendUnchecked(w, delta) : w \in nd.actions.append_log_entries}
    <3>1. queued.actions.append_log_entries = IF merged = {} THEN {delta} ELSE merged
      BY <1>1, QueueAppendFacts
    <3>2. merged = {}
      OBVIOUS
    <3> QED
      BY <3>1, <3>2
  <2> HIDE DEF queued
  <2>5. appended.log.entries = grown /\ appended.actions = queued.actions
    BY <1>2, <2>3 DEF IsRecord
  <2> HIDE DEF appended, nd2, local
  <2>6. Carries(appended, {})
    BY <2>3, <2>5 DEF Holds, Carries
  <2>7. Holds(appended, S)
    BY <2>1, <2>2, <2>4, <2>5, <2>6 DEF Holds, local
  <2> QED
    BY <1>3, <2>2, <2>5, <2>7 DEF nd2, local
<1>4. CASE nd2 = truncated
  <2>1. n \in Int
    BY <1>1, EntriesFacts
  <2> HIDE DEF n
  <2>2. kept.prev = local.prev /\ Edges(kept) \subseteq Edges(local)
    BY <1>1, <2>1, TruncateTyped, TruncateEdges
  <2> HIDE DEF kept
  <2>3. truncated.log.entries = kept /\ truncated.actions = nd.actions
    BY <1>1, <1>2 DEF IsRecord
  <2> HIDE DEF truncated, nd2
  <2>4. Holds(truncated, S)
    BY <2>2, <2>3 DEF Holds, Carries
  <2> QED
    BY <1>4, <2>2, <2>3, <2>4 DEF nd2
<1>5. \/ nd2 = nd
      \/ ~Contains(local, LastPosition(es)) /\ Contains(local, es.prev) /\ nd2 = appended
      \/ nd2 = truncated
  <2> HIDE DEF delta, kept, appended, truncated
  <2> USE DEF AppendFromLeader
  <2>1. nd2 = (IF Contains(local, LastPosition(es))
               THEN [nd |-> nd, agrees |-> LastPosition(local) = LastPosition(es)]
               ELSE IF Contains(local, es.prev)
               THEN [nd |-> appended, agrees |-> TRUE]
               ELSE IF ContainsIndex(local, es.prev.index)
               THEN [nd |-> truncated, agrees |-> FALSE]
               ELSE [nd |-> nd, agrees |-> FALSE]).nd
    BY DEF delta, kept, appended, truncated
  <2> HIDE DEF AppendFromLeader, nd2
  <2> QED
    BY <2>1
<1> QED
  BY <1>3, <1>4, <1>5

\* The follower of a leader, before it looks at the leader's entries.
AsFollower(nd, from) ==
  LET follower == IF nd.role = "Follower" THEN nd ELSE SetRole(nd, "Follower")
  IN  IF follower.voted_for = from THEN follower ELSE SetVotedFor(follower, from)

LEMMA FollowerHolds ==
  ASSUME NEW C, NEW nd, Sound(nd, C), NEW S, Holds(nd, S), NEW from
  PROVE  LET voted == AsFollower(nd, from) IN
         /\ Sound(voted, C)
         /\ Holds(voted, S)
         /\ voted.role = "Follower"
         /\ voted.log = nd.log
         /\ voted.actions.append_log_entries = nd.actions.append_log_entries
<1> DEFINE follower == IF nd.role = "Follower" THEN nd ELSE SetRole(nd, "Follower")
           voted == IF follower.voted_for = from THEN follower ELSE SetVotedFor(follower, from)
           Fine(x) == /\ Sound(x, C)
                      /\ Holds(x, S)
                      /\ x.role = "Follower"
                      /\ x.log = nd.log
                      /\ x.actions.append_log_entries = nd.actions.append_log_entries
<1>1. Fine(follower)
  <2>1. CASE nd.role = "Follower"
    BY <2>1
  <2>2. CASE nd.role # "Follower"
    <3> DEFINE f == SetRole(nd, "Follower")
    <3>1. Sound(f, C) /\ f.role = "Follower" /\ f.log = nd.log
      BY RoleSound
    <3>2. Spares(nd, f)
      BY RoleKeeps DEF Sound
    <3> HIDE DEF f
    <3>3. Fine(f)
      BY <3>1, <3>2, KeepsHolds DEF Spares
    <3>4. follower = f
      BY <2>2 DEF f
    <3> HIDE DEF follower, Fine
    <3> QED
      BY <3>3, <3>4
  <2> QED
    BY <2>1, <2>2
<1> HIDE DEF follower
<1>2. Fine(SetVotedFor(follower, from))
  <2> DEFINE v == SetVotedFor(follower, from)
  <2>1. Sound(v, C) /\ v.role = "Follower" /\ v.log = follower.log
    BY <1>1, VotedSound
  <2>2. Spares(follower, v)
    BY <1>1, VoteKeeps DEF Sound
  <2> HIDE DEF v
  <2>3. Fine(v)
    BY <1>1, <2>1, <2>2, KeepsHolds DEF Spares
  <2> QED
    BY <2>3 DEF v
<1>3. voted \in {follower, SetVotedFor(follower, from)}
  OBVIOUS
<1>4. voted = AsFollower(nd, from)
  BY DEF AsFollower, follower
<1> HIDE DEF voted, Fine
<1>5. Fine(voted)
  BY <1>1, <1>2, <1>3
<1> QED
  BY <1>4, <1>5 DEF Fine

LEMMA AppendEntriesCallYields ==
  ASSUME NEW C, NEW nd, Sound(nd, C), Ready(nd), NEW m, MessageOK(m, C),
         m.type = "AppendEntriesCall", \A e \in Carried(m) : TermsStep(e), NEW S,
         Edges(nd.log.entries) \subseteq S, Carried(m) \subseteq S
  PROVE  Yields(nd, HandleAppendEntriesCall(nd, m), S)
<1> DEFINE voted == AsFollower(nd, m.from)
           result == AppendFromLeader(voted, m.entries)
           grown == result.nd
           known == Min({m.commit_index, LastIndex(grown.log.entries)})
           i == Max({grown.commit_index, known})
           updated == IF result.agrees THEN [grown EXCEPT !.commit_index = i] ELSE grown
           replied == QueueSend(updated, m.from, AppendEntriesReply(updated))
           timed == SetElectionTimeout(replied)
           stale == QueueSend(nd, m.from, AppendEntriesReply(nd))
           rival == DebugAssert(nd, "two leaders", FALSE)
           mismatched == DebugAssert(voted, "LocalSnapshotMismatch", FALSE)
           nd2 == HandleAppendEntriesCall(nd, m)
           Fine(x) == /\ Holds(x, S)
                      /\ x.log.entries.prev = nd.log.entries.prev
                      /\ x.role # "Leader" \/ Ripe(x)
<1>1. \/ nd2 = stale
      \/ nd2 = rival
      \/ nd2 = mismatched
      \/ nd2 = timed
  BY DEF HandleAppendEntriesCall, AsFollower
<1>2. IsNode(nd) /\ Holds(nd, S) /\ nd.actions.append_log_entries = {}
  BY ReadyHolds DEF Sound, Ready
<1>3. Fine(stale)
  <2>1. Holds(stale, S) /\ SameState(nd, stale)
    BY <1>2, ReplyOK, ReplyHolds
  <2> HIDE DEF stale
  <2> QED
    BY <2>1 DEF SameState, Ready, Ripe
<1>4. Fine(rival)
  <2>1. Spares(nd, rival) /\ SameState(nd, rival)
    BY <1>2, AssertKeeps, AssertFacts
  <2> HIDE DEF rival
  <2>2. Holds(rival, S)
    BY <1>2, <2>1, KeepsHolds
  <2> QED
    BY <2>1, <2>2 DEF SameState, Ready, Ripe
<1>5. /\ Sound(voted, C)
      /\ Holds(voted, S)
      /\ voted.role = "Follower"
      /\ voted.log = nd.log
      /\ voted.actions.append_log_entries = {}
  BY <1>2, FollowerHolds
<1> HIDE DEF voted, stale, rival
<1>6. Fine(mismatched)
  <2>1. Spares(voted, mismatched) /\ SameState(voted, mismatched)
    BY <1>5, AssertKeeps, AssertFacts DEF Sound
  <2> HIDE DEF mismatched
  <2>2. Holds(mismatched, S)
    BY <1>5, <2>1, KeepsHolds
  <2> QED
    BY <1>5, <2>1, <2>2 DEF SameState
<1>7. Fine(timed)
  <2>1. m.entries \in Entries(C) /\ m.commit_index \in Nat
    BY DEF MessageOK
  <2>2. Following(voted, grown, C, voted.voted_for)
    BY <1>5, <2>1, AppendFromLeaderFollows
  <2>3. Carried(m) = Edges(m.entries)
    BY DEF Carried
  <2>4. Holds(grown, S) /\ grown.log.entries.prev = voted.log.entries.prev
    BY <1>5, <2>1, <2>3, AppendFromLeaderHolds
  <2> HIDE DEF result, grown
  <2>5. Sound(grown, C) /\ grown.role = "Follower"
    BY <2>2 DEF Following
  <2>6. i \in Nat
    <3>1. grown.commit_index \in Nat /\ LastIndex(grown.log.entries) \in Nat
      BY <2>5, SoundLog, EntriesFacts DEF Sound
    <3>2. known \in Nat
      BY <2>1, <3>1, TwoIndices
    <3> HIDE DEF known
    <3> QED
      BY <3>1, <3>2, TwoIndices
  <2> HIDE DEF i
  <2>7. /\ Sound(updated, C)
        /\ Spares(grown, updated)
        /\ updated.role = "Follower"
    <3> DEFINE up == [grown EXCEPT !.commit_index = i]
    <3>1. Sound(up, C) /\ up.role = grown.role /\ up.actions = grown.actions
      BY <2>5, <2>6, FollowerCommit
    <3>2. up.log = grown.log
      BY <2>5 DEF Sound, IsNode, IsRecord
    <3> HIDE DEF up
    <3>3. Sound(up, C) /\ Spares(grown, up) /\ up.role = "Follower"
      BY <2>5, <3>1, <3>2 DEF Spares
    <3>4. Spares(grown, grown)
      BY DEF Spares
    <3> QED
      BY <2>5, <3>3, <3>4 DEF up
  <2> HIDE DEF updated
  <2>8. Holds(updated, S) /\ updated.log = grown.log
    BY <2>4, <2>7, KeepsHolds DEF Spares
  <2>9. Holds(replied, S) /\ Sound(replied, C) /\ SameState(updated, replied)
    BY <2>7, <2>8, ReplyOK, ReplyHolds
  <2> HIDE DEF replied
  <2>10. Spares(replied, timed) /\ SameState(replied, timed)
    BY <2>9, TimerKeeps, TimerFacts DEF Sound
  <2> HIDE DEF timed
  <2>11. Holds(timed, S)
    BY <2>9, <2>10, KeepsHolds
  <2> QED
    BY <1>5, <2>4, <2>7, <2>8, <2>9, <2>10, <2>11 DEF SameState
<1> HIDE DEF mismatched, timed, nd2
<1>8. Fine(nd2)
  BY <1>1, <1>3, <1>4, <1>6, <1>7
<1>9. Yields(nd, nd2, S)
  BY <1>8, HoldsYields
<1> QED
  BY <1>9 DEF nd2

\* What a leader's call changes, if it goes on to lead or keeps its log.
LEMMA LeadingYields ==
  ASSUME NEW C, NEW nd, Sound(nd, C), NEW nd2, Sound(nd2, C), Grows(nd, nd2),
         nd2.role = "Leader" \/ nd2.log = nd.log, NEW S, Edges(nd.log.entries) \subseteq S
  PROVE  Yields(nd, nd2, S)
<1>1. LastIndex(nd.log.entries) <= LastIndex(nd.log.entries)
  BY SoundLog, EntriesFacts
<1> QED
  BY <1>1, GrowsYields

\* A leader that has grown contains what it has contained.
LEMMA GrowsContains ==
  ASSUME NEW C, NEW nd, Sound(nd, C), NEW nd2, Sound(nd2, C), Grows(nd, nd2),
         NEW p \in Position, Contains(nd.log.entries, p)
  PROVE  Contains(nd2.log.entries, p)
<1> DEFINE a == nd.log.entries
           b == nd2.log.entries
           i == p.index
<1>1. /\ a \in Entries(C) /\ b \in Entries(C)
      /\ b.prev = a.prev
      /\ LastIndex(a) <= LastIndex(b)
      /\ Edges(a) \subseteq Edges(b)
  BY SoundLog DEF Grows
<1>2. /\ a.prev.index \in Nat /\ LastIndex(a) \in Nat /\ LastIndex(b) \in Nat
      /\ i \in a.prev.index .. LastIndex(a)
      /\ TermAt(a, i) = p.term
  BY <1>1, EntriesFacts DEF Contains, ContainsIndex
<1> HIDE DEF a, b, i
<1>3. i \in b.prev.index .. LastIndex(b)
  BY <1>1, <1>2
<1>4. TermAt(b, i) = p.term
  <2>1. CASE i = a.prev.index
    BY <1>1, <1>2, <2>1 DEF TermAt
  <2>2. CASE i # a.prev.index
    <3>1. i \in a.prev.index + 1 .. LastIndex(a)
      BY <1>2, <2>2
    <3>2. Edge(a, i) \in Edges(b)
      BY <1>1, <3>1, EdgeIn
    <3>3. Edge(a, i).index = i /\ Edge(a, i).entry.term = TermAt(a, i)
      BY <1>1, <3>1, TermAtEntry DEF Edge
    <3> QED
      BY <1>1, <1>2, <3>2, <3>3, EdgesFacts
  <2> QED
    BY <2>1, <2>2
<1> QED
  BY <1>3, <1>4 DEF Contains, ContainsIndex, b, i

LEMMA AppendEntriesReplyYields ==
  ASSUME NEW C, Closed(C), NEW nd, Sound(nd, C), Ready(nd), NEW m, MessageOK(m, C),
         m.type = "AppendEntriesReply", NEW S, Edges(nd.log.entries) \subseteq S
  PROVE  Yields(nd, HandleAppendEntriesReply(nd, m), S)
<1> DEFINE p == m.last_position
           matched == [nd EXCEPT !.followers[m.from] = p.index]
           higher == UpdateCommitIndexIfPossible(matched)
           advanced == IF nd.followers[m.from] = p.index THEN nd
                       ELSE IF nd.commit_index < p.index THEN higher
                       ELSE matched
           entries == Since(advanced.log.entries, p)
           call == AppendEntriesCall(advanced, entries)
           sent == QueueSend(advanced, m.from, call)
           repaired == RepairFollower(nd, m.from, p)
           nd2 == HandleAppendEntriesReply(nd, m)
           Fine(x) == Sound(x, C) /\ Grows(nd, x) /\ (x.role = "Leader" \/ x.log = nd.log)
<1>1. nd2 = IF ~CountsReply(nd, m) THEN nd
            ELSE IF ~Contains(nd.log.entries, p) THEN repaired
            ELSE IF p.index = LastIndex(nd.log.entries) THEN advanced
            ELSE sent
  BY DEF HandleAppendEntriesReply
<1>2. p \in Position /\ p.index \in Nat
  BY DEF MessageOK, Position
<1>3. Yields(nd, nd, S)
  BY ReadyHolds, HoldsYields DEF Ready
<1>4. ASSUME CountsReply(nd, m)
      PROVE  /\ Fine(repaired)
             /\ Fine(advanced)
  <2>1. nd.role = "Leader" /\ m.from \in DOMAIN nd.followers /\ p.index >= nd.followers[m.from]
    BY <1>4 DEF CountsReply
  <2>2. Covered(nd) /\ Ripe(nd) /\ Spares(nd, nd)
    BY <2>1, ReadyCovered DEF Ready, Spares
  <2> HIDE DEF p
  <2>3. Fine(repaired)
    <3>1. Tenure(nd, repaired, C)
      BY <1>2, <2>1, RepairFollowerTenure
    <3>2. Grows(nd, repaired)
      BY <1>2, <2>2, RepairFollowerGrows
    <3> HIDE DEF repaired
    <3> QED
      BY <3>1, <3>2 DEF Tenure
  <2>4. Fine(nd)
    BY <2>2, KeepsGrows
  <2>5. Tenure(nd, matched, C) /\ matched.log = nd.log
    BY <1>2, <2>1, MatchedTenure
  <2>6. Spares(nd, matched) /\ matched.current_term = nd.current_term
    <3>1. matched.actions = nd.actions /\ matched.current_term = nd.current_term
      BY DEF Sound, IsNode, IsRecord
    <3> HIDE DEF matched
    <3> QED
      BY <2>5, <3>1 DEF Spares
  <2> HIDE DEF matched
  <2>7. Fine(matched) /\ matched.role = "Leader"
    BY <2>2, <2>5, <2>6, KeepsGrows DEF Tenure
  <2>8. Fine(higher)
    <3>1. Tenure(matched, higher, C) \/ StepsDown(matched, higher, C)
      BY <2>7, UpdateCommitTenure
    <3>2. Grows(matched, higher)
      BY <2>7, UpdateCommitGrows DEF Grows
    <3> HIDE DEF higher
    <3>3. Sound(higher, C) /\ (higher.role = "Leader" \/ higher.log = nd.log)
      BY <2>5, <3>1 DEF Tenure, StepsDown
    <3> QED
      BY <2>7, <3>2, <3>3, GrowsTransitive
  <2> HIDE DEF higher, repaired, Fine
  <2> QED
    BY <2>3, <2>4, <2>7, <2>8
<1> HIDE DEF advanced, repaired
<1>5. ASSUME CountsReply(nd, m), Contains(nd.log.entries, p)
      PROVE  Fine(sent)
  <2>1. Sound(advanced, C) /\ Grows(nd, advanced)
        /\ (advanced.role = "Leader" \/ advanced.log = nd.log)
    BY <1>4, <1>5
  <2>2. Covered(advanced) /\ Ripe(advanced)
    BY <2>1 DEF Grows
  <2> HIDE DEF p
  <2>3. Contains(advanced.log.entries, p)
    BY <1>2, <1>5, <2>1, GrowsContains
  <2>4. advanced.log.entries \in Entries(C)
    BY <2>1, SoundLog
  <2>5. entries \in Entries(C) /\ Edges(entries) \subseteq Edges(advanced.log.entries)
    BY <1>2, <2>3, <2>4, SinceTyped, SinceEdges DEF Contains
  <2> HIDE DEF entries
  <2>6. Grows(advanced, sent)
    BY <2>1, <2>2, <2>5, SendCallGrows
  <2>7. Sound(sent, C) /\ SameState(advanced, sent)
    <3>1. /\ MessageOK(call, C)
          /\ Speaks(call, advanced.id, advanced.current_term)
          /\ call.term = advanced.current_term
      BY <2>1, <2>5, NewCallTyped
    <3> HIDE DEF call
    <3>2. Utters(advanced, sent, C, call)
      BY <2>1, <3>1, QueueSendUtters
    <3> QED
      BY <3>2 DEF Utters
  <2> HIDE DEF sent
  <2> QED
    BY <2>1, <2>6, <2>7, GrowsTransitive DEF SameState
<1> HIDE DEF nd2, sent, p
<1>6. ASSUME NEW x, Fine(x) PROVE Yields(nd, x, S)
  BY <1>6, LeadingYields
<1> HIDE DEF Fine
<1>7. Yields(nd, nd2, S)
  <2>1. CASE ~CountsReply(nd, m)
    BY <1>1, <1>3, <2>1
  <2>2. CASE CountsReply(nd, m)
    BY <1>1, <1>4, <1>5, <1>6, <2>2
  <2> QED
    BY <2>1, <2>2
<1> QED
  BY <1>7 DEF nd2

LEMMA DispatchYields ==
  ASSUME NEW C, Closed(C), NEW nd, Sound(nd, C), Ready(nd), NEW m, IsMessage(m), MessageOK(m, C),
         \A e \in Carried(m) : TermsStep(e), Fits(nd, Dispatch(nd, m)), NEW S,
         Edges(nd.log.entries) \subseteq S, Carried(m) \subseteq S
  PROVE  Yields(nd, Dispatch(nd, m), S)
<1>1. m.type \in {"RequestVoteCall", "RequestVoteReply", "AppendEntriesCall",
                  "AppendEntriesReply"}
  BY DEF IsMessage
<1>2. CASE m.type = "RequestVoteCall"
  <2>1. Dispatch(nd, m) = HandleRequestVoteCall(nd, m)
    BY <1>2 DEF Dispatch
  <2> QED
    BY <2>1, RequestVoteCallYields
<1>3. CASE m.type = "RequestVoteReply"
  <2>1. Dispatch(nd, m) = HandleRequestVoteReply(nd, m)
    BY <1>3 DEF Dispatch
  <2> QED
    BY <2>1, RequestVoteReplyYields
<1>4. CASE m.type = "AppendEntriesCall"
  <2>1. Dispatch(nd, m) = HandleAppendEntriesCall(nd, m)
    BY <1>4 DEF Dispatch
  <2> QED
    BY <1>4, <2>1, AppendEntriesCallYields
<1>5. CASE m.type = "AppendEntriesReply"
  <2>1. Dispatch(nd, m) = HandleAppendEntriesReply(nd, m)
    BY <1>5 DEF Dispatch
  <2> QED
    BY <1>5, <2>1, AppendEntriesReplyYields
<1> QED
  BY <1>1, <1>2, <1>3, <1>4, <1>5

LEMMA HandleMessageYields ==
  ASSUME NEW C, Closed(C), NEW nd, Sound(nd, C), Ready(nd), NEW m, IsMessage(m), MessageOK(m, C),
         \A e \in Carried(m) : TermsStep(e), Fits(nd, HandleMessage(nd, m)), NEW S,
         Edges(nd.log.entries) \subseteq S, Carried(m) \subseteq S
  PROVE  Yields(nd, HandleMessage(nd, m), S)
<1>1. CASE m.from = nd.id
  <2>1. HandleMessage(nd, m) = nd
    BY <1>1 DEF HandleMessage
  <2>2. Holds(nd, S)
    BY ReadyHolds
  <2>3. Yields(nd, nd, S)
    BY <2>2, HoldsYields DEF Ready
  <2> QED
    BY <2>1, <2>3
<1>2. CASE m.from # nd.id
  <2> DEFINE a == ObserveTerm(nd, m.term)
  <2>1. HandleMessage(nd, m) = Dispatch(a, m)
    BY <1>2 DEF HandleMessage
  <2>2. m.term \in Nat /\ nd.current_term \in Nat
    BY DEF IsMessage, Sound, IsNode, IsRecord
  <2>3. CASE nd.current_term < m.term
    <3>1. a = TransitionToFollower(nd, m.term)
      BY <2>3 DEF ObserveTerm
    <3>2. nd.current_term <= m.term
      BY <2>2, <2>3
    <3>3. Demoted(nd, a, C, m.term)
      BY <2>2, <3>1, <3>2, TransitionToFollowerDemotes
    <3> HIDE DEF a
    <3>4. Sound(a, C) /\ a.log = nd.log /\ a.role = "Follower" /\ Spares(nd, a)
          /\ a.current_term = m.term
      BY <3>3 DEF Demoted
    <3>5. LastPosition(a.log.entries).term <= a.current_term
      <4>1. LastPosition(nd.log.entries).term \in Nat
        BY SoundLog, LastPositionTyped DEF Position
      <4>2. LastPosition(nd.log.entries).term <= nd.current_term
        BY DEF Ready
      <4>3. LastPosition(nd.log.entries).term <= m.term
        BY <2>2, <3>2, <4>1, <4>2
      <4> QED
        BY <3>4, <4>3
    <3>6. Ready(a)
      BY <3>4, <3>5 DEF Ready, Spares, Carries
    <3>7. Fits(a, Dispatch(a, m))
      BY <3>4 DEF Fits
    <3>8. Yields(a, Dispatch(a, m), S)
      BY <3>4, <3>6, <3>7, DispatchYields
    <3> QED
      BY <2>1, <3>4, <3>8 DEF Yields, IsNew
  <2>4. CASE ~(nd.current_term < m.term)
    <3>1. a = nd
      BY <2>4 DEF ObserveTerm
    <3> HIDE DEF a
    <3>2. HandleMessage(nd, m) = Dispatch(nd, m)
      BY <2>1, <3>1
    <3> QED
      BY <3>2, DispatchYields
  <2> QED
    BY <2>3, <2>4
<1> QED
  BY <1>1, <1>2

\* An election, after a change of the log or none.
LEMMA CandidateYields ==
  ASSUME NEW C, Closed(C), NEW nd, Sound(nd, C), NEW a, Sound(a, C), Covered(a),
         IsVoter(Config(a), a.id), LastPosition(a.log.entries).term <= a.current_term,
         a.log.entries.prev = nd.log.entries.prev,
         LastIndex(nd.log.entries) <= LastIndex(a.log.entries),
         NEW S, Edges(a.log.entries) \subseteq S
  PROVE  Yields(nd, TransitionToCandidate(a), S)
<1> DEFINE nd2 == TransitionToCandidate(a)
<1>1. Sound(nd2, C)
  BY TransitionToCandidateStands DEF Candidacy
<1>2. \/ /\ nd2.role = "Leader"
         /\ \E voted : Sound(voted, C) /\ voted.log = a.log /\ Grows(voted, nd2)
      \/ nd2.role = "Candidate" /\ nd2.log = a.log /\ Covered(nd2)
  BY CandidateGrows
<1> HIDE DEF nd2
<1>3. ASSUME NEW voted, nd2.role = "Leader", Sound(voted, C), voted.log = a.log,
             Grows(voted, nd2)
      PROVE  Yields(nd, nd2, S)
  BY <1>1, <1>3, GrowsYields
<1>4. ASSUME nd2.role = "Candidate", nd2.log = a.log, Covered(nd2)
      PROVE  Yields(nd, nd2, S)
  BY <1>4, CoveredYields
<1>5. Yields(nd, nd2, S)
  BY <1>2, <1>3, <1>4
<1> QED
  BY <1>5 DEF nd2

LEMMA StartElectionYields ==
  ASSUME NEW C, Closed(C), NEW nd, Sound(nd, C), Ready(nd), IsVoter(Config(nd), nd.id),
         NEW S, Edges(nd.log.entries) \subseteq S
  PROVE  Yields(nd, TransitionToCandidate(nd), S)
<1>1. LastIndex(nd.log.entries) <= LastIndex(nd.log.entries)
  BY SoundLog, EntriesFacts
<1> QED
  BY <1>1, ReadyCovered, CandidateYields DEF Ready

\* The edge of a cluster's first entry.
Founding(voters) ==
  [before |-> 0, index |-> 1, entry |-> ConfigEntry(0, [EmptyConfig EXCEPT !.voters = voters])]

LEMMA CreatedYields ==
  ASSUME NEW C, Closed(C), NEW nd, Sound(nd, C), Ready(nd), NEW voters, CanCreate(nd, voters),
         [EmptyConfig EXCEPT !.voters = voters] \in C,
         NEW S, Edges(nd.log.entries) \subseteq S, Founding(voters) \in S
  PROVE  Yields(nd, Created(nd, voters), S)
<1> DEFINE config == [EmptyConfig EXCEPT !.voters = voters]
           e == ConfigEntry(0, config)
           a == Pushed(nd, e)
           nd2 == Created(nd, voters)
<1>1. nd2 = IF IsVoter(config, nd.id) THEN TransitionToCandidate(a) ELSE a
  BY DEF Created, Pushed, CanCreate
<1>2. e \in Entry(C) /\ e.kind = "ClusterConfig" /\ e.config = config /\ e.term = 0
  BY DEF Entry, ConfigEntry
<1>3. Founding(voters) = [before |-> 0, index |-> 1, entry |-> e]
  BY DEF Founding
<1> HIDE DEF config, e
<1>4. /\ LastPosition(nd.log.entries).term = 0
      /\ LastIndex(nd.log.entries) = 0
  <2>1. LastPosition(nd.log.entries).index = LastIndex(nd.log.entries)
    BY SoundLog, LastPositionTyped
  <2>2. LastPosition(nd.log.entries) = [term |-> 0, index |-> 0]
    BY DEF CanCreate, ZERO, Pos
  <2> QED
    BY <2>1, <2>2
<1>5. NextEdge(nd, e) = Founding(voters)
  BY <1>3, <1>4 DEF NextEdge
<1>6. /\ Covered(a)
      /\ Edges(a.log.entries) = Edges(nd.log.entries) \cup {NextEdge(nd, e)}
      /\ LastPosition(a.log.entries) = Pos(e.term, LastIndex(nd.log.entries) + 1)
      /\ LastIndex(a.log.entries) = LastIndex(nd.log.entries) + 1
      /\ a.log.entries.prev = nd.log.entries.prev
  BY <1>2, ReadyCovered, PushedCovers
<1>7. /\ Sound(a, C)
      /\ a.id = nd.id
      /\ a.current_term = nd.current_term
      /\ a.role = nd.role
      /\ a.log.entries = Push(nd.log.entries, e)
  <2> HIDE DEF nd2
  <2> QED
    BY <1>2, PushedFacts, ZenonT(60)
<1> HIDE DEF a, nd2
<1>8. Edges(a.log.entries) \subseteq S
  BY <1>5, <1>6
<1>9. LastPosition(a.log.entries).term <= a.current_term
  BY <1>2, <1>6, <1>7 DEF Pos, Sound, IsNode, IsRecord
<1>10. LastIndex(nd.log.entries) <= LastIndex(a.log.entries)
  BY <1>4, <1>6
<1>11. CASE IsVoter(config, nd.id)
  <2>1. Config(a) = config
    <3>1. nd.log \in Logs(C)
      BY SoundLog
    <3>2. LatestConfig(a.log) = e.config
      BY <1>2, <1>7, <3>1, LatestConfigPushed, ZenonT(60)
    <3> QED
      BY <1>2, <3>2 DEF Config
  <2>2. Yields(nd, nd2, S)
    BY <1>1, <1>6, <1>7, <1>8, <1>9, <1>10, <1>11, <2>1, CandidateYields
  <2> QED
    BY <2>2 DEF nd2
<1>12. CASE nd2 = a
  <2>1. a.role # "Leader"
    BY <1>4, <1>7 DEF Sound, Stands
  <2>2. Yields(nd, nd2, S)
    BY <1>6, <1>8, <1>12, <2>1, CoveredYields
  <2> QED
    BY <2>2 DEF nd2
<1> QED
  BY <1>1, <1>11, <1>12

LEMMA ProposeYields ==
  ASSUME NEW C, Closed(C), NEW nd, Sound(nd, C), Ready(nd), nd.role = "Leader",
         NEW entry \in Entry(C), entry.term = nd.current_term, entry.kind # "Term",
         NEW S, Edges(nd.log.entries) \subseteq S
  PROVE  Yields(nd, Propose(nd, entry), S)
<1>1. Ripe(nd) /\ Covered(nd)
  BY ReadyCovered DEF Ready
<1>2. Grows(nd, Propose(nd, entry))
  BY <1>1, FollowsInTerm, ProposeGrows
<1>3. Tenure(nd, Propose(nd, entry), C)
  BY ProposeTenure
<1> QED
  BY <1>2, <1>3, LeadingYields DEF Tenure

LEMMA HeartbeatYields ==
  ASSUME NEW C, NEW nd, Sound(nd, C), Ready(nd), nd.role = "Leader",
         NEW S, Edges(nd.log.entries) \subseteq S
  PROVE  Yields(nd, Heartbeat(nd), S)
<1>1. Ripe(nd) /\ Covered(nd)
  BY ReadyCovered DEF Ready
<1>2. Grows(nd, Heartbeat(nd)) /\ Tenure(nd, Heartbeat(nd), C)
  BY <1>1, HeartbeatGrows, HeartbeatTenure
<1> QED
  BY <1>2, LeadingYields DEF Tenure

-----------------------------------------------------------------------------
(* The invariant. *)

\* The edges of every log that there is, and of the first entries that there may be.
World == UNION {Edges(h) : h \in Holders}
Foundings == {Founding(voters) : voters \in Creations}
Known == World \cup Foundings
KnownTo(t) == {e \in Known : e.entry.term <= t}

\* The node d can no longer be elected in term t; it adds nothing of that term up to index i.
Settled(d, t) == d.current_term > t \/ (d.current_term = t /\ d.role # "Candidate")
Ahead(d, t, i) ==
  /\ Settled(d, t)
  /\ (d.current_term = t /\ d.role = "Leader") => i <= LastIndex(d.log.entries)

\* The terms and indices of what a leader has added, or no leader had to.
Led ==
  {q \in Nat \X Nat :
     \/ q[1] = 0
     \/ \E L \in NodeId : <<q[1], L>> \in elected /\ Ahead(node[L], q[1], q[2])}

EdgesMatch == Distinct(Known)

EdgesLed == \A e \in Known : TermsStep(e) /\ <<e.entry.term, e.index>> \in Led

Idle == \A id \in NodeId : node[id].actions = NoActions

LogsLed ==
  \A id \in NodeId : \A es \in {node[id].log.entries, stored[id].log.entries} :
    /\ <<es.prev.term, 0>> \in Led
    /\ \A t \in Terms(es) : t <= node[id].current_term

LeadersRipe ==
  \A id \in NodeId :
    /\ node[id].role = "Leader" => Ripe(node[id])
    /\ node[id].role # "Follower" => node[id].current_term > 0

PacketsLed ==
  \A p \in net :
    /\ p.msg.type = "AppendEntriesCall"
         => \A e \in Edges(p.msg.entries) : e.entry.term <= p.msg.term
    /\ p.msg.type = "InstallSnapshot" => <<p.msg.position.term, 0>> \in Led

MatchInv == EdgesMatch /\ EdgesLed /\ Idle /\ LogsLed /\ LeadersRipe /\ PacketsLed

-----------------------------------------------------------------------------
(* What it says of a node. *)

LEMMA LastTerm ==
  ASSUME NEW C, NEW es \in Entries(C)
  PROVE  /\ LastPosition(es).term \in Terms(es)
         /\ \/ LastPosition(es).term = es.prev.term
            \/ \E e \in Edges(es) : LastPosition(es).term = e.entry.term
<1>1. es.prev.index \in Nat /\ LastIndex(es) \in Nat /\ es.prev.index <= LastIndex(es)
  BY EntriesFacts
<1>2. LastPosition(es).term = TermAt(es, LastIndex(es))
  BY DEF LastPosition, Pos
<1>3. CASE LastIndex(es) = es.prev.index
  BY <1>2, <1>3 DEF TermAt, Terms
<1>4. CASE LastIndex(es) # es.prev.index
  <2>1. LastIndex(es) \in es.prev.index + 1 .. LastIndex(es)
    BY <1>1, <1>4
  <2>2. Edge(es, LastIndex(es)) \in Edges(es)
    BY <2>1, EdgeIn
  <2>3. Edge(es, LastIndex(es)).entry.term = TermAt(es, LastIndex(es))
    BY <2>1, TermAtEntry DEF Edge
  <2> QED
    BY <1>2, <2>2, <2>3 DEF Terms
<1> QED
  BY <1>3, <1>4

\* The term of a position that a log contains is one that the log names.
LEMMA ContainedTerm ==
  ASSUME NEW C, NEW es \in Entries(C), NEW i \in es.prev.index .. LastIndex(es)
  PROVE  /\ TermAt(es, i) \in Terms(es)
         /\ \/ TermAt(es, i) = es.prev.term
            \/ \E e \in Edges(es) : TermAt(es, i) = e.entry.term
<1>1. es.prev.index \in Nat /\ LastIndex(es) \in Nat
  BY EntriesFacts
<1>3. CASE i = es.prev.index
  BY <1>3 DEF TermAt, Terms
<1>4. CASE i # es.prev.index
  <2>1. i \in es.prev.index + 1 .. LastIndex(es)
    BY <1>1, <1>4
  <2>2. Edge(es, i) \in Edges(es)
    BY <2>1, EdgeIn
  <2>3. Edge(es, i).entry.term = TermAt(es, i)
    BY <2>1, TermAtEntry DEF Edge
  <2> QED
    BY <2>2, <2>3 DEF Terms
<1> QED
  BY <1>3, <1>4

LEMMA KnownHolds ==
  /\ \A id \in NodeId : /\ Edges(node[id].log.entries) \subseteq Known
                        /\ Edges(stored[id].log.entries) \subseteq Known
  /\ \A p \in net : p.msg.type = "AppendEntriesCall" => Edges(p.msg.entries) \subseteq Known
<1>1. \A h \in Holders : Edges(h) \subseteq Known
  BY DEF Known, World
<1> QED
  BY <1>1 DEF Holders

LEMMA LedTyped == \A t, i : <<t, i>> \in Led => t \in Nat /\ i \in Nat
  BY DEF Led

\* A leader for a position is one for the lower ones.
LEMMA LedBelow ==
  ASSUME NEW C, Typed(C), NEW t, NEW i, <<t, i>> \in Led
  PROVE  <<t, 0>> \in Led
<1>1. t \in Nat /\ i \in Nat
  BY LedTyped
<1>2. CASE t = 0
  BY <1>1, <1>2 DEF Led
<1>3. CASE t # 0
  <2>1. PICK L \in NodeId : <<t, L>> \in elected /\ Ahead(node[L], t, i)
    BY <1>3 DEF Led
  <2>2. 0 <= LastIndex(node[L].log.entries)
    BY TypedFacts, SoundLog, EntriesFacts
  <2>3. Ahead(node[L], t, 0)
    BY <2>1, <2>2 DEF Ahead
  <2> QED
    BY <1>1, <2>1, <2>3 DEF Led
<1> QED
  BY <1>2, <1>3

\* The terms that a log names had leaders.
LEMMA TermsLed ==
  ASSUME NEW C, Typed(C), MatchInv, NEW id \in NodeId,
         NEW es \in {node[id].log.entries, stored[id].log.entries},
         NEW i \in es.prev.index .. LastIndex(es)
  PROVE  <<TermAt(es, i), 0>> \in Led /\ TermAt(es, i) <= node[id].current_term
<1>1. es \in Entries(C)
  BY TypedFacts, SoundLog, LogFacts
<1>2. \A e \in Edges(es) : <<e.entry.term, 0>> \in Led
  BY KnownHolds, LedBelow DEF MatchInv, EdgesLed
<1> QED
  BY <1>1, <1>2, ContainedTerm DEF MatchInv, LogsLed

LEMMA NodeReady ==
  ASSUME NEW C, Typed(C), MatchInv, NEW id \in NodeId
  PROVE  Ready(node[id])
<1>1. node[id].actions = NoActions
  BY DEF MatchInv, Idle
<1>2. Carries(node[id], {})
  BY <1>1 DEF Carries, NoActions
<1>3. LastPosition(node[id].log.entries).term <= node[id].current_term
  BY TypedFacts, SoundLog, LastTerm DEF MatchInv, LogsLed
<1> QED
  BY <1>1, <1>2, <1>3 DEF Ready, NoActions, MatchInv, LeadersRipe

-----------------------------------------------------------------------------
(* Calls. *)

\* A call keeps the node from being elected in a term in which it no longer can.
LEMMA OutcomeAhead ==
  ASSUME NEW C, NEW nd, Sound(nd, C), NEW nd2, NEW W, NEW E, NEW H,
         Outcome(nd, nd2, C, W, E, H), NEW t \in Nat, NEW i \in Nat, Ahead(nd, t, i)
  PROVE  Ahead(nd2, t, i)
<1>1. /\ nd.current_term \in Nat /\ nd2.current_term \in Nat
      /\ nd.current_term <= nd2.current_term
  BY DEF Outcome, Evolves, Sound, IsNode, IsRecord
<1>2. CASE nd2.current_term > t
  BY <1>1, <1>2 DEF Ahead, Settled
<1>3. CASE ~(nd2.current_term > t)
  <2>1. nd2.current_term = t /\ nd.current_term = t /\ nd.role # "Candidate"
    BY <1>1, <1>3 DEF Ahead, Settled
  <2>2. ~(nd.current_term < nd2.current_term)
    BY <2>1
  <2>3. nd2.role # "Candidate"
    BY <2>1, <2>2 DEF Outcome, CountsRightly
  <2>4. ASSUME nd2.role = "Leader"
        PROVE  i <= LastIndex(nd2.log.entries)
    <3>1. nd.role = "Leader" /\ Extends(nd.log.entries, nd2.log.entries)
      BY <2>1, <2>2, <2>4 DEF Outcome, LeadsRightly
    <3>2. i <= LastIndex(nd.log.entries) /\ LastIndex(nd.log.entries) <= LastIndex(nd2.log.entries)
      BY <2>1, <3>1 DEF Ahead, Extends
    <3>3. LastIndex(nd.log.entries) \in Nat /\ LastIndex(nd2.log.entries) \in Nat
      BY SoundLog, EntriesFacts DEF Outcome
    <3> QED
      BY <3>2, <3>3
  <2> QED
    BY <2>1, <2>3, <2>4 DEF Ahead, Settled
<1> QED
  BY <1>2, <1>3

LEMMA TurnsAhead ==
  ASSUME NEW C, Typed(C), NEW id \in NodeId, NEW nd, Turns(id, nd, C), NEW t \in Nat,
         NEW i \in Nat, Ahead(node[id], t, i)
  PROVE  Ahead(nd, t, i)
<1>1. PICK W \in SUBSET (node[id].granted_votes \cup Votes(id)) :
        Outcome(node[id], nd, C, W, Spoken("AppendEntriesCall"), Spoken("RequestVoteCall"))
  BY DEF Turns
<1> QED
  BY <1>1, TypedFacts, OutcomeAhead

\* The steps by which a node comes to lead or to stand for election.
LEMMA TurnsRole ==
  ASSUME NEW C, Typed(C), NEW id \in NodeId, NEW nd, Turns(id, nd, C), nd.role # "Follower"
  PROVE  \/ node[id].role # "Follower" /\ nd.current_term = node[id].current_term
         \/ nd.current_term > node[id].current_term
<1>1. PICK W \in SUBSET (node[id].granted_votes \cup Votes(id)) :
        Outcome(node[id], nd, C, W, Spoken("AppendEntriesCall"), Spoken("RequestVoteCall"))
  BY DEF Turns
<1>2. nd.role \in {"Candidate", "Leader"}
  BY <1>1 DEF Outcome, Sound
<1>3. node[id].current_term \in Nat /\ nd.current_term \in Nat
  BY <1>1, TypedFacts DEF Outcome, Sound, IsNode, IsRecord
<1> QED
  BY <1>1, <1>2, <1>3 DEF Outcome, CountsRightly, LeadsRightly

\* A candidate that is elected has no entry of its term: another leader has had to add it.
LEMMA CallFits ==
  ASSUME NEW C, Typed(C), MatchInv, NEW id \in NodeId, NEW nd, elected \subseteq elected',
         nd.role = "Leader" => <<nd.current_term, id>> \in elected', ElectionSafety'
  PROVE  Fits(node[id], nd)
<1> DEFINE t == node[id].current_term
           u == LastPosition(node[id].log.entries).term
<1> SUFFICES ASSUME node[id].role = "Candidate", nd.role = "Leader", nd.current_term = t
             PROVE  u < t
  BY DEF Fits
<1>1. t \in Nat /\ t > 0
  BY TypedFacts DEF IsNode, IsRecord, MatchInv, LeadersRipe
<1>2. node[id].log.entries \in Entries(C)
  BY TypedFacts, SoundLog
<1>3. <<u, 0>> \in Led /\ u <= t
  <2>1. LastIndex(node[id].log.entries)
          \in node[id].log.entries.prev.index .. LastIndex(node[id].log.entries)
    BY <1>2, EntriesFacts
  <2>2. u = TermAt(node[id].log.entries, LastIndex(node[id].log.entries))
    BY DEF LastPosition, Pos
  <2> QED
    BY <2>1, <2>2, TermsLed
<1>4. u # t
  <2> SUFFICES ASSUME u = t PROVE FALSE
    OBVIOUS
  <2>1. PICK L \in NodeId : <<t, L>> \in elected /\ Ahead(node[L], t, 0)
    BY <1>1, <1>3 DEF Led
  <2>2. <<t, L>> \in elected' /\ <<t, id>> \in elected'
    BY <2>1
  <2>3. L = id
    BY <2>2 DEF ElectionSafety
  <2> QED
    BY <1>1, <2>1, <2>3 DEF Ahead, Settled
<1>5. u \in Nat
  BY <1>3, LedTyped
<1> QED
  BY <1>1, <1>3, <1>4, <1>5

\* A message of a later term moves its receiver to the term.
LEMMA HandledTerm ==
  ASSUME NEW C, NEW nd, Sound(nd, C), NEW m, IsMessage(m), m.from # nd.id
  PROVE  m.term <= HandleMessage(nd, m).current_term
<1> DEFINE seen == ObserveTerm(nd, m.term)
<1>1. m.term \in Nat /\ nd.current_term \in Nat
  BY DEF IsMessage, Sound, IsNode, IsRecord
<1>2. m.term <= seen.current_term /\ IsNode(seen)
  <2>1. CASE nd.current_term < m.term
    <3>1. seen = TransitionToFollower(nd, m.term) /\ nd.current_term <= m.term
      BY <1>1, <2>1 DEF ObserveTerm
    <3>2. Demoted(nd, seen, C, m.term)
      BY <1>1, <3>1, TransitionToFollowerDemotes
    <3> HIDE DEF seen
    <3>3. seen.current_term = m.term /\ IsNode(seen)
      BY <3>2 DEF Demoted, Sound
    <3> QED
      BY <1>1, <3>3
  <2>2. CASE ~(nd.current_term < m.term)
    BY <1>1, <2>2 DEF ObserveTerm, Sound
  <2> QED
    BY <2>1, <2>2
<1>3. m.type \in {"RequestVoteCall", "RequestVoteReply", "AppendEntriesCall", "AppendEntriesReply"}
  BY DEF IsMessage
<1>4. HandleMessage(nd, m)
        \in {HandleRequestVoteCall(seen, m), HandleRequestVoteReply(seen, m),
             HandleAppendEntriesCall(seen, m), HandleAppendEntriesReply(seen, m)}
  BY <1>3 DEF HandleMessage, Dispatch
<1> HIDE DEF seen
<1>5. Evolves(seen, HandleMessage(nd, m))
  BY <1>2, <1>4, RequestVoteCallEvolves, RequestVoteReplyEvolves, AppendEntriesCallEvolves,
     AppendEntriesReplyEvolves
<1>6. /\ seen.current_term \in Nat /\ HandleMessage(nd, m).current_term \in Nat
      /\ seen.current_term <= HandleMessage(nd, m).current_term
  BY <1>2, <1>5 DEF Evolves, IsNode, IsRecord
<1> QED
  BY <1>1, <1>2, <1>6

\* Edges of what a call can take entries from.
LEMMA CallsYields ==
  ASSUME NEW C, Typed(C), Covering(C), MatchInv, NEW id \in NodeId, NEW nd, Calls(id, nd),
         Fits(node[id], nd)
  PROVE  Yields(node[id], nd, KnownTo(nd.current_term))
<1> DEFINE old == node[id]
           S == KnownTo(nd.current_term)
<1>1. /\ Sound(old, C)
      /\ old.id = id
      /\ Closed(C)
      /\ Ready(old)
  BY TypedFacts, NodeReady DEF Covering
<1>2. /\ nd.current_term \in Nat
      /\ old.current_term \in Nat
      /\ old.current_term <= nd.current_term
  <2>1. Turns(id, nd, C)
    BY CallsTurns
  <2> QED
    BY <1>1, <2>1, TurnsEvolves DEF Evolves, Sound, IsNode, IsRecord
<1>3. Edges(old.log.entries) \subseteq S
  <2>1. ASSUME NEW e \in Edges(old.log.entries)
        PROVE  e \in Known /\ e.entry.term <= old.current_term /\ e.entry.term \in Nat
    <3>1. e.entry.term \in Terms(old.log.entries)
      BY <2>1 DEF Terms
    <3> QED
      BY <2>1, <3>1, KnownHolds, LedTyped DEF MatchInv, LogsLed, EdgesLed
  <2> QED
    BY <1>2, <2>1 DEF KnownTo
<1> HIDE DEF S
<1>4. ASSUME NEW p \in net, p.to = id, p.msg.type # "InstallSnapshot",
             nd = HandleMessage(old, p.msg)
      PROVE  Yields(old, nd, S)
  <2>1. IsMessage(p.msg) /\ MessageOK(p.msg, C) /\ p.msg.term \in Nat
    BY <1>4 DEF Typed, Durable, PacketsDurable, PacketOK, IsMessage
  <2>2. CASE p.msg.from = id
    <3>1. nd = old
      BY <1>1, <1>4, <2>2 DEF HandleMessage
    <3>2. Holds(old, S)
      BY <1>1, <1>3, ReadyHolds
    <3>3. Yields(old, old, S)
      BY <1>1, <3>2, HoldsYields DEF Ready
    <3> QED
      BY <3>1, <3>3
  <2>3. CASE p.msg.from # id
    <3>1. p.msg.term <= nd.current_term
      BY <1>1, <1>4, <2>1, <2>3, HandledTerm
    <3>2. ASSUME NEW e \in Carried(p.msg)
          PROVE  TermsStep(e) /\ e \in S
      <4>1. p.msg.type = "AppendEntriesCall" /\ e \in Edges(p.msg.entries)
        BY DEF Carried
      <4>2. e \in Known /\ e.entry.term <= p.msg.term /\ e.entry.term \in Nat
        BY <4>1, KnownHolds, LedTyped DEF MatchInv, PacketsLed, EdgesLed
      <4>3. e.entry.term <= nd.current_term
        BY <1>2, <2>1, <3>1, <4>2
      <4> QED
        BY <4>2, <4>3 DEF MatchInv, EdgesLed, KnownTo, S
    <3>3. Carried(p.msg) \subseteq S /\ \A e \in Carried(p.msg) : TermsStep(e)
      BY <3>2
    <3> QED
      BY <1>1, <1>3, <1>4, <2>1, <3>3, HandleMessageYields
  <2> QED
    BY <2>2, <2>3
<1>5. ASSUME NEW voters \in Creations, CanCreate(old, voters), nd = Created(old, voters)
      PROVE  Yields(old, nd, S)
  <2>1. [EmptyConfig EXCEPT !.voters = voters] \in C
    BY DEF Covering
  <2>2. Founding(voters) \in S
    <3>1. Founding(voters) \in Known /\ Founding(voters).entry.term = 0
      BY DEF Known, Foundings, Founding, ConfigEntry
    <3> QED
      BY <1>2, <3>1 DEF S, KnownTo
  <2>3. Yields(old, Created(old, voters), S)
    BY <1>1, <1>3, <1>5, <2>1, <2>2, CreatedYields
  <2> QED
    BY <1>5, <2>3
<1>6. ASSUME old.role = "Leader", NEW e \in Entry(C), e.term = old.current_term, e.kind # "Term",
             nd = Propose(old, e)
      PROVE  Yields(old, nd, S)
  BY <1>1, <1>3, <1>6, ProposeYields
<1>7. LET e == CommandEntry(old.current_term) IN
      e \in Entry(C) /\ e.term = old.current_term /\ e.kind # "Term"
  BY <1>2 DEF CommandEntry, Entry
<1>8. ASSUME NEW c \in ConfigChanges(Config(old)), old.role = "Leader",
             c.voters = Config(old).voters, c.non_voters \cap UniqueVoters(c) = {}
      PROVE  LET e == ConfigEntry(old.current_term, c) IN
             e \in Entry(C) /\ e.term = old.current_term /\ e.kind # "Term"
  <2>1. Config(old) \in C
    BY <1>1, <1>8, ConfigOfLeader
  <2>2. c \in C
    BY <1>8, <2>1 DEF Covering
  <2> QED
    BY <1>2, <2>2 DEF ConfigEntry, Entry
<1>9. ASSUME old.role = "Leader", nd = Heartbeat(old)
      PROVE  Yields(old, nd, S)
  BY <1>1, <1>3, <1>9, HeartbeatYields
<1>10. ASSUME IsVoter(Config(old), id), nd = TransitionToCandidate(old)
       PROVE  Yields(old, nd, S)
  BY <1>1, <1>3, <1>10, StartElectionYields
<1> HIDE DEF old
<1>11. Yields(old, nd, S)
  BY <1>4, <1>5, <1>6, <1>7, <1>8, <1>9, <1>10 DEF Calls, old
<1> QED
  BY <1>11 DEF S, old

-----------------------------------------------------------------------------
(* Storage and links. *)

LEMMA PersistEdges ==
  ASSUME NEW C, NEW d, d.log \in Logs(C), NEW nd, Sound(nd, C), NEW k \in 0 .. 4,
         NEW S, Edges(d.log.entries) \subseteq S,
         \A w \in nd.actions.append_log_entries : Edges(w) \subseteq S
  PROVE  LET es == Persist(d, nd, k).log.entries IN
         es.prev = d.log.entries.prev /\ Edges(es) \subseteq S
<1> DEFINE q == nd.actions
           more == CHOOSE e \in q.append_log_entries : TRUE
           es == AppendSuffix(d.log.entries, more)
<1>1. Persist(d, nd, k).log = IF k >= 3 /\ q.append_log_entries # {}
                              THEN [d.log EXCEPT !.entries = es] ELSE d.log
  BY DEF Persist
<1>2. /\ d.log.entries \in Entries(C)
      /\ d.log = [snapshot_config |-> d.log.snapshot_config, entries |-> d.log.entries]
  BY LogFacts
<1>3. CASE q.append_log_entries # {}
  <2>1. more \in Entries(C) /\ Edges(more) \subseteq S
    BY <1>3 DEF Sound, QueuesOK, Writes
  <2> HIDE DEF more
  <2>2. es.prev = d.log.entries.prev /\ Edges(es) \subseteq S
    <3>1. CASE Contains(d.log.entries, more.prev)
      <4>1. es = AppendUnchecked(d.log.entries, more)
        BY <3>1 DEF AppendSuffix
      <4> HIDE DEF es
      <4>2. /\ es.prev = d.log.entries.prev
            /\ Edges(es) \subseteq Edges(d.log.entries) \cup Edges(more)
        BY <1>2, <2>1, <3>1, <4>1, AppendEdges
      <4> QED
        BY <2>1, <4>2
    <3>2. CASE ~Contains(d.log.entries, more.prev)
      BY <3>2 DEF AppendSuffix
    <3> QED
      BY <3>1, <3>2
  <2> HIDE DEF es
  <2>3. [d.log EXCEPT !.entries = es].entries = es
    BY <1>2
  <2> QED
    BY <1>1, <2>2, <2>3
<1> QED
  BY <1>1, <1>3

LEMMA SlicesEdges ==
  ASSUME NEW C, NEW m, IsMessage(m), MessageOK(m, C), NEW s \in Slices(m),
         s.type = "AppendEntriesCall"
  PROVE  m.type = "AppendEntriesCall" /\ Edges(s.entries) \subseteq Edges(m.entries)
<1>1. CASE s = m
  BY <1>1
<1>2. CASE s # m
  <2>1. /\ m.type = "AppendEntriesCall"
        /\ \E n \in 0 .. Len(m.entries.ents) :
             \E i \in Truncate(m.entries, n).prev.index .. LastIndex(Truncate(m.entries, n)) :
               s = [m EXCEPT !.entries = Since(Truncate(m.entries, n),
                                               Pos(TermAt(Truncate(m.entries, n), i), i))]
    BY <1>2 DEF Slices
  <2>2. PICK n \in 0 .. Len(m.entries.ents) :
          \E i \in Truncate(m.entries, n).prev.index .. LastIndex(Truncate(m.entries, n)) :
            s = [m EXCEPT !.entries = Since(Truncate(m.entries, n),
                                            Pos(TermAt(Truncate(m.entries, n), i), i))]
    BY <2>1
  <2> DEFINE es == Truncate(m.entries, n)
  <2>3. PICK i \in es.prev.index .. LastIndex(es) :
          s = [m EXCEPT !.entries = Since(es, Pos(TermAt(es, i), i))]
    BY <2>2
  <2>4. m.entries \in Entries(C) /\ n \in Int
    BY <2>1 DEF MessageOK
  <2>5. es \in Entries(C) /\ Edges(es) \subseteq Edges(m.entries)
    BY <2>4, TruncateTyped, TruncateEdges
  <2> HIDE DEF es
  <2> DEFINE p == Pos(TermAt(es, i), i)
             s2 == Since(es, p)
  <2>6. p \in Position /\ Contains(es, p)
    BY <2>5, PositionTyped DEF Contains, ContainsIndex, Pos
  <2> HIDE DEF p
  <2>7. Edges(s2) \subseteq Edges(es)
    BY <2>5, <2>6, SinceEdges
  <2>8. s = [m EXCEPT !.entries = s2]
    BY <2>3 DEF p
  <2> HIDE DEF s2
  <2>9. m = [type |-> m.type, from |-> m.from, term |-> m.term,
             commit_index |-> m.commit_index, entries |-> m.entries]
    BY <2>1 DEF IsMessage
  <2>10. s.entries = s2
    BY <2>8, <2>9
  <2> QED
    BY <2>1, <2>5, <2>7, <2>10
<1> QED
  BY <1>1, <1>2

\* What a node sends carries edges that it has queued, or its snapshot.
LEMMA OutboundCarries ==
  ASSUME NEW C, NEW nd, Sound(nd, C), NEW S, Carries(nd, S), NEW p \in Outbound(nd)
  PROVE  /\ p.msg.type = "AppendEntriesCall" => Edges(p.msg.entries) \subseteq S
         /\ p.msg.type = "InstallSnapshot" => p.msg.position = nd.log.entries.prev
<1>1. /\ \A b \in nd.actions.broadcast_message : IsMessage(b) /\ MessageOK(b, C)
      /\ \A d \in DOMAIN nd.actions.send_messages :
           /\ IsMessage(nd.actions.send_messages[d])
           /\ MessageOK(nd.actions.send_messages[d], C)
  BY DEF Sound, QueuesOK, IsNode, OwnMessages, Speaks
<1>2. CASE p \in Transfers(nd)
  BY <1>2 DEF Transfers, SnapshotTransfer
<1>3. ASSUME NEW m, IsMessage(m), MessageOK(m, C), Carried(m) \subseteq S, p.msg \in Slices(m)
      PROVE  /\ p.msg.type = "AppendEntriesCall" => Edges(p.msg.entries) \subseteq S
             /\ p.msg.type # "InstallSnapshot"
  <2>1. p.msg.type # "InstallSnapshot"
    BY <1>3, SlicesTyped DEF IsMessage
  <2> QED
    BY <1>3, <2>1, SlicesEdges DEF Carried
<1>4. CASE p \in Broadcasts(nd)
  <2>1. PICK b \in nd.actions.broadcast_message : p.msg \in Slices(b)
    BY <1>4 DEF Broadcasts
  <2> QED
    BY <1>1, <1>3, <2>1 DEF Carries
<1>5. CASE p \in Sends(nd)
  <2>1. PICK d \in DOMAIN nd.actions.send_messages :
          p.msg \in Slices(nd.actions.send_messages[d])
    BY <1>5 DEF Sends
  <2> QED
    BY <1>1, <1>3, <2>1 DEF Carries
<1> QED
  BY <1>2, <1>4, <1>5 DEF Outbound

-----------------------------------------------------------------------------
(* Steps of one node. *)

\* Where there was a leader there is one still.
LEMMA LedKept ==
  ASSUME NEW id \in NodeId, OthersRest(id), elected \subseteq elected',
         \A t, i \in Nat : Ahead(node[id], t, i) => Ahead(node'[id], t, i)
  PROVE  Led \subseteq Led'
<1> SUFFICES ASSUME NEW q \in Led PROVE q \in Led'
  OBVIOUS
<1>1. q \in Nat \X Nat /\ q[1] \in Nat /\ q[2] \in Nat
  BY DEF Led
<1>2. CASE q[1] = 0
  BY <1>1, <1>2 DEF Led
<1>3. CASE q[1] # 0
  <2>1. PICK L \in NodeId : <<q[1], L>> \in elected /\ Ahead(node[L], q[1], q[2])
    BY <1>3 DEF Led
  <2>2. Ahead(node'[L], q[1], q[2])
    BY <1>1, <2>1 DEF OthersRest
  <2>3. \E K \in NodeId : <<q[1], K>> \in elected' /\ Ahead(node'[K], q[1], q[2])
    BY <2>1, <2>2
  <2> QED
    BY <1>1, <2>3 DEF Led, Ahead, Settled
<1> QED
  BY <1>2, <1>3

\* The edges that a step brings into the world are those of N.
LEMMA KnownStep ==
  ASSUME NEW id \in NodeId, OthersRest(id), NEW N,
         Edges(node'[id].log.entries) \subseteq Known \cup N,
         Edges(stored'[id].log.entries) \subseteq Known \cup N,
         \A p \in net' : \/ p \in net
                         \/ p.msg.type = "AppendEntriesCall"
                              => Edges(p.msg.entries) \subseteq Known \cup N
  PROVE  Known' \subseteq Known \cup N
<1>1. \A i \in NodeId : /\ Edges(node'[i].log.entries) \subseteq Known \cup N
                        /\ Edges(stored'[i].log.entries) \subseteq Known \cup N
  BY KnownHolds DEF OthersRest
<1>2. \A p \in net' : p.msg.type = "AppendEntriesCall"
        => Edges(p.msg.entries) \subseteq Known \cup N
  BY KnownHolds
<1>3. \A h \in Holders' : Edges(h) \subseteq Known \cup N
  BY <1>1, <1>2 DEF Holders
<1>4. World' \subseteq Known \cup N
  BY <1>3 DEF World, Edges, Edge
<1>5. Foundings' = Foundings
  BY DEF Foundings, Founding
<1> QED
  BY <1>4, <1>5 DEF Known

\* What the other nodes' logs say of terms.
LEMMA LogsLedStep ==
  ASSUME LogsLed, NEW id \in NodeId, OthersRest(id), Led \subseteq Led',
         \A es \in {node'[id].log.entries, stored'[id].log.entries} :
           /\ <<es.prev.term, 0>> \in Led'
           /\ \A t \in Terms(es) : t <= node'[id].current_term
  PROVE  LogsLed'
<1> SUFFICES ASSUME NEW i \in NodeId, NEW es \in {node'[i].log.entries, stored'[i].log.entries}
             PROVE  /\ <<es.prev.term, 0>> \in Led'
                    /\ \A t \in Terms(es) : t <= node'[i].current_term
  BY DEF LogsLed, Terms, Edges, Edge
<1>1. CASE i = id
  BY <1>1
<1>2. CASE i # id
  <2>1. node'[i] = node[i] /\ stored'[i] = stored[i]
    BY <1>2 DEF OthersRest
  <2>2. es \in {node[i].log.entries, stored[i].log.entries}
    BY <2>1
  <2>3. <<es.prev.term, 0>> \in Led /\ \A t \in Terms(es) : t <= node[i].current_term
    BY <2>2 DEF LogsLed
  <2> QED
    BY <2>1, <2>3
<1> QED
  BY <1>1, <1>2

LEMMA LeadersRipeStep ==
  ASSUME LeadersRipe, NEW id \in NodeId, OthersRest(id),
         node'[id].role = "Leader" => Ripe(node'[id]),
         node'[id].role # "Follower" => node'[id].current_term > 0
  PROVE  LeadersRipe'
<1>1. \A i \in NodeId : /\ node'[i].role = "Leader" => Ripe(node'[i])
                        /\ node'[i].role # "Follower" => node'[i].current_term > 0
  BY DEF OthersRest, LeadersRipe
<1> QED
  BY <1>1 DEF LeadersRipe, Ripe

LEMMA IdleStep ==
  ASSUME Idle, NEW id \in NodeId, OthersRest(id), node'[id].actions = NoActions
  PROVE  Idle'
  BY DEF OthersRest, Idle

LEMMA PacketsLedStep ==
  ASSUME PacketsLed, Led \subseteq Led',
         \A p \in net' :
           \/ p \in net
           \/ /\ p.msg.type = "AppendEntriesCall"
                   => \A e \in Edges(p.msg.entries) : e.entry.term <= p.msg.term
              /\ p.msg.type = "InstallSnapshot" => <<p.msg.position.term, 0>> \in Led'
  PROVE  PacketsLed'
<1>1. \A p \in net' :
        /\ p.msg.type = "AppendEntriesCall"
             => \A e \in Edges(p.msg.entries) : e.entry.term <= p.msg.term
        /\ p.msg.type = "InstallSnapshot" => <<p.msg.position.term, 0>> \in Led'
  BY DEF PacketsLed
<1> QED
  BY <1>1 DEF PacketsLed, Edges, Edge

\* A step that adds nothing.
LEMMA SameKnown ==
  ASSUME EdgesMatch, EdgesLed, Led \subseteq Led', Known' \subseteq Known
  PROVE  EdgesMatch' /\ EdgesLed'
<1>1. Distinct(Known')
  BY DEF EdgesMatch, Distinct
<1>2. \A e \in Known' : TermsStep(e) /\ <<e.entry.term, e.index>> \in Led'
  BY DEF EdgesLed
<1> QED
  BY <1>1, <1>2 DEF EdgesMatch, EdgesLed, Distinct, TermsStep

\* A restart: the node and its storage keep the stored log, in a term that does not fall.
LEMMA RestartMatches ==
  ASSUME NEW C, Typed(C), MatchInv, NEW id \in NodeId, NEW d, d.log = stored[id].log,
         d.current_term \in Nat, node[id].current_term <= d.current_term, RestartFrom(id, d),
         net' \subseteq net
  PROVE  MatchInv'
<1>1. /\ node' = [node EXCEPT ![id] = Restarted(id, d)]
      /\ stored' = [stored EXCEPT ![id] = d]
      /\ elected' = elected
  BY DEF RestartFrom, Restarted
<1>2. /\ node'[id] = Restarted(id, d)
      /\ stored'[id] = d
      /\ OthersRest(id)
  BY <1>1, TypedFacts DEF OthersRest
<1>3. /\ node'[id].current_term = d.current_term
      /\ node'[id].role = "Follower"
      /\ node'[id].actions = NoActions
      /\ node'[id].log = stored[id].log
      /\ stored'[id].log = stored[id].log
  BY <1>2 DEF Restarted, Restart, SetElectionTimeout, NewNode
<1>4. node[id].current_term \in Nat
  BY TypedFacts DEF IsNode, IsRecord
<1>5. \A t, i \in Nat : Ahead(node[id], t, i) => Ahead(node'[id], t, i)
  BY <1>3, <1>4 DEF Ahead, Settled
<1>6. Led \subseteq Led'
  BY <1>1, <1>2, <1>5, LedKept
<1>7. Known' \subseteq Known
  <2>1. Known' \subseteq Known \cup {}
    BY <1>2, <1>3, KnownHolds, KnownStep
  <2> QED
    BY <2>1
<1>8. LogsLed'
  <2>1. \A es \in {node'[id].log.entries, stored'[id].log.entries} :
          /\ <<es.prev.term, 0>> \in Led
          /\ \A t \in Terms(es) : t <= node[id].current_term
    BY <1>3 DEF MatchInv, LogsLed
  <2>2. \A es \in {node'[id].log.entries, stored'[id].log.entries} :
          \A t \in Terms(es) : t \in Nat
    <3>1. stored[id].log.entries \in Entries(C)
      BY TypedFacts, LogFacts
    <3>2. \A t \in Terms(stored[id].log.entries) : t \in Nat
      BY <3>1, EntriesFacts, EdgesFacts DEF Terms, Position
    <3> QED
      BY <1>3, <3>2
  <2>3. \A es \in {node'[id].log.entries, stored'[id].log.entries} :
          \A t \in Terms(es) : t <= node'[id].current_term
    BY <1>3, <1>4, <2>1, <2>2
  <2> QED
    BY <1>2, <1>6, <2>1, <2>3, LogsLedStep DEF MatchInv
<1>9. LeadersRipe' /\ Idle'
  BY <1>2, <1>3, LeadersRipeStep, IdleStep DEF MatchInv
<1>10. PacketsLed'
  BY <1>6, PacketsLedStep DEF MatchInv
<1>11. EdgesMatch' /\ EdgesLed'
  BY <1>6, <1>7, SameKnown DEF MatchInv
<1> QED
  BY <1>8, <1>9, <1>10, <1>11 DEF MatchInv

\* Rebasing no actions makes none.
LEMMA InstallIdle ==
  ASSUME NEW nd, IsNode(nd), nd.actions = NoActions, NEW p, NEW config
  PROVE  InstallSnapshot(nd, p, config).actions = NoActions
<1> DEFINE q == nd.actions
           appends == {e \in {RebaseEntries(e, p) : e \in q.append_log_entries} : e.ents # <<>>}
           broadcast == {RebaseMessage(m, p) : m \in q.broadcast_message}
           sends == [d \in DOMAIN q.send_messages |-> RebaseMessage(q.send_messages[d], p)]
           nd2 == InstallSnapshot(nd, p, config)
<1>1. appends = {} /\ broadcast = {}
  BY DEF NoActions
<1>2. sends = <<>>
  <2>1. q.send_messages = <<>> /\ DOMAIN q.send_messages = {}
    BY DEF NoActions
  <2>2. sends = [d \in {} |-> RebaseMessage(q.send_messages[d], p)]
    BY <2>1
  <2> QED
    BY <2>2
<1> HIDE DEF appends, broadcast, sends
<1>3. nd2.actions = [q EXCEPT !.append_log_entries = appends, !.broadcast_message = broadcast,
                              !.send_messages = sends]
  BY DEF InstallSnapshot, IsNode, IsRecord, appends, broadcast, sends
<1>4. q.append_log_entries = {} /\ q.broadcast_message = {} /\ q.send_messages = <<>>
  BY DEF NoActions
<1>5. [q EXCEPT !.append_log_entries = q.append_log_entries,
                !.broadcast_message = q.broadcast_message,
                !.send_messages = q.send_messages] = q
  <2>1. IsActions(q)
    BY DEF IsNode
  <2> HIDE DEF q
  <2> QED
    BY <2>1 DEF IsActions
<1> HIDE DEF q, nd2
<1>6. nd2.actions = NoActions
  BY <1>1, <1>2, <1>3, <1>4, <1>5, Zenon DEF q
<1> QED
  BY <1>6 DEF nd2

\* The term of a snapshot's position had a leader.
LEMMA SnappedLed ==
  ASSUME NEW C, Typed(C), MatchInv, NEW id \in NodeId, NEW p, NEW config, Snapped(id, p, config),
         IsValidSnapshot(node[id], p, config)
  PROVE  <<p.term, 0>> \in Led
<1> DEFINE es == node[id].log.entries
           i == node[id].commit_index
<1>1. CASE p = Pos(TermAt(es, i), i)
  <2>1. p.index = i /\ p.term = TermAt(es, i)
    BY <1>1 DEF Pos
  <2>2. Contains(es, p)
    <3>1. i \in Nat
      BY TypedFacts DEF Sound
    <3>2. ~(i < p.index)
      BY <2>1, <3>1
    <3> QED
      BY <3>2 DEF IsValidSnapshot
  <2>3. i \in es.prev.index .. LastIndex(es)
    BY <2>1, <2>2 DEF Contains, ContainsIndex
  <2> QED
    BY <2>1, <2>3, TermsLed
<1>2. CASE \E q \in net : q.msg.type = "InstallSnapshot" /\ q.msg.position = p
  BY <1>2 DEF MatchInv, PacketsLed
<1> QED
  BY <1>1, <1>2 DEF Snapped

\* The terms of a log after a snapshot are its own or the snapshot's.
LEMMA InstalledTerms ==
  ASSUME NEW C, NEW log \in Logs(C), NEW p \in Position, NEW config
  PROVE  LET es == InstallInLog(log, p, config).entries IN
         es.prev = p /\ Terms(es) \subseteq Terms(log.entries) \cup {p.term}
<1> DEFINE es == InstallInLog(log, p, config).entries
<1>1. es.prev = p
  <2>1. log.entries \in Entries(C)
    BY LogFacts
  <2>2. CASE Contains(log.entries, p)
    <3>1. es = Since(log.entries, p)
      BY <2>2 DEF InstallInLog
    <3> QED
      BY <2>1, <2>2, <3>1, SinceTyped DEF Contains
  <2>3. CASE ~Contains(log.entries, p)
    BY <2>3 DEF InstallInLog, NewEntries
  <2> QED
    BY <2>2, <2>3
<1>2. Edges(es) \subseteq Edges(log.entries)
  BY InstallEdges
<1> HIDE DEF es
<1>3. Terms(es) \subseteq Terms(log.entries) \cup {p.term}
  BY <1>1, <1>2 DEF Terms
<1> QED
  BY <1>1, <1>3 DEF es

LEMMA SnapshotMatches ==
  ASSUME NEW C, Typed(C), MatchInv, NEW id \in NodeId, SnapshotStep(id)
  PROVE  MatchInv'
<1>1. PICK p, config : /\ Snapped(id, p, config)
                       /\ IsValidSnapshot(node[id], p, config)
                       /\ InstallStoredSnapshot(node[id], p, config)
                       /\ net' \subseteq net
  BY DEF SnapshotStep
<1> DEFINE old == node[id]
           nd == InstallSnapshot(old, p, config)
           l == InstallInLog(stored[id].log, p, config)
           d == [stored[id] EXCEPT !.log = l]
<1>2. IsSnapshot(p, config, C) /\ p \in Position /\ p.term \in Nat
  BY <1>1, SnappedTyped DEF IsSnapshot, Position
<1>3. /\ Sound(old, C)
      /\ old.id = id
      /\ old.current_term \in Nat
      /\ old.log \in Logs(C)
      /\ stored[id].log \in Logs(C)
      /\ stored[id] = [current_term |-> stored[id].current_term,
                       voted_for |-> stored[id].voted_for, log |-> stored[id].log]
  BY TypedFacts, SoundLog DEF Backs, IsDisk, Sound, IsNode, IsRecord
<1>4. nd.log = InstallInLog(old.log, p, config)
  BY <1>3 DEF InstallSnapshot, Sound, IsNode, IsRecord
<1>5. Installed(old, nd, C)
  BY <1>1, <1>2, <1>3, InstallSnapshotInstalls
<1>6. nd.actions = NoActions
  BY <1>3, InstallIdle DEF MatchInv, Idle, Sound
<1>7. /\ node' = [node EXCEPT ![id] = nd]
      /\ stored' = [stored EXCEPT ![id] = d]
      /\ Observe(nd)
  BY <1>1, <1>3 DEF InstallStoredSnapshot
<1>8. d.log = l
  BY <1>3
<1> HIDE DEF nd, l, d
<1>9. /\ node'[id] = nd
      /\ stored'[id] = d
      /\ OthersRest(id)
  BY <1>7, TypedFacts DEF OthersRest
<1>10. nd.current_term = old.current_term /\ nd.role = old.role
  BY <1>5 DEF Installed
<1>11. elected \subseteq elected'
  BY <1>7 DEF Observe
<1>12. Turns(id, nd, C)
  <2> DEFINE W == old.granted_votes
  <2>1. Outcome(old, nd, C, W, Spoken("AppendEntriesCall"), Spoken("RequestVoteCall"))
    BY <1>3, <1>5, InstalledOutcome
  <2> QED
    BY <2>1 DEF Turns
<1>13. Led \subseteq Led'
  <2>1. \A t, i \in Nat : Ahead(node[id], t, i) => Ahead(node'[id], t, i)
    BY <1>9, <1>12, TurnsAhead
  <2> QED
    BY <1>9, <1>11, <2>1, LedKept
<1>14. /\ Edges(nd.log.entries) \subseteq Edges(old.log.entries)
       /\ Edges(d.log.entries) \subseteq Edges(stored[id].log.entries)
  BY <1>2, <1>3, <1>4, <1>8, InstallEdges DEF l
<1>15. Known' \subseteq Known
  <2>1. /\ Edges(node'[id].log.entries) \subseteq Known \cup {}
        /\ Edges(stored'[id].log.entries) \subseteq Known \cup {}
    BY <1>9, <1>14, KnownHolds
  <2>2. Known' \subseteq Known \cup {}
    BY <1>1, <1>9, <2>1, KnownStep
  <2> QED
    BY <2>2
<1>16. LogsLed'
  <2>1. /\ nd.log.entries.prev = p
        /\ Terms(nd.log.entries) \subseteq Terms(old.log.entries) \cup {p.term}
        /\ d.log.entries.prev = p
        /\ Terms(d.log.entries) \subseteq Terms(stored[id].log.entries) \cup {p.term}
    <3>1. /\ nd.log.entries.prev = p
          /\ Terms(nd.log.entries) \subseteq Terms(old.log.entries) \cup {p.term}
      <4>1. /\ InstallInLog(old.log, p, config).entries.prev = p
            /\ Terms(InstallInLog(old.log, p, config).entries)
                 \subseteq Terms(old.log.entries) \cup {p.term}
        BY <1>2, <1>3, InstalledTerms
      <4> QED
        BY <1>4, <4>1
    <3>2. /\ l.entries.prev = p
          /\ Terms(l.entries) \subseteq Terms(stored[id].log.entries) \cup {p.term}
      BY <1>2, <1>3, InstalledTerms DEF l
    <3> QED
      BY <1>8, <3>1, <3>2
  <2>2. <<p.term, 0>> \in Led
    BY <1>1, SnappedLed
  <2>3. p.term <= old.current_term
    BY <1>1 DEF IsValidSnapshot
  <2>4. \A t \in Terms(old.log.entries) \cup Terms(stored[id].log.entries) : t <= old.current_term
    BY DEF MatchInv, LogsLed
  <2>5. \A es \in {node'[id].log.entries, stored'[id].log.entries} :
          /\ <<es.prev.term, 0>> \in Led'
          /\ \A t \in Terms(es) : t <= node'[id].current_term
    BY <1>9, <1>10, <1>13, <2>1, <2>2, <2>3, <2>4
  <2> QED
    BY <1>9, <1>13, <2>5, LogsLedStep DEF MatchInv
<1>17. LeadersRipe'
  <2>1. nd.role = "Leader" => Ripe(nd)
    <3> SUFFICES ASSUME nd.role = "Leader" PROVE Ripe(nd)
      OBVIOUS
    <3>1. Contains(old.log.entries, p)
      BY <1>1, <1>10 DEF IsValidSnapshot
    <3>2. LastPosition(nd.log.entries) = LastPosition(old.log.entries)
      BY <1>2, <1>3, <1>4, <3>1, InstallEdges
    <3> QED
      BY <1>10, <3>2 DEF MatchInv, LeadersRipe, Ripe
  <2>2. nd.role # "Follower" => nd.current_term > 0
    BY <1>10 DEF MatchInv, LeadersRipe
  <2> QED
    BY <1>9, <2>1, <2>2, LeadersRipeStep DEF MatchInv
<1>18. Idle'
  BY <1>6, <1>9, IdleStep DEF MatchInv
<1>19. PacketsLed'
  BY <1>1, <1>13, PacketsLedStep DEF MatchInv
<1>20. EdgesMatch' /\ EdgesLed'
  BY <1>13, <1>15, SameKnown DEF MatchInv
<1> QED
  BY <1>16, <1>17, <1>18, <1>19, <1>20 DEF MatchInv

\* A step that leaves nodes and storage alone and sends nothing.
LEMMA RestMatches ==
  ASSUME MatchInv, Rests
  PROVE  MatchInv'
<1>1. node' = node /\ stored' = stored /\ elected' = elected /\ net' \subseteq net
  BY DEF Rests
<1>2. Led' = Led
  BY <1>1 DEF Led, Ahead, Settled
<1>3. Known' \subseteq Known
  <2>1. Holders' \subseteq Holders
    BY <1>1 DEF Holders
  <2>2. World' \subseteq World
    BY <2>1 DEF World, Edges, Edge
  <2>3. Foundings' = Foundings
    BY DEF Foundings, Founding
  <2> QED
    BY <2>2, <2>3 DEF Known
<1>4. EdgesMatch' /\ EdgesLed'
  BY <1>2, <1>3, SameKnown DEF MatchInv
<1>5. PacketsLed'
  BY <1>1, <1>2, PacketsLedStep DEF MatchInv
<1>6. LogsLed'
  BY <1>1, <1>2 DEF MatchInv, LogsLed, Terms, Edges, Edge
<1>7. Idle' /\ LeadersRipe'
  BY <1>1 DEF MatchInv, Idle, LeadersRipe, Ripe
<1> QED
  BY <1>4, <1>5, <1>6, <1>7 DEF MatchInv

\* A leader's new entries are at indices at which its term has had none.
LEMMA NewApart ==
  ASSUME NEW C, Typed(C), MatchInv, NEW id \in NodeId, NEW nd, Turns(id, nd, C),
         elected \subseteq elected', nd.role = "Leader" => <<nd.current_term, id>> \in elected',
         ElectionSafety', NEW e, IsNew(node[id], nd, e), NEW f \in Known
  PROVE  ~(e.index = f.index /\ e.entry.term = f.entry.term)
<1> DEFINE t == nd.current_term
           old == node[id]
<1> SUFFICES ASSUME e.index = f.index, f.entry.term = t PROVE FALSE
  BY DEF IsNew
<1>1. nd.role = "Leader" /\ e.index > LastIndex(old.log.entries)
  BY DEF IsNew
<1>2. /\ t \in Nat /\ old.current_term \in Nat /\ old.current_term <= t
      /\ old.role \in {"Follower", "Candidate", "Leader"}
      /\ LastIndex(old.log.entries) \in Nat
  <2>1. Sound(old, C) /\ Sound(nd, C) /\ old.current_term <= t
    BY TypedFacts, TurnsEvolves DEF Evolves
  <2>2. LastIndex(old.log.entries) \in Nat
    BY <2>1, SoundLog, EntriesFacts
  <2> QED
    BY <2>1, <2>2 DEF Sound, IsNode, IsRecord
<1>3. \/ old.role # "Follower" /\ t = old.current_term
      \/ t > old.current_term
  BY <1>1, TurnsRole
<1>4. t > 0
  BY <1>2, <1>3 DEF MatchInv, LeadersRipe
<1>5. <<t, f.index>> \in Led /\ f.index \in Nat
  BY LedTyped DEF MatchInv, EdgesLed
<1>6. PICK L \in NodeId : <<t, L>> \in elected /\ Ahead(node[L], t, f.index)
  <2> DEFINE q == <<t, f.index>>
  <2>1. \/ q[1] = 0
        \/ \E L \in NodeId : <<q[1], L>> \in elected /\ Ahead(node[L], q[1], q[2])
    BY <1>5 DEF Led
  <2>2. q[1] = t /\ q[2] = f.index /\ t # 0
    BY <1>2, <1>4
  <2> HIDE DEF q, t
  <2> QED
    BY <2>1, <2>2
<1>7. L = id
  <2>1. <<t, L>> \in elected' /\ <<t, id>> \in elected'
    BY <1>1, <1>6
  <2> QED
    BY <2>1 DEF ElectionSafety
<1>8. Ahead(old, t, f.index)
  BY <1>6, <1>7
<1>9. t = old.current_term /\ old.role = "Leader"
  BY <1>2, <1>3, <1>8 DEF Ahead, Settled
<1>10. f.index <= LastIndex(old.log.entries)
  BY <1>8, <1>9 DEF Ahead
<1> QED
  BY <1>1, <1>2, <1>5, <1>10

\* What the actions of a call leave in storage and give to the links.
LEMMA CallEdges ==
  ASSUME NEW C, Typed(C), MatchInv, NEW id \in NodeId, NEW nd, Turns(id, nd, C),
         NEW S, Yields(node[id], nd, S), Edges(stored[id].log.entries) \subseteq S
  PROVE  LET T == S \cup Edges(nd.log.entries) IN
         /\ Edges(Persist(stored[id], nd, 4).log.entries) \subseteq T
         /\ Persist(stored[id], nd, 4).log.entries.prev = stored[id].log.entries.prev
         /\ \A p \in Outbound(nd) :
              /\ p.msg.type = "AppendEntriesCall"
                   => p.msg.term = nd.current_term /\ Edges(p.msg.entries) \subseteq T
              /\ p.msg.type = "InstallSnapshot" => p.msg.position = nd.log.entries.prev
<1> DEFINE T == S \cup Edges(nd.log.entries)
<1>1. Sound(nd, C) /\ stored[id].log \in Logs(C)
  BY TypedFacts, TurnsEvolves
<1>2. /\ \A w \in nd.actions.append_log_entries : Edges(w) \subseteq T
      /\ Edges(stored[id].log.entries) \subseteq T
      /\ Carries(nd, T)
  BY DEF Yields, Carries
<1>3. 4 \in 0 .. 4
  OBVIOUS
<1> HIDE DEF T
<1>4. /\ Edges(Persist(stored[id], nd, 4).log.entries) \subseteq T
      /\ Persist(stored[id], nd, 4).log.entries.prev = stored[id].log.entries.prev
  BY <1>1, <1>2, <1>3, PersistEdges
<1>5. ASSUME NEW p \in Outbound(nd), p.msg.type = "AppendEntriesCall"
      PROVE  p.msg.term = nd.current_term
  <2>1. Tells(p.msg, "AppendEntriesCall", p.msg.term) /\ "AppendEntriesCall" \in Binding
    BY <1>5 DEF Tells, Binding
  <2>2. Said(nd.actions, "AppendEntriesCall", p.msg.term, p.to)
    BY <1>1, <2>1, OutboundTyped
  <2>3. PICK W \in SUBSET (node[id].granted_votes \cup Votes(id)) :
          Outcome(node[id], nd, C, W, Spoken("AppendEntriesCall"), Spoken("RequestVoteCall"))
    BY DEF Turns
  <2>4. ~Said(node[id].actions, "AppendEntriesCall", p.msg.term, p.to)
    BY IdleSaysNothing DEF MatchInv, Idle
  <2> QED
    BY <2>1, <2>2, <2>3, <2>4 DEF Outcome, SpeaksRightly
<1>6. \A p \in Outbound(nd) :
        /\ p.msg.type = "AppendEntriesCall" => Edges(p.msg.entries) \subseteq T
        /\ p.msg.type = "InstallSnapshot" => p.msg.position = nd.log.entries.prev
  BY <1>1, <1>2, OutboundCarries
<1> QED
  BY <1>4, <1>5, <1>6 DEF T

\* A call whose actions are executed.
LEMMA CallMatches ==
  ASSUME NEW C, Typed(C), Covering(C), MatchInv, NEW id \in NodeId, NEW nd, Calls(id, nd),
         NEW armed, NEW rest, rest \subseteq net, ExecuteUpTo(nd, 4, armed, rest), ElectionSafety'
  PROVE  MatchInv'
<1> DEFINE old == node[id]
           d == Persist(stored[id], nd, 4)
           nd2 == Executed(nd, 4)
           es == nd.log.entries
           S == KnownTo(nd.current_term)
           N == {e \in Edges(es) : IsNew(old, nd, e)}
           T == {e \in Known \cup N : e.entry.term <= nd.current_term}
<1>1. Turns(id, nd, C)
  BY CallsTurns
<1>2. /\ Sound(nd, C)
      /\ nd.id = id
      /\ es \in Entries(C)
      /\ nd.current_term \in Nat
      /\ old.current_term \in Nat
      /\ old.current_term <= nd.current_term
  <2>1. Sound(nd, C) /\ nd.id = id /\ Sound(old, C) /\ old.current_term <= nd.current_term
    BY <1>1, TypedFacts, TurnsEvolves DEF Evolves
  <2> QED
    BY <2>1, SoundLog DEF Sound, IsNode, IsRecord
<1>3. nd2.log = nd.log /\ SameState(nd, nd2) /\ nd2.actions = NoActions
  BY <1>2, ExecutedSound DEF Executed, SameState, Sound, IsNode, IsRecord
<1>4. /\ node' = [node EXCEPT ![id] = nd2]
      /\ stored' = [stored EXCEPT ![id] = d]
      /\ \A p \in net' : p \in net \/ p \in Outbound(nd)
      /\ Observe(nd2)
  BY <1>2 DEF ExecuteUpTo
<1> HIDE DEF nd2, d
<1>5. /\ node'[id] = nd2
      /\ stored'[id] = d
      /\ OthersRest(id)
  BY <1>4, TypedFacts DEF OthersRest
<1>6. /\ elected \subseteq elected'
      /\ nd.role = "Leader" => <<nd.current_term, id>> \in elected'
  BY <1>2, <1>3, <1>4 DEF Observe, SameState
<1>7. Yields(old, nd, S)
  <2>1. Fits(old, nd)
    BY <1>6, CallFits
  <2> QED
    BY <2>1, CallsYields
<1>8. Led \subseteq Led'
  <2>1. ASSUME NEW t \in Nat, NEW i \in Nat, Ahead(old, t, i) PROVE Ahead(nd2, t, i)
    <3>1. Ahead(nd, t, i)
      BY <1>1, <2>1, TurnsAhead
    <3> QED
      BY <1>3, <3>1 DEF Ahead, Settled, SameState
  <2>2. \A t, i \in Nat : Ahead(node[id], t, i) => Ahead(node'[id], t, i)
    BY <1>5, <2>1
  <2> QED
    BY <1>5, <1>6, <2>2, LedKept
<1>9. /\ \A e \in Known : e.entry.term \in Nat
      /\ \A e \in N : e \in Edges(es) /\ IsNew(old, nd, e) /\ e.entry.term = nd.current_term
  BY LedTyped DEF MatchInv, EdgesLed, IsNew
<1>10. Edges(es) \subseteq T
  <2> SUFFICES ASSUME NEW e \in Edges(es) PROVE e \in T
    OBVIOUS
  <2>1. CASE e \in S
    BY <2>1 DEF KnownTo
  <2>2. CASE IsNew(old, nd, e)
    BY <1>2, <2>2 DEF IsNew
  <2> QED
    BY <1>7, <2>1, <2>2 DEF Yields
<1>11. Edges(stored[id].log.entries) \subseteq S
  <2> SUFFICES ASSUME NEW e \in Edges(stored[id].log.entries) PROVE e \in S
    OBVIOUS
  <2>1. e.entry.term \in Terms(stored[id].log.entries)
    BY DEF Terms
  <2>2. e \in Known /\ e.entry.term <= old.current_term
    BY <2>1, KnownHolds DEF MatchInv, LogsLed
  <2>3. e.entry.term <= nd.current_term
    BY <1>2, <1>9, <2>2
  <2> QED
    BY <2>2, <2>3 DEF KnownTo
<1>12. S \subseteq T
  BY DEF KnownTo
<1>13. /\ Edges(d.log.entries) \subseteq T
       /\ d.log.entries.prev = stored[id].log.entries.prev
       /\ \A p \in Outbound(nd) :
            /\ p.msg.type = "AppendEntriesCall"
                 => p.msg.term = nd.current_term /\ Edges(p.msg.entries) \subseteq T
            /\ p.msg.type = "InstallSnapshot" => p.msg.position = es.prev
  <2> HIDE DEF S, T
  <2>1. S \cup Edges(es) \subseteq T
    BY <1>10, <1>12
  <2>2. /\ Edges(d.log.entries) \subseteq S \cup Edges(es)
        /\ d.log.entries.prev = stored[id].log.entries.prev
        /\ \A p \in Outbound(nd) :
             /\ p.msg.type = "AppendEntriesCall"
                  => p.msg.term = nd.current_term /\ Edges(p.msg.entries) \subseteq S \cup Edges(es)
             /\ p.msg.type = "InstallSnapshot" => p.msg.position = es.prev
    BY <1>1, <1>7, <1>11, CallEdges DEF d
  <2> QED
    BY <2>1, <2>2
<1>14. T \subseteq Known \cup N /\ \A e \in T : e.entry.term <= nd.current_term
  OBVIOUS
<1> HIDE DEF T, S, N
<1>15. Known' \subseteq Known \cup N
  <2>1. \A p \in net' : \/ p \in net
                        \/ p.msg.type = "AppendEntriesCall"
                             => Edges(p.msg.entries) \subseteq Known \cup N
    BY <1>4, <1>13, <1>14
  <2>2. /\ Edges(node'[id].log.entries) \subseteq Known \cup N
        /\ Edges(stored'[id].log.entries) \subseteq Known \cup N
    BY <1>3, <1>5, <1>10, <1>13, <1>14
  <2> QED
    BY <1>5, <2>1, <2>2, KnownStep
<1>16. EdgesLed'
  <2>1. ASSUME NEW e \in N
        PROVE  TermsStep(e) /\ <<e.entry.term, e.index>> \in Led'
    <3>1. /\ e.index \in Nat /\ e.index <= LastIndex(es)
          /\ TermsStep(e) /\ nd.role = "Leader" /\ e.entry.term = nd.current_term
      BY <1>2, <1>9, EdgesFacts DEF IsNew
    <3>2. Ahead(nd2, e.entry.term, e.index)
      BY <1>3, <3>1 DEF Ahead, Settled, SameState
    <3>3. \E L \in NodeId : /\ <<e.entry.term, L>> \in elected'
                           /\ Ahead(node'[L], e.entry.term, e.index)
      BY <1>5, <1>6, <3>1, <3>2
    <3> QED
      BY <1>2, <3>1, <3>3 DEF Led, Ahead, Settled
  <2>2. \A e \in Known' : TermsStep(e) /\ <<e.entry.term, e.index>> \in Led'
    BY <1>8, <1>15, <2>1 DEF MatchInv, EdgesLed
  <2> QED
    BY <2>2 DEF EdgesLed, TermsStep
<1>17. EdgesMatch'
  <2>1. ASSUME NEW e \in N, NEW f \in Known
        PROVE  ~(e.index = f.index /\ e.entry.term = f.entry.term)
    BY <1>1, <1>6, <1>9, <2>1, NewApart
  <2>2. ASSUME NEW e \in N, NEW f \in N, e.index = f.index
        PROVE  e = f
    BY <1>2, <1>9, <2>2, EdgesFacts
  <2>3. Distinct(Known \cup N)
    BY <2>1, <2>2 DEF MatchInv, EdgesMatch, Distinct
  <2>4. Distinct(Known')
    BY <1>15, <2>3 DEF Distinct
  <2> QED
    BY <2>4 DEF EdgesMatch, Distinct
<1>18. LogsLed'
  <2>1. /\ <<es.prev.term, 0>> \in Led /\ es.prev.term <= old.current_term
        /\ <<d.log.entries.prev.term, 0>> \in Led /\ d.log.entries.prev.term <= old.current_term
    BY <1>7, <1>13 DEF MatchInv, LogsLed, Terms, Yields
  <2>2. es.prev.term <= nd.current_term /\ d.log.entries.prev.term <= nd.current_term
    BY <1>2, <2>1, LedTyped
  <2>3. \A t \in Terms(es) \cup Terms(d.log.entries) : t <= nd.current_term
    BY <1>10, <1>13, <1>14, <2>2 DEF Terms
  <2>4. \A x \in {node'[id].log.entries, stored'[id].log.entries} :
          /\ <<x.prev.term, 0>> \in Led'
          /\ \A t \in Terms(x) : t <= node'[id].current_term
    BY <1>3, <1>5, <1>8, <2>1, <2>3 DEF SameState
  <2> QED
    BY <1>5, <1>8, <2>4, LogsLedStep DEF MatchInv
<1>19. LeadersRipe'
  <2>1. nd2.role = "Leader" => Ripe(nd2)
    BY <1>3, <1>7 DEF Yields, Ripe, SameState
  <2>2. nd2.role # "Follower" => nd2.current_term > 0
    <3> SUFFICES ASSUME nd.role # "Follower" PROVE nd.current_term > 0
      BY <1>3 DEF SameState
    <3>1. \/ old.role # "Follower" /\ nd.current_term = old.current_term
          \/ nd.current_term > old.current_term
      BY <1>1, TurnsRole
    <3> QED
      BY <1>2, <3>1 DEF MatchInv, LeadersRipe
  <2> QED
    BY <1>5, <2>1, <2>2, LeadersRipeStep DEF MatchInv
<1>20. Idle'
  BY <1>3, <1>5, IdleStep DEF MatchInv
<1>21. PacketsLed'
  <2>1. <<es.prev.term, 0>> \in Led'
    BY <1>7, <1>8 DEF MatchInv, LogsLed, Yields
  <2>2. \A p \in net' :
          \/ p \in net
          \/ /\ p.msg.type = "AppendEntriesCall"
                  => \A e \in Edges(p.msg.entries) : e.entry.term <= p.msg.term
             /\ p.msg.type = "InstallSnapshot" => <<p.msg.position.term, 0>> \in Led'
    BY <1>4, <1>13, <1>14, <2>1
  <2> QED
    BY <1>8, <2>2, PacketsLedStep DEF MatchInv
<1> QED
  BY <1>16, <1>17, <1>18, <1>19, <1>20, <1>21 DEF MatchInv

\* A call, whatever becomes of its actions.
LEMMA CallStepMatches ==
  ASSUME NEW C, Typed(C), Covering(C), Batching = "none", MatchInv, NEW id \in NodeId,
         CallStep(id), ElectionSafety'
  PROVE  MatchInv'
<1>1. PICK nd, armed, rest : Calls(id, nd) /\ rest \subseteq net /\ Return(nd, armed, rest)
  BY DEF CallStep
<1>2. Turns(id, nd, C) /\ nd.id = id
  BY <1>1, CallsTurns, TypedFacts, TurnsEvolves DEF Evolves
<1>3. CASE ExecuteUpTo(nd, 4, armed, rest)
  BY <1>1, <1>3, CallMatches
<1>4. CASE \E k \in 0 .. 2 : RestartFrom(nd.id, Persist(stored[nd.id], nd, k)) /\ net' = rest
  <2>1. PICK k \in 0 .. 2 : RestartFrom(nd.id, Persist(stored[nd.id], nd, k)) /\ net' = rest
    BY <1>4
  <2> DEFINE d == Persist(stored[id], nd, k)
  <2>2. RestartFrom(id, d) /\ net' \subseteq net
    BY <1>1, <1>2, <2>1
  <2>3. d.log = stored[id].log
    <3>1. ~(k >= 3)
      OBVIOUS
    <3> QED
      BY <3>1 DEF Persist
  <2>4. Settles(stored[id], nd, d) /\ d.current_term \in Nat
    <3>1. k \in 0 .. 4
      OBVIOUS
    <3> QED
      BY <1>2, <3>1, PersistForm
  <2> HIDE DEF d
  <2>5. node[id].current_term <= d.current_term
    <3>1. /\ stored[id].current_term = node[id].current_term
          /\ node[id].current_term \in Nat
          /\ node[id].current_term <= nd.current_term
      BY <1>2, TypedFacts, TurnsEvolves
      DEF MatchInv, Idle, Backs, NoActions, IsNode, IsRecord, Evolves
    <3> QED
      BY <2>4, <3>1 DEF Settles
  <2> QED
    BY <2>2, <2>3, <2>4, <2>5, RestartMatches
<1> QED
  BY <1>1, <1>3, <1>4 DEF Return

LEMMA MatchStep ==
  ASSUME NEW C, Typed(C), Covering(C), Batching = "none", MatchInv, ElectionSafety', [Next]_vars
  PROVE  MatchInv'
<1>1. ASSUME NEW id \in NodeId, CallStep(id) PROVE MatchInv'
  BY <1>1, CallStepMatches
<1>2. ASSUME NEW id \in NodeId, SnapshotStep(id) PROVE MatchInv'
  BY <1>2, SnapshotMatches
<1>3. ASSUME NEW id \in NodeId, Execute(id) PROVE FALSE
  BY <1>3 DEF Execute, MatchInv, Idle
<1>4. ASSUME NEW id \in NodeId, Crash(id) PROVE MatchInv'
  <2>1. RestartFrom(id, stored[id]) /\ net' \subseteq net
    BY <1>4 DEF Crash
  <2>2. stored[id].current_term = node[id].current_term /\ stored[id].current_term \in Nat
    BY TypedFacts DEF MatchInv, Idle, Backs, NoActions, IsNode, IsRecord
  <2>3. node[id].current_term <= stored[id].current_term
    BY <2>2
  <2> QED
    BY <2>1, <2>2, <2>3, RestartMatches
<1>5. ASSUME Rests PROVE MatchInv'
  BY <1>5, RestMatches
<1>6. UNCHANGED vars => Rests
  BY DEF vars, Rests
<1>7. Next => MatchInv'
  BY <1>1, <1>2, <1>3, <1>4, <1>5, NextCases
<1> QED
  BY <1>5, <1>6, <1>7

\* At most one configuration founds the cluster, and the logs of the start agree with it: "a
\* node belongs to one cluster" (create_cluster).
OneFounding == Distinct(Foundings \cup BootEdges)

LEMMA InitMatches ==
  ASSUME OneFounding, Init
  PROVE  MatchInv
<1>1. /\ \A id \in NodeId : node[id] = Restarted(id, Boot[id]) /\ stored[id] = Boot[id]
      /\ net = {}
      /\ elected = Past
  BY DEF Init, Restarted
<1>2. \A id \in NodeId :
        /\ node[id].log = Boot[id].log
        /\ node[id].current_term = Boot[id].current_term
        /\ node[id].role = "Follower"
        /\ node[id].actions = NoActions
        /\ Boot[id].current_term \in Nat
        /\ Boot[id].log.entries \in Entries(Configs)
  <2> SUFFICES ASSUME NEW id \in NodeId
               PROVE  /\ node[id].log = Boot[id].log
                      /\ node[id].current_term = Boot[id].current_term
                      /\ node[id].role = "Follower"
                      /\ node[id].actions = NoActions
                      /\ Boot[id].current_term \in Nat
                      /\ Boot[id].log.entries \in Entries(Configs)
    OBVIOUS
  <2>1. Boot[id].current_term \in Nat /\ Boot[id].log \in Logs(Configs)
    BY BootAssumption
  <2>2. Boot[id].log.entries \in Entries(Configs)
    BY <2>1, LogFacts
  <2>3. Restarted(id, Boot[id]).log = Boot[id].log
    BY DEF Restarted, Restart, SetElectionTimeout, NewNode
  <2>4. /\ Restarted(id, Boot[id]).current_term = Boot[id].current_term
        /\ Restarted(id, Boot[id]).role = "Follower"
        /\ Restarted(id, Boot[id]).actions = NoActions
    BY <2>1, RestartFacts
  <2> QED
    BY <1>1, <2>1, <2>2, <2>3, <2>4
<1>3. Known \subseteq BootEdges \cup Foundings
  BY <1>1, <1>2 DEF Known, World, Holders, BootEdges
<1>4. ASSUME NEW id \in NodeId, NEW t \in Terms(Boot[id].log.entries), t \in Nat, NEW i \in Nat
      PROVE  <<t, i>> \in Led
  <2>1. CASE t = 0
    BY <1>4, <2>1 DEF Led
  <2>2. CASE t # 0
    <3>1. PICK l \in Past : l[1] = t
      BY <2>2, PastAssumption
    <3>2. l = <<t, l[2]>> /\ l[2] \in NodeId /\ t <= Boot[l[2]].current_term
      BY <3>1, PastAssumption
    <3>3. Ahead(node[l[2]], t, i)
      BY <1>2, <1>4, <3>2 DEF Ahead, Settled
    <3> QED
      BY <1>1, <1>4, <3>2, <3>3 DEF Led
  <2> QED
    BY <2>1, <2>2
<1>5. EdgesMatch
  BY <1>3 DEF EdgesMatch, OneFounding, Distinct
<1>6. ASSUME NEW e \in Known
      PROVE  TermsStep(e) /\ <<e.entry.term, e.index>> \in Led
  <2>1. CASE e \in Foundings
    <3>1. /\ e.entry.term = 0 /\ e.index = 1 /\ e.before = 0
          /\ e.entry.kind = "ClusterConfig"
      BY <2>1 DEF Foundings, Founding, ConfigEntry
    <3> QED
      BY <3>1 DEF TermsStep, Led
  <2>2. CASE e \in BootEdges
    <3>1. PICK id \in NodeId : e \in Edges(Boot[id].log.entries)
      BY <2>2 DEF BootEdges
    <3>2. e.entry.term \in Terms(Boot[id].log.entries)
      BY <3>1 DEF Terms
    <3>3. e.entry.term \in Nat /\ e.index \in Nat
      BY <1>2, <3>1, EdgesFacts
    <3> QED
      BY <1>4, <2>2, <3>2, <3>3, PastAssumption
  <2> QED
    BY <1>3, <2>1, <2>2
<1>7. ASSUME NEW id \in NodeId, NEW es \in {node[id].log.entries, stored[id].log.entries}
      PROVE  /\ <<es.prev.term, 0>> \in Led
             /\ \A t \in Terms(es) : t <= node[id].current_term
  <2>1. es = Boot[id].log.entries
    BY <1>1, <1>2
  <2>2. es.prev.term \in Terms(es) /\ es.prev.term \in Nat
    BY <1>2, <2>1, EntriesFacts DEF Terms, Position
  <2> QED
    BY <1>2, <1>4, <2>1, <2>2, PastAssumption
<1>8. Idle /\ LeadersRipe
  BY <1>2 DEF Idle, LeadersRipe
<1>9. PacketsLed
  BY <1>1 DEF PacketsLed
<1> QED
  BY <1>5, <1>6, <1>7, <1>8, <1>9 DEF MatchInv, EdgesLed, LogsLed

-----------------------------------------------------------------------------
(* Logs match. *)

LEMMA GreaterOf == \A m, n \in Nat : Max({m, n}) \in Nat /\ m <= Max({m, n}) /\ n <= Max({m, n})
<1> SUFFICES ASSUME NEW m \in Nat, NEW n \in Nat
             PROVE  Max({m, n}) \in Nat /\ m <= Max({m, n}) /\ n <= Max({m, n})
  OBVIOUS
<1>1. \E x \in {m, n} : \A y \in {m, n} : x >= y
  OBVIOUS
<1>2. Max({m, n}) \in {m, n} /\ \A y \in {m, n} : Max({m, n}) >= y
  BY <1>1 DEF Max
<1> QED
  BY <1>2

\* Two logs made of matching edges agree below a position that both contain.
LEMMA EdgesAgree ==
  ASSUME NEW C, NEW a \in Entries(C), NEW b \in Entries(C), Distinct(Edges(a) \cup Edges(b)),
         NEW lo \in Nat, a.prev.index <= lo, b.prev.index <= lo,
         NEW i \in lo + 1 .. LastIndex(a), i <= LastIndex(b), TermAt(a, i) = TermAt(b, i),
         NEW j \in lo + 1 .. i
  PROVE  EntryAt(a, j) = EntryAt(b, j)
<1> DEFINE D == {k \in lo + 1 .. i : EntryAt(a, k) # EntryAt(b, k)}
<1> SUFFICES ASSUME D # {} PROVE FALSE
  OBVIOUS
<1>1. /\ a.prev.index \in Nat /\ LastIndex(a) \in Nat
      /\ b.prev.index \in Nat /\ LastIndex(b) \in Nat
      /\ i \in Nat
  BY EntriesFacts
<1>2. PICK g \in D : \A k \in D : k <= g
  <2>1. D \subseteq 0 .. i
    BY <1>1
  <2> QED
    BY <1>1, <2>1, GreatestIndex
<1>3. g \in lo + 1 .. i /\ EntryAt(a, g) # EntryAt(b, g)
  OBVIOUS
<1>4. ASSUME NEW k \in lo + 1 .. i, TermAt(a, k) = TermAt(b, k)
      PROVE  Edge(a, k) = Edge(b, k)
  <2>1. k \in a.prev.index + 1 .. LastIndex(a) /\ k \in b.prev.index + 1 .. LastIndex(b)
    BY <1>1
  <2>2. Edge(a, k) \in Edges(a) /\ Edge(b, k) \in Edges(b)
    BY <2>1, EdgeIn
  <2>3. /\ Edge(a, k).index = Edge(b, k).index
        /\ Edge(a, k).entry.term = Edge(b, k).entry.term
    BY <1>4, <2>1, TermAtEntry DEF Edge
  <2> QED
    BY <2>2, <2>3 DEF Distinct
<1>5. TermAt(a, g) = TermAt(b, g)
  <2>1. CASE g = i
    BY <2>1
  <2>2. CASE g # i
    <3>1. g + 1 \in lo + 1 .. i /\ ~(g + 1 <= g) /\ (g + 1) - 1 = g
      BY <1>1, <1>3, <2>2
    <3>2. EntryAt(a, g + 1) = EntryAt(b, g + 1)
      BY <1>2, <3>1
    <3>3. /\ g + 1 \in a.prev.index + 1 .. LastIndex(a)
          /\ g + 1 \in b.prev.index + 1 .. LastIndex(b)
      BY <1>1, <3>1
    <3>4. TermAt(a, g + 1) = TermAt(b, g + 1)
      BY <3>2, <3>3, TermAtEntry
    <3>5. Edge(a, g + 1).before = Edge(b, g + 1).before
      BY <1>4, <3>1, <3>4
    <3> QED
      BY <3>1, <3>5 DEF Edge
  <2> QED
    BY <2>1, <2>2
<1>6. Edge(a, g) = Edge(b, g)
  BY <1>3, <1>4, <1>5
<1> QED
  BY <1>3, <1>6 DEF Edge

LEMMA EdgesMatching ==
  ASSUME NEW C, Typed(C), EdgesMatch
  PROVE  LogMatching
<1> SUFFICES ASSUME NEW a \in Holders, NEW b \in Holders,
                    NEW i \in a.prev.index + 1 .. LastIndex(a),
                    Contains(b, Pos(EntryAt(a, i).term, i)), i > b.prev.index,
                    NEW j \in Max({a.prev.index, b.prev.index}) + 1 .. i
             PROVE  EntryAt(a, j) = EntryAt(b, j)
  BY DEF LogMatching
<1> DEFINE lo == Max({a.prev.index, b.prev.index})
<1>1. \A h \in Holders : h \in Entries(C)
  <2>1. \A id \in NodeId : /\ node[id].log.entries \in Entries(C)
                            /\ stored[id].log.entries \in Entries(C)
    BY TypedFacts, SoundLog, LogFacts
  <2>2. \A p \in net : p.msg.type = "AppendEntriesCall" => p.msg.entries \in Entries(C)
    BY DEF Typed, PacketOK, MessageOK
  <2> QED
    BY <2>1, <2>2 DEF Holders
<1>2. a \in Entries(C) /\ b \in Entries(C)
  BY <1>1
<1>3. /\ a.prev.index \in Nat /\ LastIndex(a) \in Nat
      /\ b.prev.index \in Nat /\ LastIndex(b) \in Nat
  BY <1>2, EntriesFacts
<1>4. lo \in Nat /\ a.prev.index <= lo /\ b.prev.index <= lo
  BY <1>3, GreaterOf
<1>5. Distinct(Edges(a) \cup Edges(b))
  BY DEF EdgesMatch, Known, World, Distinct
<1>6. i <= LastIndex(b) /\ TermAt(a, i) = TermAt(b, i)
  <2>1. i \in b.prev.index .. LastIndex(b) /\ TermAt(b, i) = EntryAt(a, i).term
    BY DEF Contains, ContainsIndex, Pos
  <2>2. TermAt(a, i) = EntryAt(a, i).term
    BY <1>2, TermAtEntry
  <2> QED
    BY <1>3, <2>1, <2>2
<1> HIDE DEF lo
<1>7. i \in lo + 1 .. LastIndex(a) /\ j \in lo + 1 .. i
  <2>1. j \in lo + 1 .. i
    BY DEF lo
  <2> QED
    BY <1>3, <1>4, <2>1
<1> QED
  BY <1>2, <1>4, <1>5, <1>6, <1>7, EdgesAgree

\* While users execute what a call left before the next call, and one configuration founds
\* the cluster, logs match as long as no two nodes lead a term, whatever entries and
\* snapshots a node receives and however the voters change (handle_append_entries_call and
\* handle_snapshot_installed write what a leader wrote).
THEOREM LogsMatch ==
  ASSUME Batching = "none", OneFounding
  PROVE  Spec /\ []ElectionSafety => []LogMatching
<1> DEFINE Inv == Typed(Configs) /\ MatchInv
<1>1. Init => Inv
  BY ConfigsCover, InitTyped, InitMatches
<1>2. Inv /\ ElectionSafety' /\ [Next]_vars => Inv'
  BY ConfigsCover, TypedStep, MatchStep
<1>3. Inv => LogMatching
  BY EdgesMatching DEF MatchInv
<1> QED
  BY <1>1, <1>2, <1>3, PTL DEF Spec

\* While the voters stay the same, nothing else has to be assumed of the elections: logs
\* match in every cluster whose users execute what a call left before the next call.
THEOREM FixedVotersMatchLogs ==
  ASSUME NEW CONSTANT V, VotersFixed(V), Batching = "none", OneFounding
  PROVE  Spec => []LogMatching
<1>1. Spec => [](ElectionSafety /\ NoRival)
  BY FixedVotersElectOneLeader
<1>2. Spec /\ []ElectionSafety => []LogMatching
  BY LogsMatch
<1> QED
  BY <1>1, <1>2, PTL
=============================================================================
