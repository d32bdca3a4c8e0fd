----------------------------- MODULE VoteProofs -----------------------------
(***************************************************************************)
(* What every operator of Node and of Handlers does to one node, whatever  *)
(* the rest of the cluster does.                                           *)
(*                                                                         *)
(* First the durable part of its state, for any node, log and              *)
(* configuration: the term never falls, and a term or a vote that changes  *)
(* is queued to be saved (Evolves). IsNode(nd) says that nd is a record    *)
(* with a Node's fields whose queued messages are its own and of no later  *)
(* term than its own. The fields these facts do not depend on are left     *)
(* without a type.                                                         *)
(*                                                                         *)
(* Then the vote, the role and the queued messages, for any node and any   *)
(* set C of configurations that its log may hold. Sound says what holds of *)
(* a node by itself; Outcome says what a call may change: how a vote may   *)
(* go, who may lead and who may say what to whom. The local debug_asserts  *)
(* of the code hold throughout.                                            *)
(***************************************************************************)
EXTENDS Handlers, LogProofs

-----------------------------------------------------------------------------
(* The durable part of a node.                                             *)

IsMessage(m) ==
  \/ m \in [type : {"RequestVoteCall"}, from : {m.from}, term : Nat,
            last_position : {m.last_position}]
  \/ m \in [type : {"RequestVoteReply"}, from : {m.from}, term : Nat,
            vote_granted : {m.vote_granted}]
  \/ m \in [type : {"AppendEntriesCall"}, from : {m.from}, term : Nat,
            commit_index : {m.commit_index}, entries : {m.entries}]
  \/ m \in [type : {"AppendEntriesReply"}, from : {m.from}, term : Nat,
            last_position : {m.last_position}]

\* The message m may be sent by node id in term t.
Speaks(m, id, t) == IsMessage(m) /\ m.from = id /\ m.term <= t

IsActions(q) ==
  q \in [set_election_timeout : BOOLEAN, save_current_term : BOOLEAN, save_voted_for : BOOLEAN,
         append_log_entries : {q.append_log_entries}, broadcast_message : {q.broadcast_message},
         send_messages : {q.send_messages}, install_snapshots : {q.install_snapshots}]

OwnMessages(q, id, t) ==
  /\ \A m \in q.broadcast_message : Speaks(m, id, t)
  /\ \A d \in DOMAIN q.send_messages : Speaks(q.send_messages[d], id, t)

IsRecord(nd) ==
  nd \in [id : {nd.id}, voted_for : {nd.voted_for}, current_term : Nat, log : {nd.log},
          commit_index : {nd.commit_index}, role : {nd.role},
          granted_votes : {nd.granted_votes}, followers : {nd.followers},
          actions : {nd.actions}, broken : {nd.broken}]

IsNode(nd) ==
  /\ IsRecord(nd)
  /\ IsActions(nd.actions)
  /\ OwnMessages(nd.actions, nd.id, nd.current_term)

Evolves(nd, nd2) ==
  /\ IsNode(nd2)
  /\ nd2.id = nd.id
  /\ nd.current_term <= nd2.current_term
  /\ ~nd2.actions.save_current_term
       => ~nd.actions.save_current_term /\ nd2.current_term = nd.current_term
  /\ ~nd2.actions.save_voted_for
       => ~nd.actions.save_voted_for /\ nd2.voted_for = nd.voted_for

\* The two nodes differ in nothing that Evolves speaks of.
Alike(nd, nd2) ==
  /\ IsRecord(nd2)
  /\ nd2.id = nd.id
  /\ nd2.current_term = nd.current_term
  /\ nd2.voted_for = nd.voted_for
  /\ nd2.actions = nd.actions

-----------------------------------------------------------------------------
(* Evolves. *)

LEMMA EvolvesReflexive == ASSUME NEW nd, IsNode(nd) PROVE Evolves(nd, nd)
  BY DEF IsNode, IsRecord, Evolves

LEMMA EvolvesTransitive ==
  ASSUME NEW a, NEW b, NEW c, IsNode(a), Evolves(a, b), Evolves(b, c)
  PROVE  Evolves(a, c)
<1>1. a.current_term \in Nat /\ b.current_term \in Nat /\ c.current_term \in Nat
  BY DEF IsNode, IsRecord, Evolves
<1> QED
  BY <1>1 DEF Evolves

LEMMA AlikeEvolves == ASSUME NEW nd, NEW nd2, IsNode(nd), Alike(nd, nd2) PROVE Evolves(nd, nd2)
<1>1. nd.current_term \in Nat
  BY DEF IsNode, IsRecord
<1> QED
  BY <1>1 DEF Alike, IsNode, Evolves

\* A message a node may send in one term it may send in a later one.
LEMMA SpeaksLater ==
  ASSUME NEW m, NEW id, NEW t \in Nat, NEW u \in Nat, t <= u, Speaks(m, id, t)
  PROVE  Speaks(m, id, u)
<1>1. m.term \in Nat
  BY DEF Speaks, IsMessage
<1> QED
  BY <1>1 DEF Speaks

-----------------------------------------------------------------------------
(* Changes of one field. *)

\* A node with other actions.
LEMMA WithActions ==
  ASSUME NEW nd, IsRecord(nd), NEW q
  PROVE  LET nd2 == [nd EXCEPT !.actions = q] IN
         /\ IsRecord(nd2)
         /\ nd2.actions = q
         /\ nd2.id = nd.id
         /\ nd2.current_term = nd.current_term
         /\ nd2.voted_for = nd.voted_for
  BY DEF IsRecord

\* Actions that keep the saves of the term and of the vote, and messages of the
\* node's own.
LEMMA ActionsEvolve ==
  ASSUME NEW nd, IsNode(nd), NEW q, IsActions(q),
         OwnMessages(q, nd.id, nd.current_term),
         q.save_current_term = nd.actions.save_current_term,
         q.save_voted_for = nd.actions.save_voted_for
  PROVE  Evolves(nd, [nd EXCEPT !.actions = q])
<1> DEFINE nd2 == [nd EXCEPT !.actions = q]
<1>0. IsRecord(nd)
  BY DEF IsNode
<1>1. /\ IsRecord(nd2)
      /\ nd2.actions = q
      /\ nd2.id = nd.id
      /\ nd2.current_term = nd.current_term
      /\ nd2.voted_for = nd.voted_for
  BY <1>0, WithActions
<1>2. nd.current_term \in Nat
  BY DEF IsNode, IsRecord
<1> HIDE DEF nd2
<1>3. Evolves(nd, nd2)
  BY <1>1, <1>2 DEF Evolves, IsNode
<1> QED
  BY <1>3 DEF nd2

LEMMA SetElectionTimeoutEvolves ==
  ASSUME NEW nd, IsNode(nd) PROVE Evolves(nd, SetElectionTimeout(nd))
<1> DEFINE q == [nd.actions EXCEPT !.set_election_timeout = TRUE]
<1>1. SetElectionTimeout(nd) = [nd EXCEPT !.actions = q]
  BY DEF SetElectionTimeout
<1>2. /\ IsActions(q)
      /\ q.save_current_term = nd.actions.save_current_term
      /\ q.save_voted_for = nd.actions.save_voted_for
      /\ q.broadcast_message = nd.actions.broadcast_message
      /\ q.send_messages = nd.actions.send_messages
  BY DEF IsNode, IsActions
<1>3. OwnMessages(q, nd.id, nd.current_term)
  BY <1>2 DEF IsNode, OwnMessages
<1> HIDE DEF q
<1> QED
  BY <1>1, <1>2, <1>3, ActionsEvolve

LEMMA SetVotedForEvolves ==
  ASSUME NEW nd, IsNode(nd), NEW v PROVE Evolves(nd, SetVotedFor(nd, v))
<1> DEFINE q == [nd.actions EXCEPT !.save_voted_for = TRUE]
           nd2 == [nd EXCEPT !.voted_for = v, !.actions = q]
<1>1. SetVotedFor(nd, v) = nd2
  BY DEF SetVotedFor
<1>2. /\ IsActions(q)
      /\ q.save_voted_for
      /\ q.save_current_term = nd.actions.save_current_term
      /\ q.broadcast_message = nd.actions.broadcast_message
      /\ q.send_messages = nd.actions.send_messages
  BY DEF IsNode, IsActions
<1>3. /\ IsRecord(nd2)
      /\ nd2.actions = q
      /\ nd2.id = nd.id
      /\ nd2.current_term = nd.current_term
  BY DEF IsNode, IsRecord
<1>4. nd.current_term \in Nat
  BY DEF IsNode, IsRecord
<1> HIDE DEF q, nd2
<1> QED
  BY <1>1, <1>2, <1>3, <1>4 DEF Evolves, IsNode, OwnMessages

LEMMA SetCurrentTermEvolves ==
  ASSUME NEW nd, IsNode(nd), NEW t \in Nat, nd.current_term <= t
  PROVE  /\ Evolves(nd, SetCurrentTerm(nd, t))
         /\ SetCurrentTerm(nd, t).current_term = t
<1> DEFINE q == [nd.actions EXCEPT !.save_current_term = TRUE]
           nd2 == [nd EXCEPT !.current_term = t, !.actions = q]
<1>1. SetCurrentTerm(nd, t) = nd2
  BY DEF SetCurrentTerm
<1>2. /\ IsActions(q)
      /\ q.save_current_term
      /\ q.save_voted_for = nd.actions.save_voted_for
      /\ q.broadcast_message = nd.actions.broadcast_message
      /\ q.send_messages = nd.actions.send_messages
  BY DEF IsNode, IsActions
<1>3. /\ IsRecord(nd2)
      /\ nd2.actions = q
      /\ nd2.id = nd.id
      /\ nd2.current_term = t
      /\ nd2.voted_for = nd.voted_for
  BY DEF IsNode, IsRecord
<1>4. nd.current_term \in Nat
  BY DEF IsNode, IsRecord
<1>5. OwnMessages(q, nd.id, t)
  BY <1>2, <1>4, SpeaksLater DEF IsNode, OwnMessages
<1> HIDE DEF q, nd2
<1> QED
  BY <1>1, <1>2, <1>3, <1>4, <1>5 DEF Evolves, IsNode

LEMMA DebugAssertEvolves ==
  ASSUME NEW nd, IsNode(nd), NEW name, NEW holds
  PROVE  LET nd2 == DebugAssert(nd, name, holds)
         IN  Evolves(nd, nd2) /\ IsNode(nd2) /\ Alike(nd, nd2)
<1>1. Alike(nd, DebugAssert(nd, name, holds))
  BY DEF IsNode, IsRecord, Alike, DebugAssert
<1> QED
  BY <1>1, AlikeEvolves DEF Evolves

LEMMA SetRoleEvolves ==
  ASSUME NEW nd, IsNode(nd), NEW role PROVE Evolves(nd, SetRole(nd, role))
<1>1. Alike(nd, SetRole(nd, role))
  BY DEF IsNode, IsRecord, Alike, SetRole
<1> QED
  BY <1>1, AlikeEvolves

-----------------------------------------------------------------------------
(* Queues. *)

LEMMA MergeSpeaks ==
  ASSUME NEW m0, NEW m1, NEW id, NEW t, Speaks(m1, id, t)
  PROVE  Speaks(Merge(m0, m1), id, t)
<1>1. CASE Merge(m0, m1) = m1
  BY <1>1
<1>2. CASE Merge(m0, m1) # m1
  <2>1. /\ m1.type = "AppendEntriesCall"
        /\ Merge(m0, m1) = [m1 EXCEPT !.entries = AppendUnchecked(m0.entries, @)]
    BY <1>2 DEF Merge
  <2>2. m1 \in [type : {"AppendEntriesCall"}, from : {m1.from}, term : Nat,
                commit_index : {m1.commit_index}, entries : {m1.entries}]
    BY <2>1 DEF Speaks, IsMessage
  <2> DEFINE entries == AppendUnchecked(m0.entries, m1.entries)
             m2 == [m1 EXCEPT !.entries = entries]
  <2>3. Merge(m0, m1) = m2
    BY <2>1
  <2> HIDE DEF entries
  <2>4. /\ m2 \in [type : {"AppendEntriesCall"}, from : {m2.from}, term : Nat,
                    commit_index : {m2.commit_index}, entries : {m2.entries}]
        /\ m2.from = m1.from
        /\ m2.term = m1.term
    BY <2>2
  <2> HIDE DEF m2
  <2> QED
    BY <2>3, <2>4 DEF Speaks, IsMessage
<1> QED
  BY <1>1, <1>2

LEMMA QueueAppendEvolves ==
  ASSUME NEW nd, IsNode(nd), NEW entries PROVE Evolves(nd, QueueAppend(nd, entries))
<1> DEFINE merged == {AppendUnchecked(e, entries) : e \in nd.actions.append_log_entries}
           held == \A e \in nd.actions.append_log_entries : Contains(e, entries.prev)
           a == DebugAssert(nd, "append anchor", held)
           q == [a.actions EXCEPT !.append_log_entries = IF merged = {} THEN {entries} ELSE merged]
<1>1. QueueAppend(nd, entries) = [a EXCEPT !.actions = q]
  BY DEF QueueAppend
<1> HIDE DEF merged, held
<1>2. Evolves(nd, a) /\ IsNode(a)
  BY DebugAssertEvolves
<1> HIDE DEF a
<1>3. /\ IsActions(q)
      /\ q.save_current_term = a.actions.save_current_term
      /\ q.save_voted_for = a.actions.save_voted_for
      /\ q.broadcast_message = a.actions.broadcast_message
      /\ q.send_messages = a.actions.send_messages
  BY <1>2 DEF IsNode, IsActions
<1>4. OwnMessages(q, a.id, a.current_term)
  BY <1>2, <1>3 DEF IsNode, OwnMessages
<1> HIDE DEF q
<1>5. Evolves(a, [a EXCEPT !.actions = q])
  BY <1>2, <1>3, <1>4, ActionsEvolve
<1> QED
  BY <1>1, <1>2, <1>5, EvolvesTransitive

LEMMA QueueBroadcastEvolves ==
  ASSUME NEW nd, IsNode(nd), NEW m, Speaks(m, nd.id, nd.current_term)
  PROVE  Evolves(nd, QueueBroadcast(nd, m))
<1> DEFINE merged == {Merge(p, m) : p \in nd.actions.broadcast_message}
           held == \A p \in nd.actions.broadcast_message : p.term <= m.term
           a == DebugAssert(nd, "merge term", held)
           kept == IF merged = {} THEN {m} ELSE merged
           q == [a.actions EXCEPT !.broadcast_message = kept]
<1>1. QueueBroadcast(nd, m) = [a EXCEPT !.actions = q]
  BY DEF QueueBroadcast
<1>2. \A x \in kept : Speaks(x, nd.id, nd.current_term)
  BY MergeSpeaks
<1> HIDE DEF merged, held, kept
<1>3. Evolves(nd, a) /\ IsNode(a) /\ Alike(nd, a)
  BY DebugAssertEvolves
<1> HIDE DEF a
<1>4. /\ IsActions(q)
      /\ q.save_current_term = a.actions.save_current_term
      /\ q.save_voted_for = a.actions.save_voted_for
      /\ q.broadcast_message = kept
      /\ q.send_messages = a.actions.send_messages
  BY <1>3 DEF IsNode, IsActions
<1>5. OwnMessages(q, a.id, a.current_term)
  BY <1>2, <1>3, <1>4 DEF IsNode, OwnMessages, Alike
<1> HIDE DEF q
<1>6. Evolves(a, [a EXCEPT !.actions = q])
  BY <1>3, <1>4, <1>5, ActionsEvolve
<1> QED
  BY <1>1, <1>3, <1>6, EvolvesTransitive

LEMMA QueueSendEvolves ==
  ASSUME NEW nd, IsNode(nd), NEW to, NEW m, Speaks(m, nd.id, nd.current_term)
  PROVE  Evolves(nd, QueueSend(nd, to, m))
<1> DEFINE queued == nd.actions.send_messages
           old == {queued[d] : d \in DOMAIN queued \cap {to}}
           merged == IF old = {} THEN m ELSE Merge(queued[to], m)
           held == \A x \in old : x.term <= m.term
           a == DebugAssert(nd, "merge term", held)
           kept == [d \in DOMAIN queued \cup {to} |-> IF d = to THEN merged ELSE queued[d]]
           q == [a.actions EXCEPT !.send_messages = kept]
<1>1. QueueSend(nd, to, m) = [a EXCEPT !.actions = q]
  BY DEF QueueSend
<1>2. Speaks(merged, nd.id, nd.current_term)
  BY MergeSpeaks
<1> HIDE DEF merged, old, held
<1>3. \A d \in DOMAIN kept : Speaks(kept[d], nd.id, nd.current_term)
  BY <1>2 DEF IsNode, OwnMessages
<1> HIDE DEF kept
<1>4. Evolves(nd, a) /\ IsNode(a) /\ Alike(nd, a)
  BY DebugAssertEvolves
<1> HIDE DEF a
<1>5. /\ IsActions(q)
      /\ q.save_current_term = a.actions.save_current_term
      /\ q.save_voted_for = a.actions.save_voted_for
      /\ q.broadcast_message = a.actions.broadcast_message
      /\ q.send_messages = kept
  BY <1>4 DEF IsNode, IsActions
<1>6. OwnMessages(q, a.id, a.current_term)
  BY <1>3, <1>4, <1>5 DEF IsNode, OwnMessages, Alike
<1> HIDE DEF q
<1>7. Evolves(a, [a EXCEPT !.actions = q])
  BY <1>4, <1>5, <1>6, ActionsEvolve
<1> QED
  BY <1>1, <1>4, <1>7, EvolvesTransitive

LEMMA QueueInstallSnapshotEvolves ==
  ASSUME NEW nd, IsNode(nd), NEW to PROVE Evolves(nd, QueueInstallSnapshot(nd, to))
<1> DEFINE kept == nd.actions.install_snapshots \cup {to}
           q == [nd.actions EXCEPT !.install_snapshots = kept]
<1>1. QueueInstallSnapshot(nd, to) = [nd EXCEPT !.actions = q]
  BY DEF QueueInstallSnapshot
<1> HIDE DEF kept
<1>2. /\ IsActions(q)
      /\ q.save_current_term = nd.actions.save_current_term
      /\ q.save_voted_for = nd.actions.save_voted_for
      /\ q.broadcast_message = nd.actions.broadcast_message
      /\ q.send_messages = nd.actions.send_messages
  BY DEF IsNode, IsActions
<1>3. OwnMessages(q, nd.id, nd.current_term)
  BY <1>2 DEF IsNode, OwnMessages
<1> HIDE DEF q
<1> QED
  BY <1>1, <1>2, <1>3, ActionsEvolve

\* The messages a node makes are its own, of its own term.
LEMMA NewMessagesSpeak ==
  ASSUME NEW nd, IsNode(nd), NEW x
  PROVE  /\ Speaks(RequestVoteCall(nd, x), nd.id, nd.current_term)
         /\ Speaks(RequestVoteReply(nd, x), nd.id, nd.current_term)
         /\ Speaks(AppendEntriesCall(nd, x), nd.id, nd.current_term)
         /\ Speaks(AppendEntriesReply(nd), nd.id, nd.current_term)
<1>1. nd.current_term \in Nat
  BY DEF IsNode, IsRecord
<1>2. Speaks(RequestVoteCall(nd, x), nd.id, nd.current_term)
  BY <1>1 DEF Speaks, IsMessage, RequestVoteCall
<1>3. Speaks(RequestVoteReply(nd, x), nd.id, nd.current_term)
  BY <1>1 DEF Speaks, IsMessage, RequestVoteReply
<1>4. Speaks(AppendEntriesCall(nd, x), nd.id, nd.current_term)
  BY <1>1 DEF Speaks, IsMessage, AppendEntriesCall
<1>5. Speaks(AppendEntriesReply(nd), nd.id, nd.current_term)
  BY <1>1 DEF Speaks, IsMessage, AppendEntriesReply
<1> QED
  BY <1>2, <1>3, <1>4, <1>5

-----------------------------------------------------------------------------
(* Role changes. *)

LEMMA TransitionToFollowerEvolves ==
  ASSUME NEW nd, IsNode(nd), NEW term \in Nat, nd.current_term <= term
  PROVE  Evolves(nd, TransitionToFollower(nd, term))
<1> DEFINE armed == IF nd.role = "Follower" THEN nd ELSE SetElectionTimeout(nd)
           entered == SetCurrentTerm(armed, term)
           unvoted == SetVotedFor(entered, Nil)
           demoted == SetRole(unvoted, "Follower")
           held == nd.current_term <= term
           a == DebugAssert(demoted, "term regression", held)
           stale(m) == IsCall(m) /\ m.term < term
           sends == demoted.actions.send_messages
           keptTo == {d \in DOMAIN sends : ~stale(sends[d])}
           keptSends == [d \in keptTo |-> sends[d]]
           keptBroadcast == {m \in a.actions.broadcast_message : ~stale(m)}
           q == [a.actions EXCEPT !.broadcast_message = keptBroadcast,
                                  !.send_messages = keptSends]
<1>1. TransitionToFollower(nd, term) = [a EXCEPT !.actions = q]
  BY DEF TransitionToFollower
<1>2. Evolves(nd, armed) /\ IsNode(armed) /\ armed.current_term = nd.current_term
  BY SetElectionTimeoutEvolves, EvolvesReflexive DEF Evolves, SetElectionTimeout, IsNode, IsRecord
<1>3. Evolves(armed, entered) /\ IsNode(entered)
  BY <1>2, SetCurrentTermEvolves DEF Evolves
<1>4. Evolves(entered, unvoted) /\ IsNode(unvoted)
  BY <1>3, SetVotedForEvolves DEF Evolves
<1>5. Evolves(unvoted, demoted) /\ IsNode(demoted)
  BY <1>4, SetRoleEvolves DEF Evolves
<1> HIDE DEF held
<1>6. Evolves(demoted, a) /\ IsNode(a) /\ Alike(demoted, a)
  BY <1>5, DebugAssertEvolves
<1> HIDE DEF armed, entered, unvoted, demoted, a
<1>7. Evolves(nd, a)
  BY <1>2, <1>3, <1>4, <1>5, <1>6, EvolvesTransitive
<1>8. /\ \A m \in keptBroadcast : m \in a.actions.broadcast_message
      /\ \A d \in DOMAIN keptSends : d \in DOMAIN a.actions.send_messages
                                     /\ keptSends[d] = a.actions.send_messages[d]
  BY <1>6 DEF Alike
<1> HIDE DEF keptBroadcast, keptSends
<1>9. /\ IsActions(q)
      /\ q.save_current_term = a.actions.save_current_term
      /\ q.save_voted_for = a.actions.save_voted_for
      /\ q.broadcast_message = keptBroadcast
      /\ q.send_messages = keptSends
  BY <1>6 DEF IsNode, IsActions
<1>10. OwnMessages(q, a.id, a.current_term)
  BY <1>6, <1>8, <1>9 DEF IsNode, OwnMessages
<1> HIDE DEF q
<1>11. Evolves(a, [a EXCEPT !.actions = q])
  BY <1>6, <1>9, <1>10, ActionsEvolve
<1> QED
  BY <1>1, <1>7, <1>11, EvolvesTransitive

LEMMA RebuildFollowersEvolves ==
  ASSUME NEW nd, IsNode(nd) PROVE Evolves(nd, RebuildFollowers(nd))
<1> DEFINE fs == [f \in Peers(nd) |-> IF f \in DOMAIN nd.followers THEN nd.followers[f] ELSE 0]
<1>1. RebuildFollowers(nd) = [nd EXCEPT !.followers = fs]
  BY DEF RebuildFollowers
<1> HIDE DEF fs
<1>2. Alike(nd, [nd EXCEPT !.followers = fs])
  BY DEF IsNode, IsRecord, Alike
<1> QED
  BY <1>1, <1>2, AlikeEvolves

-----------------------------------------------------------------------------
(* Commits and proposals. *)

LEMMA AdvanceCommitIndexEvolves ==
  ASSUME NEW nd, IsNode(nd) PROVE Evolves(nd, AdvanceCommitIndex(nd))
<1>1. Alike(nd, AdvanceCommitIndex(nd))
  BY DEF IsNode, IsRecord, Alike, AdvanceCommitIndex
<1> QED
  BY <1>1, AlikeEvolves

\* A change of the log that is not an action.
LEMMA LogEvolves ==
  ASSUME NEW nd, IsNode(nd), NEW log PROVE Evolves(nd, [nd EXCEPT !.log = log])
<1>1. Alike(nd, [nd EXCEPT !.log = log])
  BY DEF IsNode, IsRecord, Alike
<1> QED
  BY <1>1, AlikeEvolves

LEMMA AppendProposedLogEntryEvolves ==
  ASSUME NEW nd, IsNode(nd), NEW entry PROVE Evolves(nd, AppendProposedLogEntry(nd, entry))
<1> DEFINE queued == QueueAppend(nd, [prev |-> LastPosition(nd.log.entries), ents |-> <<entry>>])
           log == [queued.log EXCEPT !.entries = Push(@, entry)]
           pushed == [queued EXCEPT !.log = log]
<1>1. AppendProposedLogEntry(nd, entry)
        = IF entry.kind = "ClusterConfig" THEN RebuildFollowers(pushed) ELSE pushed
  BY DEF AppendProposedLogEntry
<1>2. Evolves(nd, queued) /\ IsNode(queued)
  BY QueueAppendEvolves DEF Evolves
<1> HIDE DEF queued, log
<1>3. Evolves(queued, pushed) /\ IsNode(pushed)
  BY <1>2, LogEvolves DEF Evolves
<1> HIDE DEF pushed
<1>4. Evolves(nd, pushed)
  BY <1>2, <1>3, EvolvesTransitive
<1>5. Evolves(nd, RebuildFollowers(pushed))
  BY <1>3, <1>4, RebuildFollowersEvolves, EvolvesTransitive
<1> QED
  BY <1>1, <1>4, <1>5

LEMMA BroadcastProposalEvolves ==
  ASSUME NEW nd, IsNode(nd), NEW last, NEW entry
  PROVE  Evolves(nd, BroadcastProposal(nd, last, entry))
<1> DEFINE call == AppendEntriesCall(nd, [prev |-> last, ents |-> <<entry>>])
           leads == nd.role = "Leader"
           sent == IF DOMAIN nd.followers = {} THEN DebugAssert(nd, "still leader", leads)
                   ELSE QueueBroadcast(nd, call)
<1>1. BroadcastProposal(nd, last, entry) = SetElectionTimeout(sent)
  BY DEF BroadcastProposal
<1>2. Evolves(nd, QueueBroadcast(nd, call))
  BY NewMessagesSpeak, QueueBroadcastEvolves
<1> HIDE DEF leads, call
<1>3. Evolves(nd, DebugAssert(nd, "still leader", leads))
  BY DebugAssertEvolves
<1>4. Evolves(nd, sent) /\ IsNode(sent)
  BY <1>2, <1>3 DEF Evolves
<1> HIDE DEF sent
<1>5. Evolves(sent, SetElectionTimeout(sent))
  BY <1>4, SetElectionTimeoutEvolves
<1> QED
  BY <1>1, <1>4, <1>5, EvolvesTransitive

\* The commit inside the proposal that finalizes a joint consensus.
LEMMA NestedCommitEvolves ==
  ASSUME NEW nd, IsNode(nd) PROVE Evolves(nd, NestedCommit(nd))
<1> DEFINE up == AdvanceCommitIndex(nd)
           failed == DebugAssert(up, "nested joint consensus", FALSE)
<1>1. NestedCommit(nd) \in {nd, up, failed, TransitionToFollower(up, up.current_term)}
  BY DEF NestedCommit, CommitThen
<1>2. Evolves(nd, nd)
  BY EvolvesReflexive
<1>3. Evolves(nd, up) /\ IsNode(up)
  BY AdvanceCommitIndexEvolves DEF Evolves
<1> HIDE DEF up
<1>4. up.current_term \in Nat
  BY <1>3 DEF IsNode, IsRecord
<1>5. Evolves(nd, failed)
  <2>1. Evolves(up, failed)
    BY <1>3, DebugAssertEvolves
  <2> QED
    BY <1>3, <2>1, EvolvesTransitive
<1>6. Evolves(nd, TransitionToFollower(up, up.current_term))
  BY <1>3, <1>4, TransitionToFollowerEvolves, EvolvesTransitive
<1> QED
  BY <1>1, <1>2, <1>3, <1>5, <1>6

LEMMA FinalizeJointConsensusEvolves ==
  ASSUME NEW nd, IsNode(nd) PROVE Evolves(nd, FinalizeJointConsensus(nd))
<1> DEFINE c == FinalConfig(Config(nd))
           disjoint == c.voters \cap c.non_voters = {}
           a == DebugAssert(nd, "final config", disjoint)
           entry == ConfigEntry(nd.current_term, c)
           appended == AppendProposedLogEntry(a, entry)
           settled == IF IsSelfSoloVoter(appended) THEN NestedCommit(appended) ELSE appended
<1>1. FinalizeJointConsensus(nd)
        = BroadcastProposal(settled, LastPosition(a.log.entries), entry)
  BY DEF FinalizeJointConsensus, ProposeThen
<1> HIDE DEF disjoint, entry
<1>2. Evolves(nd, a) /\ IsNode(a)
  BY DebugAssertEvolves
<1> HIDE DEF a
<1>3. Evolves(nd, appended) /\ IsNode(appended)
  BY <1>2, AppendProposedLogEntryEvolves, EvolvesTransitive DEF Evolves
<1> HIDE DEF appended
<1>4. Evolves(nd, NestedCommit(appended))
  BY <1>3, NestedCommitEvolves, EvolvesTransitive
<1>5. Evolves(nd, settled) /\ IsNode(settled)
  BY <1>3, <1>4 DEF Evolves
<1> HIDE DEF settled
<1> QED
  BY <1>1, <1>5, BroadcastProposalEvolves, EvolvesTransitive

LEMMA UpdateCommitIndexEvolves ==
  ASSUME NEW nd, IsNode(nd) PROVE Evolves(nd, UpdateCommitIndexIfPossible(nd))
<1> DEFINE up == AdvanceCommitIndex(nd)
<1>1. UpdateCommitIndexIfPossible(nd)
        \in {nd, up, FinalizeJointConsensus(up), TransitionToFollower(up, up.current_term)}
  BY DEF UpdateCommitIndexIfPossible, CommitThen
<1>2. Evolves(nd, nd)
  BY EvolvesReflexive
<1>3. Evolves(nd, up) /\ IsNode(up)
  BY AdvanceCommitIndexEvolves DEF Evolves
<1> HIDE DEF up
<1>4. up.current_term \in Nat
  BY <1>3 DEF IsNode, IsRecord
<1>5. Evolves(nd, FinalizeJointConsensus(up))
  BY <1>3, FinalizeJointConsensusEvolves, EvolvesTransitive
<1>6. Evolves(nd, TransitionToFollower(up, up.current_term))
  BY <1>3, <1>4, TransitionToFollowerEvolves, EvolvesTransitive
<1> QED
  BY <1>1, <1>2, <1>3, <1>5, <1>6

LEMMA ProposeEvolves ==
  ASSUME NEW nd, IsNode(nd), NEW entry PROVE Evolves(nd, Propose(nd, entry))
<1> DEFINE appended == AppendProposedLogEntry(nd, entry)
           settled == IF IsSelfSoloVoter(appended) THEN UpdateCommitIndexIfPossible(appended)
                      ELSE appended
<1>1. Propose(nd, entry) = BroadcastProposal(settled, LastPosition(nd.log.entries), entry)
  BY DEF Propose, ProposeThen
<1>2. Evolves(nd, appended) /\ IsNode(appended)
  BY AppendProposedLogEntryEvolves DEF Evolves
<1> HIDE DEF appended
<1>3. Evolves(nd, UpdateCommitIndexIfPossible(appended))
  BY <1>2, UpdateCommitIndexEvolves, EvolvesTransitive
<1>4. Evolves(nd, settled) /\ IsNode(settled)
  BY <1>2, <1>3 DEF Evolves
<1> HIDE DEF settled
<1> QED
  BY <1>1, <1>4, BroadcastProposalEvolves, EvolvesTransitive

-----------------------------------------------------------------------------
(* Elections and heartbeats. *)

LEMMA TransitionToLeaderEvolves ==
  ASSUME NEW nd, IsNode(nd) PROVE Evolves(nd, TransitionToLeader(nd))
<1> DEFINE own == nd.voted_for = nd.id
           a == DebugAssert(nd, "leader vote", own)
           leader == RebuildFollowers(SetRole(a, "Leader"))
<1>1. TransitionToLeader(nd) = Propose(leader, TermEntry(nd.current_term))
  BY DEF TransitionToLeader
<1> HIDE DEF own
<1>2. Evolves(nd, a) /\ IsNode(a)
  BY DebugAssertEvolves
<1> HIDE DEF a
<1>3. Evolves(nd, SetRole(a, "Leader")) /\ IsNode(SetRole(a, "Leader"))
  BY <1>2, SetRoleEvolves, EvolvesTransitive DEF Evolves
<1>4. Evolves(nd, leader) /\ IsNode(leader)
  BY <1>3, RebuildFollowersEvolves, EvolvesTransitive DEF Evolves
<1> HIDE DEF leader
<1> QED
  BY <1>1, <1>4, ProposeEvolves, EvolvesTransitive

LEMMA TransitionToCandidateEvolves ==
  ASSUME NEW nd, IsNode(nd) PROVE Evolves(nd, TransitionToCandidate(nd))
<1> DEFINE entered == SetCurrentTerm(nd, nd.current_term + 1)
           voted == SetVotedFor(entered, nd.id)
           role == SetRole(voted, "Candidate")
           candidate == [role EXCEPT !.granted_votes = {nd.id}]
           call == RequestVoteCall(candidate, LastPosition(nd.log.entries))
           sent == QueueBroadcast(candidate, call)
<1>1. TransitionToCandidate(nd) \in {TransitionToLeader(voted), SetElectionTimeout(sent)}
  BY DEF TransitionToCandidate
<1>2. nd.current_term + 1 \in Nat /\ nd.current_term <= nd.current_term + 1
  BY DEF IsNode, IsRecord
<1>3. Evolves(nd, entered) /\ IsNode(entered)
  BY <1>2, SetCurrentTermEvolves DEF Evolves
<1> HIDE DEF entered
<1>4. Evolves(nd, voted) /\ IsNode(voted)
  BY <1>3, SetVotedForEvolves, EvolvesTransitive DEF Evolves
<1> HIDE DEF voted
<1>5. Evolves(nd, TransitionToLeader(voted))
  BY <1>4, TransitionToLeaderEvolves, EvolvesTransitive
<1>6. Evolves(nd, role) /\ IsNode(role)
  BY <1>4, SetRoleEvolves, EvolvesTransitive DEF Evolves
<1> HIDE DEF role
<1>7. Alike(role, candidate)
  BY <1>6 DEF IsNode, IsRecord, Alike
<1>8. Evolves(role, candidate)
  BY <1>6, <1>7, AlikeEvolves
<1> HIDE DEF candidate
<1>9. Evolves(nd, candidate) /\ IsNode(candidate)
  BY <1>6, <1>8, EvolvesTransitive DEF Evolves
<1>10. Evolves(candidate, sent)
  BY <1>9, NewMessagesSpeak, QueueBroadcastEvolves
<1> HIDE DEF sent
<1>11. Evolves(nd, sent) /\ IsNode(sent)
  BY <1>9, <1>10, EvolvesTransitive DEF Evolves
<1>12. Evolves(nd, SetElectionTimeout(sent))
  BY <1>11, SetElectionTimeoutEvolves, EvolvesTransitive
<1> QED
  BY <1>1, <1>5, <1>12

LEMMA ObserveTermEvolves ==
  ASSUME NEW nd, IsNode(nd), NEW term \in Nat PROVE Evolves(nd, ObserveTerm(nd, term))
<1>1. nd.current_term \in Nat
  BY DEF IsNode, IsRecord
<1> QED
  BY <1>1, EvolvesReflexive, TransitionToFollowerEvolves DEF ObserveTerm

LEMMA HeartbeatEvolves == ASSUME NEW nd, IsNode(nd) PROVE Evolves(nd, Heartbeat(nd))
<1> DEFINE call == AppendEntriesCall(nd, NewEntries(LastPosition(nd.log.entries)))
           sent == IF DOMAIN nd.followers = {} THEN nd ELSE QueueBroadcast(nd, call)
<1>1. Heartbeat(nd) = SetElectionTimeout(sent)
  BY DEF Heartbeat
<1>2. Evolves(nd, QueueBroadcast(nd, call))
  BY NewMessagesSpeak, QueueBroadcastEvolves
<1> HIDE DEF call
<1>3. Evolves(nd, sent) /\ IsNode(sent)
  BY <1>2, EvolvesReflexive DEF Evolves
<1> HIDE DEF sent
<1> QED
  BY <1>1, <1>3, SetElectionTimeoutEvolves, EvolvesTransitive

-----------------------------------------------------------------------------
(* Snapshots and restarts. *)

\* A record of message fields stays a message when its position or its entries
\* are replaced.
LEMMA RebaseMessageSpeaks ==
  ASSUME NEW m, NEW p, NEW id, NEW t, Speaks(m, id, t)
  PROVE  Speaks(RebaseMessage(m, p), id, t)
<1> DEFINE entries == RebaseEntries(m.entries, p)
<1>1. CASE m \in [type : {"RequestVoteCall"}, from : {m.from}, term : Nat,
                  last_position : {m.last_position}]
  <2> DEFINE m2 == [m EXCEPT !.last_position = p]
  <2>1. RebaseMessage(m, p) \in {m, m2}
    BY <1>1 DEF RebaseMessage
  <2>2. /\ m2 \in [type : {"RequestVoteCall"}, from : {m2.from}, term : Nat,
                    last_position : {m2.last_position}]
        /\ m2.from = m.from /\ m2.term = m.term
    BY <1>1
  <2> HIDE DEF m2
  <2> QED
    BY <2>1, <2>2 DEF Speaks, IsMessage
<1>2. CASE m \in [type : {"AppendEntriesReply"}, from : {m.from}, term : Nat,
                  last_position : {m.last_position}]
  <2> DEFINE m2 == [m EXCEPT !.last_position = p]
  <2>1. RebaseMessage(m, p) \in {m, m2}
    BY <1>2 DEF RebaseMessage
  <2>2. /\ m2 \in [type : {"AppendEntriesReply"}, from : {m2.from}, term : Nat,
                    last_position : {m2.last_position}]
        /\ m2.from = m.from /\ m2.term = m.term
    BY <1>2
  <2> HIDE DEF m2
  <2> QED
    BY <2>1, <2>2 DEF Speaks, IsMessage
<1>3. CASE m \in [type : {"AppendEntriesCall"}, from : {m.from}, term : Nat,
                  commit_index : {m.commit_index}, entries : {m.entries}]
  <2> DEFINE m2 == [m EXCEPT !.entries = entries]
  <2>1. RebaseMessage(m, p) = m2
    BY <1>3 DEF RebaseMessage
  <2> HIDE DEF entries
  <2>2. /\ m2 \in [type : {"AppendEntriesCall"}, from : {m2.from}, term : Nat,
                    commit_index : {m2.commit_index}, entries : {m2.entries}]
        /\ m2.from = m.from /\ m2.term = m.term
    BY <1>3
  <2> HIDE DEF m2
  <2> QED
    BY <2>1, <2>2 DEF Speaks, IsMessage
<1>4. CASE m \in [type : {"RequestVoteReply"}, from : {m.from}, term : Nat,
                  vote_granted : {m.vote_granted}]
  <2>1. RebaseMessage(m, p) = m
    BY <1>4 DEF RebaseMessage
  <2> QED
    BY <2>1
<1> QED
  BY <1>1, <1>2, <1>3, <1>4 DEF Speaks, IsMessage

LEMMA InstallSnapshotEvolves ==
  ASSUME NEW nd, IsNode(nd), NEW p, NEW config
  PROVE  /\ Evolves(nd, InstallSnapshot(nd, p, config))
         /\ InstallSnapshot(nd, p, config).current_term = nd.current_term
         /\ InstallSnapshot(nd, p, config).voted_for = nd.voted_for
         /\ InstallSnapshot(nd, p, config).actions.save_current_term
              = nd.actions.save_current_term
         /\ InstallSnapshot(nd, p, config).actions.save_voted_for = nd.actions.save_voted_for
<1> DEFINE rebased == {RebaseEntries(e, p) : e \in nd.actions.append_log_entries}
           appends == {e \in rebased : e.ents # <<>>}
           broadcast == {RebaseMessage(m, p) : m \in nd.actions.broadcast_message}
           sends == [d \in DOMAIN nd.actions.send_messages |->
                       RebaseMessage(nd.actions.send_messages[d], p)]
           log == InstallInLog(nd.log, p, config)
           commit == IF nd.commit_index < p.index THEN p.index ELSE nd.commit_index
           q == [nd.actions EXCEPT !.append_log_entries = appends,
                                   !.broadcast_message = broadcast, !.send_messages = sends]
           a == [nd EXCEPT !.log = log, !.commit_index = commit]
<1>1. InstallSnapshot(nd, p, config) = [a EXCEPT !.actions = q]
  BY DEF InstallSnapshot
<1>2. /\ \A m \in broadcast : Speaks(m, nd.id, nd.current_term)
      /\ \A d \in DOMAIN sends : Speaks(sends[d], nd.id, nd.current_term)
  BY RebaseMessageSpeaks DEF IsNode, OwnMessages
<1> HIDE DEF appends, broadcast, sends, log, commit
<1>3. Alike(nd, a)
  BY DEF Alike, IsNode, IsRecord
<1> HIDE DEF a
<1>4. Evolves(nd, a) /\ IsNode(a)
  BY <1>3, AlikeEvolves DEF Evolves
<1>5. /\ IsActions(q)
      /\ q.save_current_term = a.actions.save_current_term
      /\ q.save_voted_for = a.actions.save_voted_for
      /\ q.broadcast_message = broadcast
      /\ q.send_messages = sends
  BY <1>3, <1>4 DEF IsNode, IsActions, Alike
<1>6. OwnMessages(q, a.id, a.current_term)
  BY <1>2, <1>3, <1>5 DEF OwnMessages, Alike
<1> HIDE DEF q
<1>7. Evolves(a, [a EXCEPT !.actions = q])
  BY <1>4, <1>5, <1>6, ActionsEvolve
<1>8. LET nd2 == [a EXCEPT !.actions = q]
      IN  nd2.actions = q /\ nd2.current_term = a.current_term /\ nd2.voted_for = a.voted_for
  BY <1>4, WithActions DEF IsNode
<1> QED
  BY <1>1, <1>3, <1>4, <1>5, <1>7, <1>8, EvolvesTransitive DEF Alike

\* A node without actions.
LEMMA IdleNode ==
  ASSUME NEW nd, IsRecord(nd)
  PROVE  /\ IsNode([nd EXCEPT !.actions = NoActions])
         /\ [nd EXCEPT !.actions = NoActions].id = nd.id
         /\ [nd EXCEPT !.actions = NoActions].current_term = nd.current_term
         /\ [nd EXCEPT !.actions = NoActions].voted_for = nd.voted_for
<1>1. IsActions(NoActions)
  BY DEF NoActions, IsActions
<1>2. \A id, t : OwnMessages(NoActions, id, t)
  BY DEF NoActions, OwnMessages
<1> QED
  BY <1>1, <1>2, WithActions DEF IsNode

\* A node that has restarted, its actions executed.
LEMMA RestartedNode ==
  ASSUME NEW id, NEW disk, disk.current_term \in Nat
  PROVE  LET nd == [Restart(id, disk) EXCEPT !.actions = NoActions] IN
         /\ IsNode(nd)
         /\ nd.id = id
         /\ nd.current_term = disk.current_term
         /\ nd.voted_for = disk.voted_for
<1>1. /\ IsRecord(Restart(id, disk))
      /\ Restart(id, disk).id = id
      /\ Restart(id, disk).current_term = disk.current_term
      /\ Restart(id, disk).voted_for = disk.voted_for
  BY DEF IsRecord, Restart, SetElectionTimeout, NewNode, NoActions
<1> QED
  BY <1>1, IdleNode

-----------------------------------------------------------------------------
(* What handle_message and handle_election_timeout do. *)

\* A reply may be queued after the node that made it has evolved.
LEMMA QueueReplyEvolves ==
  ASSUME NEW nd, IsNode(nd), NEW a, Evolves(nd, a), NEW to, NEW m,
         Speaks(m, nd.id, nd.current_term)
  PROVE  Evolves(nd, QueueSend(a, to, m))
<1>1. /\ IsNode(a)
      /\ a.id = nd.id
      /\ nd.current_term \in Nat
      /\ a.current_term \in Nat
      /\ nd.current_term <= a.current_term
  BY DEF Evolves, IsNode, IsRecord
<1>2. Speaks(m, a.id, a.current_term)
  BY <1>1, SpeaksLater
<1> QED
  BY <1>1, <1>2, QueueSendEvolves, EvolvesTransitive

LEMMA RequestVoteCallEvolves ==
  ASSUME NEW nd, IsNode(nd), NEW m PROVE Evolves(nd, HandleRequestVoteCall(nd, m))
<1> DEFINE voted == IF nd.voted_for = Nil THEN SetVotedFor(nd, m.from) ELSE nd
           refused == QueueSend(nd, m.from, RequestVoteReply(nd, FALSE))
           yes == RequestVoteReply(nd, TRUE)
           reply == QueueSend(voted, m.from, yes)
           follows == nd.role = "Follower"
           a == DebugAssert(reply, "voter is follower", follows)
           granted == SetElectionTimeout(a)
<1>1. HandleRequestVoteCall(nd, m) \in {refused, nd, voted, granted}
  BY DEF HandleRequestVoteCall
<1>2. Evolves(nd, nd)
  BY EvolvesReflexive
<1>3. Evolves(nd, refused)
  BY <1>2, NewMessagesSpeak, QueueReplyEvolves
<1>4. Evolves(nd, voted)
  BY <1>2, SetVotedForEvolves
<1>5. Speaks(yes, nd.id, nd.current_term)
  BY NewMessagesSpeak
<1> HIDE DEF voted, refused, follows, yes
<1>6. Evolves(nd, reply) /\ IsNode(reply)
  BY <1>4, <1>5, QueueReplyEvolves DEF Evolves
<1> HIDE DEF reply
<1>7. Evolves(nd, a) /\ IsNode(a)
  BY <1>6, DebugAssertEvolves, EvolvesTransitive
<1> HIDE DEF a
<1>8. Evolves(nd, granted)
  BY <1>7, SetElectionTimeoutEvolves, EvolvesTransitive
<1> HIDE DEF granted
<1> QED
  BY <1>1, <1>2, <1>3, <1>4, <1>8

LEMMA RequestVoteReplyEvolves ==
  ASSUME NEW nd, IsNode(nd), NEW m PROVE Evolves(nd, HandleRequestVoteReply(nd, m))
<1> DEFINE voted == [nd EXCEPT !.granted_votes = @ \cup {m.from}]
<1>1. HandleRequestVoteReply(nd, m) \in {nd, voted, TransitionToLeader(voted)}
  BY DEF HandleRequestVoteReply
<1>2. Evolves(nd, nd)
  BY EvolvesReflexive
<1>3. Alike(nd, voted)
  BY DEF Alike, IsNode, IsRecord
<1> HIDE DEF voted
<1>4. Evolves(nd, voted) /\ IsNode(voted)
  BY <1>3, AlikeEvolves DEF Evolves
<1>5. Evolves(nd, TransitionToLeader(voted))
  BY <1>4, TransitionToLeaderEvolves, EvolvesTransitive
<1> QED
  BY <1>1, <1>2, <1>4, <1>5

LEMMA AppendFromLeaderEvolves ==
  ASSUME NEW nd, IsNode(nd), NEW es PROVE Evolves(nd, AppendFromLeader(nd, es).nd)
<1> DEFINE local == nd.log.entries
           delta == StripCommonPrefix(es, local)
           queued == QueueAppend(nd, delta)
           longer == [queued.log EXCEPT !.entries = AppendUnchecked(local, delta)]
           kept == Truncate(local, es.prev.index - local.prev.index - 1)
           shorter == [nd.log EXCEPT !.entries = kept]
           appended == [queued EXCEPT !.log = longer]
           truncated == [nd EXCEPT !.log = shorter]
<1>1. AppendFromLeader(nd, es).nd \in {nd, appended, truncated}
  BY DEF AppendFromLeader
<1> HIDE DEF longer, shorter, delta
<1>2. Evolves(nd, nd)
  BY EvolvesReflexive
<1>3. Evolves(nd, queued) /\ IsNode(queued)
  BY QueueAppendEvolves DEF Evolves
<1> HIDE DEF queued
<1>4. Evolves(nd, appended)
  BY <1>3, LogEvolves, EvolvesTransitive
<1>5. Evolves(nd, truncated)
  BY LogEvolves
<1> HIDE DEF appended, truncated
<1> QED
  BY <1>1, <1>2, <1>4, <1>5

LEMMA AppendEntriesCallEvolves ==
  ASSUME NEW nd, IsNode(nd), NEW m PROVE Evolves(nd, HandleAppendEntriesCall(nd, m))
<1> DEFINE follower == IF nd.role = "Follower" THEN nd ELSE SetRole(nd, "Follower")
           voted == IF follower.voted_for = m.from THEN follower
                    ELSE SetVotedFor(follower, m.from)
           result == AppendFromLeader(voted, m.entries)
           taken == result.nd
           known == Min({m.commit_index, LastIndex(taken.log.entries)})
           commit == Max({taken.commit_index, known})
           updated == IF result.agrees THEN [taken EXCEPT !.commit_index = commit] ELSE taken
           refused == QueueSend(nd, m.from, AppendEntriesReply(nd))
           replied == QueueSend(updated, m.from, AppendEntriesReply(updated))
           outcome == IF nd.role = "Leader" THEN DebugAssert(nd, "two leaders", FALSE)
                      ELSE IF LocalSnapshotMismatch(voted, m.entries)
                      THEN DebugAssert(voted, "LocalSnapshotMismatch", FALSE)
                      ELSE SetElectionTimeout(replied)
<1>1. HandleAppendEntriesCall(nd, m) \in {refused, outcome}
  BY DEF HandleAppendEntriesCall
<1>2. Evolves(nd, refused)
  BY EvolvesReflexive, NewMessagesSpeak, QueueReplyEvolves
<1>3. Evolves(nd, follower) /\ IsNode(follower)
  BY EvolvesReflexive, SetRoleEvolves DEF Evolves
<1> HIDE DEF refused, follower
<1>4. Evolves(nd, voted) /\ IsNode(voted)
  BY <1>3, SetVotedForEvolves, EvolvesTransitive DEF Evolves
<1> HIDE DEF voted
<1>5. Evolves(nd, taken) /\ IsNode(taken)
  BY <1>4, AppendFromLeaderEvolves, EvolvesTransitive DEF Evolves
<1>6. Evolves(nd, updated) /\ IsNode(updated)
  <2> HIDE DEF result, commit
  <2>1. Alike(taken, [taken EXCEPT !.commit_index = commit])
    BY <1>5 DEF Alike, IsNode, IsRecord
  <2>2. Evolves(taken, [taken EXCEPT !.commit_index = commit])
    BY <1>5, <2>1, AlikeEvolves
  <2> QED
    BY <1>5, <2>2, EvolvesTransitive DEF Evolves
<1> HIDE DEF updated
<1>7. Evolves(nd, replied) /\ IsNode(replied)
  BY <1>6, NewMessagesSpeak, QueueSendEvolves, EvolvesTransitive DEF Evolves
<1> HIDE DEF replied
<1>8. Evolves(nd, SetElectionTimeout(replied))
  BY <1>7, SetElectionTimeoutEvolves, EvolvesTransitive
<1>9. /\ Evolves(nd, DebugAssert(nd, "two leaders", FALSE))
      /\ Evolves(nd, DebugAssert(voted, "LocalSnapshotMismatch", FALSE))
  BY <1>4, DebugAssertEvolves, EvolvesTransitive
<1>10. Evolves(nd, outcome)
  BY <1>8, <1>9
<1> HIDE DEF outcome
<1> QED
  BY <1>1, <1>2, <1>10

LEMMA RepairFollowerEvolves ==
  ASSUME NEW nd, IsNode(nd), NEW from, NEW p PROVE Evolves(nd, RepairFollower(nd, from, p))
<1> DEFINE entries == NewEntries(Pos(TermAt(nd.log.entries, p.index), p.index))
           call == AppendEntriesCall(nd, entries)
<1>1. RepairFollower(nd, from, p)
        \in {QueueSend(nd, from, call), nd, QueueInstallSnapshot(nd, from)}
  BY DEF RepairFollower
<1>2. Evolves(nd, QueueSend(nd, from, call))
  BY NewMessagesSpeak, QueueSendEvolves
<1> HIDE DEF call
<1> QED
  BY <1>1, <1>2, EvolvesReflexive, QueueInstallSnapshotEvolves

LEMMA AppendEntriesReplyEvolves ==
  ASSUME NEW nd, IsNode(nd), NEW m PROVE Evolves(nd, HandleAppendEntriesReply(nd, m))
<1> DEFINE p == m.last_position
           matched == [nd EXCEPT !.followers[m.from] = p.index]
           advanced == IF nd.followers[m.from] = p.index THEN nd
                       ELSE IF nd.commit_index < p.index
                       THEN UpdateCommitIndexIfPossible(matched)
                       ELSE matched
           call == AppendEntriesCall(advanced, Since(advanced.log.entries, p))
           upToDate == p.index = LastIndex(nd.log.entries)
           answered == IF upToDate THEN advanced ELSE QueueSend(advanced, m.from, call)
<1>1. HandleAppendEntriesReply(nd, m) \in {nd, RepairFollower(nd, m.from, p), answered}
  BY DEF HandleAppendEntriesReply
<1>2. Evolves(nd, nd) /\ Evolves(nd, RepairFollower(nd, m.from, p))
  BY EvolvesReflexive, RepairFollowerEvolves
<1>3. Evolves(nd, matched) /\ IsNode(matched)
  <2> DEFINE fs == [nd.followers EXCEPT ![m.from] = p.index]
  <2>1. matched = [nd EXCEPT !.followers = fs]
    OBVIOUS
  <2> HIDE DEF fs, matched
  <2>2. Alike(nd, [nd EXCEPT !.followers = fs])
    BY DEF Alike, IsNode, IsRecord
  <2> QED
    BY <2>1, <2>2, AlikeEvolves DEF Evolves
<1> HIDE DEF matched
<1>4. Evolves(nd, UpdateCommitIndexIfPossible(matched))
  BY <1>3, UpdateCommitIndexEvolves, EvolvesTransitive
<1>5. Evolves(nd, advanced) /\ IsNode(advanced)
  BY <1>2, <1>3, <1>4 DEF Evolves
<1> HIDE DEF advanced, upToDate
<1>6. Evolves(nd, QueueSend(advanced, m.from, call))
  BY <1>5, NewMessagesSpeak, QueueSendEvolves, EvolvesTransitive
<1> HIDE DEF call
<1>7. Evolves(nd, answered)
  BY <1>5, <1>6
<1> HIDE DEF answered
<1> QED
  BY <1>1, <1>2, <1>7

-----------------------------------------------------------------------------
(* The entry points. *)

LEMMA HandleMessageEvolves ==
  ASSUME NEW nd, IsNode(nd), NEW m, IsMessage(m) PROVE Evolves(nd, HandleMessage(nd, m))
<1> DEFINE seen == ObserveTerm(nd, m.term)
<1>1. m.term \in Nat
  BY DEF IsMessage
<1>2. Evolves(nd, seen) /\ IsNode(seen)
  BY <1>1, ObserveTermEvolves DEF Evolves
<1>3. m.type \in {"RequestVoteCall", "RequestVoteReply", "AppendEntriesCall", "AppendEntriesReply"}
  BY DEF IsMessage
<1>4. HandleMessage(nd, m)
        \in {nd, HandleRequestVoteCall(seen, m), HandleRequestVoteReply(seen, m),
             HandleAppendEntriesCall(seen, m), HandleAppendEntriesReply(seen, m)}
  BY <1>3 DEF HandleMessage, Dispatch
<1> HIDE DEF seen
<1>5. /\ Evolves(seen, HandleRequestVoteCall(seen, m))
      /\ Evolves(seen, HandleRequestVoteReply(seen, m))
      /\ Evolves(seen, HandleAppendEntriesCall(seen, m))
      /\ Evolves(seen, HandleAppendEntriesReply(seen, m))
  BY <1>2, RequestVoteCallEvolves, RequestVoteReplyEvolves, AppendEntriesCallEvolves,
     AppendEntriesReplyEvolves
<1>6. \A nd2 : Evolves(seen, nd2) => Evolves(nd, nd2)
  BY <1>2, EvolvesTransitive
<1> QED
  BY <1>4, <1>5, <1>6, EvolvesReflexive

LEMMA HandleElectionTimeoutEvolves ==
  ASSUME NEW nd, IsNode(nd) PROVE Evolves(nd, HandleElectionTimeout(nd))
<1>1. HandleElectionTimeout(nd) \in {nd, Heartbeat(nd), TransitionToCandidate(nd)}
  BY DEF HandleElectionTimeout
<1> QED
  BY <1>1, EvolvesReflexive, HeartbeatEvolves, TransitionToCandidateEvolves

LEMMA CreatedEvolves ==
  ASSUME NEW nd, IsNode(nd), NEW voters PROVE Evolves(nd, Created(nd, voters))
<1> DEFINE config == [EmptyConfig EXCEPT !.voters = voters]
           e == ConfigEntry(0, config)
           queued == QueueAppend(nd, [prev |-> ZERO, ents |-> <<e>>])
           log == [queued.log EXCEPT !.entries = Push(@, e)]
           created == [queued EXCEPT !.log = log]
<1>1. Created(nd, voters) \in {created, TransitionToCandidate(created)}
  BY DEF Created
<1> HIDE DEF config, e
<1>2. Evolves(nd, queued) /\ IsNode(queued)
  BY QueueAppendEvolves DEF Evolves
<1> HIDE DEF queued, log
<1>3. Evolves(nd, created) /\ IsNode(created)
  BY <1>2, LogEvolves, EvolvesTransitive DEF Evolves
<1> HIDE DEF created
<1>4. Evolves(nd, TransitionToCandidate(created))
  BY <1>3, TransitionToCandidateEvolves, EvolvesTransitive
<1> QED
  BY <1>1, <1>3, <1>4

-----------------------------------------------------------------------------
(* Votes, roles and messages.                                              *)

\* The configurations a log may hold: voters learn nothing twice, and a joint
\* consensus may be finalized.
Closed(C) ==
  \A c \in C :
    /\ c = [voters |-> c.voters, new_voters |-> c.new_voters, non_voters |-> c.non_voters]
    /\ c.non_voters \cap UniqueVoters(c) = {}
    /\ IsJointConsensus(c) => FinalConfig(c) \in C

\* Some configuration makes a leader step down, or elects the node alone.
Removable(id, C) == \E c \in C : ~IsJointConsensus(c) /\ id \notin c.voters
Solo(id, C) == \E c \in C : UniqueVoters(c) = {id}

\* The debug_asserts that depend on one node.
NodeAssertions ==
  {"term regression", "leader vote", "voter is follower", "merge term", "still leader",
   "nested joint consensus", "final config"}

MessageOK(m, C) ==
  /\ m.type = "AppendEntriesCall" => m.entries \in Entries(C) /\ m.commit_index \in Nat
  /\ m.type = "AppendEntriesReply" => m.last_position \in Position

QueuesOK(q, C) ==
  /\ q.append_log_entries \subseteq Writes(C)
  /\ \A m \in q.broadcast_message : IsCall(m) /\ MessageOK(m, C)
  /\ \A d \in DOMAIN q.send_messages : MessageOK(q.send_messages[d], C)

\* The node may have called an election.
Stands(nd, C) ==
  /\ nd.voted_for = nd.id
  /\ LastIndex(nd.log.entries) > 0
  /\ \E c \in C : IsVoter(c, nd.id)

Sound(nd, C) ==
  /\ IsNode(nd)
  /\ nd.id # Nil
  /\ nd.log \in Logs(C)
  /\ nd.commit_index \in Nat
  /\ QueuesOK(nd.actions, C)
  /\ nd.role \in {"Follower", "Candidate", "Leader"}
  /\ nd.role # "Follower" => Stands(nd, C)
  /\ \A f \in DOMAIN nd.followers : nd.followers[f] \in Nat
  /\ nd.broken \cap NodeAssertions = {}

-----------------------------------------------------------------------------
(* What a queue says. *)

\* The messages whose sending commits a node to something.
Binding == {"RequestVoteCall", "RequestVoteReply", "AppendEntriesCall"}

Tells(m, type, t) ==
  m.type = type /\ m.term = t /\ (type = "RequestVoteReply" => m.vote_granted)

Said(q, type, t, to) ==
  \/ \E m \in q.broadcast_message : Tells(m, type, t)
  \/ to \in DOMAIN q.send_messages /\ Tells(q.send_messages[to], type, t)

\* Nothing is said in q2 that q does not say.
Quiet(q, q2) ==
  \A type \in Binding : \A t, to : Said(q2, type, t, to) => Said(q, type, t, to)

-----------------------------------------------------------------------------
(* Parts of a node that a call leaves alone. *)

SameState(nd, nd2) ==
  /\ nd2.id = nd.id
  /\ nd2.voted_for = nd.voted_for
  /\ nd2.current_term = nd.current_term
  /\ nd2.log = nd.log
  /\ nd2.commit_index = nd.commit_index
  /\ nd2.role = nd.role
  /\ nd2.granted_votes = nd.granted_votes
  /\ nd2.followers = nd.followers

SameQueues(nd, nd2) ==
  /\ nd2.actions.append_log_entries = nd.actions.append_log_entries
  /\ nd2.actions.broadcast_message = nd.actions.broadcast_message
  /\ nd2.actions.send_messages = nd.actions.send_messages

\* A debug_assert fails in nd2 only if it failed in nd or is the one named.
Breaks(nd, nd2, names) == nd2.broken \subseteq nd.broken \cup names

\* The call changes nothing but queues, which say nothing new.
Idles(nd, nd2, C) ==
  /\ Sound(nd2, C)
  /\ Evolves(nd, nd2)
  /\ SameState(nd, nd2)
  /\ Quiet(nd.actions, nd2.actions)
  /\ "two leaders" \in nd2.broken => "two leaders" \in nd.broken

LEMMA QuietReflexive == ASSUME NEW q PROVE Quiet(q, q)
  BY DEF Quiet

LEMMA QuietSame ==
  ASSUME NEW q, NEW q2, q2.broadcast_message = q.broadcast_message,
         q2.send_messages = q.send_messages
  PROVE  Quiet(q, q2)
  BY DEF Quiet, Said

LEMMA SoundSame ==
  ASSUME NEW C, NEW nd, Sound(nd, C), NEW nd2, IsNode(nd2), SameState(nd, nd2),
         QueuesOK(nd2.actions, C), nd2.broken \cap NodeAssertions = {}
  PROVE  Sound(nd2, C)
  BY DEF Sound, SameState, Stands

LEMMA QueuesSame ==
  ASSUME NEW C, NEW nd, NEW nd2, QueuesOK(nd.actions, C), SameQueues(nd, nd2)
  PROVE  QueuesOK(nd2.actions, C)
  BY DEF QueuesOK, SameQueues

-----------------------------------------------------------------------------
(* Changes of one field. *)

LEMMA TimerFacts ==
  ASSUME NEW nd, IsNode(nd)
  PROVE  LET nd2 == SetElectionTimeout(nd) IN
         SameState(nd, nd2) /\ SameQueues(nd, nd2) /\ nd2.broken = nd.broken
  BY DEF IsNode, IsRecord, IsActions, SetElectionTimeout, SameState, SameQueues

LEMMA AssertFacts ==
  ASSUME NEW nd, IsNode(nd), NEW name, NEW holds \in BOOLEAN
  PROVE  LET nd2 == DebugAssert(nd, name, holds) IN
         /\ SameState(nd, nd2)
         /\ nd2.actions = nd.actions
         /\ holds => nd2 = nd
         /\ Breaks(nd, nd2, {name})
  BY DEF IsNode, IsRecord, DebugAssert, SameState, Breaks

LEMMA VotedForFacts ==
  ASSUME NEW nd, IsNode(nd), NEW v
  PROVE  LET nd2 == SetVotedFor(nd, v) IN
         /\ nd2.voted_for = v
         /\ nd2.id = nd.id
         /\ nd2.current_term = nd.current_term
         /\ nd2.log = nd.log
         /\ nd2.commit_index = nd.commit_index
         /\ nd2.role = nd.role
         /\ nd2.granted_votes = nd.granted_votes
         /\ nd2.followers = nd.followers
         /\ SameQueues(nd, nd2)
         /\ nd2.broken = nd.broken
  BY DEF IsNode, IsRecord, IsActions, SetVotedFor, SameState, SameQueues

LEMMA CurrentTermFacts ==
  ASSUME NEW nd, IsNode(nd), NEW t
  PROVE  LET nd2 == SetCurrentTerm(nd, t) IN
         /\ nd2.voted_for = nd.voted_for
         /\ nd2.id = nd.id
         /\ nd2.current_term = t
         /\ nd2.log = nd.log
         /\ nd2.commit_index = nd.commit_index
         /\ nd2.role = nd.role
         /\ nd2.granted_votes = nd.granted_votes
         /\ nd2.followers = nd.followers
         /\ SameQueues(nd, nd2)
         /\ nd2.broken = nd.broken
  BY DEF IsNode, IsRecord, IsActions, SetCurrentTerm, SameQueues

LEMMA RoleFacts ==
  ASSUME NEW nd, IsNode(nd), NEW role
  PROVE  LET nd2 == SetRole(nd, role) IN
         /\ nd2.voted_for = nd.voted_for
         /\ nd2.id = nd.id
         /\ nd2.current_term = nd.current_term
         /\ nd2.log = nd.log
         /\ nd2.commit_index = nd.commit_index
         /\ nd2.role = role
         /\ nd2.granted_votes = {}
         /\ nd2.followers = <<>>
         /\ nd2.actions = nd.actions
         /\ nd2.broken = nd.broken
  BY DEF IsNode, IsRecord, SetRole

\* The timer.
LEMMA TimerIdles ==
  ASSUME NEW C, NEW nd, Sound(nd, C) PROVE Idles(nd, SetElectionTimeout(nd), C)
<1> DEFINE nd2 == SetElectionTimeout(nd)
<1>1. Evolves(nd, nd2) /\ IsNode(nd2)
  BY SetElectionTimeoutEvolves DEF Sound, Evolves
<1>2. SameState(nd, nd2) /\ SameQueues(nd, nd2) /\ nd2.broken = nd.broken
  BY TimerFacts DEF Sound
<1> HIDE DEF nd2
<1>3. Sound(nd2, C)
  BY <1>1, <1>2, SoundSame, QueuesSame DEF Sound
<1>4. Quiet(nd.actions, nd2.actions)
  BY <1>2, QuietSame DEF SameQueues
<1> QED
  BY <1>1, <1>2, <1>3, <1>4 DEF Idles, nd2

\* An assertion that holds, or that is not about one node.
LEMMA AssertIdles ==
  ASSUME NEW C, NEW nd, Sound(nd, C), NEW name, NEW holds \in BOOLEAN,
         holds \/ name \notin NodeAssertions \cup {"two leaders"}
  PROVE  Idles(nd, DebugAssert(nd, name, holds), C)
<1> DEFINE nd2 == DebugAssert(nd, name, holds)
<1>1. Evolves(nd, nd2) /\ IsNode(nd2)
  BY DebugAssertEvolves DEF Sound
<1>2. SameState(nd, nd2) /\ nd2.actions = nd.actions /\ (holds => nd2 = nd)
      /\ Breaks(nd, nd2, {name})
  BY AssertFacts DEF Sound
<1> HIDE DEF nd2
<1>3. Sound(nd2, C)
  <2>1. nd2.broken \cap NodeAssertions = {}
    BY <1>2 DEF Breaks, Sound
  <2> QED
    BY <1>1, <1>2, <2>1, SoundSame DEF Sound
<1>4. "two leaders" \in nd2.broken => "two leaders" \in nd.broken
  BY <1>2 DEF Breaks
<1>5. Quiet(nd.actions, nd2.actions)
  BY <1>2, QuietReflexive
<1> QED
  BY <1>1, <1>2, <1>3, <1>4, <1>5 DEF Idles, nd2

LEMMA IdlesReflexive == ASSUME NEW C, NEW nd, Sound(nd, C) PROVE Idles(nd, nd, C)
  BY EvolvesReflexive, QuietReflexive DEF Idles, Sound, SameState

LEMMA IdlesTransitive ==
  ASSUME NEW C, NEW a, NEW b, NEW c, Sound(a, C), Idles(a, b, C), Idles(b, c, C)
  PROVE  Idles(a, c, C)
<1>1. Evolves(a, c)
  BY EvolvesTransitive DEF Idles, Sound
<1>2. SameState(a, c)
  BY DEF Idles, SameState
<1>3. Quiet(a.actions, c.actions)
  BY DEF Idles, Quiet
<1> QED
  BY <1>1, <1>2, <1>3 DEF Idles

-----------------------------------------------------------------------------
(* Queues. *)

\* Everything a node says is of its own term or of an earlier one.
LEMMA OwnTerms ==
  ASSUME NEW nd, IsNode(nd)
  PROVE  /\ \A m \in nd.actions.broadcast_message : m.term <= nd.current_term
         /\ \A d \in DOMAIN nd.actions.send_messages :
              nd.actions.send_messages[d].term <= nd.current_term
  BY DEF IsNode, OwnMessages, Speaks

\* A queued message that absorbs another says what the other says.
LEMMA MergeFacts ==
  ASSUME NEW C, NEW m0, MessageOK(m0, C), NEW m1, MessageOK(m1, C), IsMessage(m1)
  PROVE  LET m == Merge(m0, m1) IN
         /\ MessageOK(m, C)
         /\ m.type = m1.type
         /\ m.term = m1.term
         /\ \A type, t : Tells(m, type, t) => Tells(m1, type, t)
<1>1. CASE Merge(m0, m1) = m1
  BY <1>1
<1>2. CASE Merge(m0, m1) # m1
  <2> DEFINE entries == AppendUnchecked(m0.entries, m1.entries)
             m == [m1 EXCEPT !.entries = entries]
  <2>1. /\ m0.type = "AppendEntriesCall"
        /\ m1.type = "AppendEntriesCall"
        /\ Contains(m0.entries, m1.entries.prev)
        /\ Merge(m0, m1) = m
    BY <1>2 DEF Merge
  <2>2. m1 \in [type : {"AppendEntriesCall"}, from : {m1.from}, term : Nat,
                commit_index : {m1.commit_index}, entries : {m1.entries}]
    BY <2>1 DEF IsMessage
  <2>3. entries \in Entries(C)
    <3>1. m0.entries \in Entries(C) /\ m1.entries \in Entries(C)
      BY <2>1 DEF MessageOK
    <3>2. m0.entries.prev.index = 0 /\ m0.entries.ents = <<>> => m1.entries.prev.index = 0
      <4>1. m1.entries.prev.index \in Nat /\ m1.entries.prev.index <= LastIndex(m0.entries)
        BY <2>1, <3>1, TermAtTyped DEF Contains
      <4>2. LastIndex(m0.entries) = m0.entries.prev.index + Len(m0.entries.ents)
            /\ (m0.entries.ents = <<>> <=> Len(m0.entries.ents) = 0)
        BY <3>1, EntriesFacts
      <4> QED
        BY <4>1, <4>2
    <3> QED
      BY <3>1, <3>2, AppendUncheckedTyped
  <2> HIDE DEF entries
  <2>4. m.type = "AppendEntriesCall" /\ m.term = m1.term /\ m.commit_index = m1.commit_index
        /\ m.entries = entries
    BY <2>2
  <2> HIDE DEF m
  <2> QED
    BY <2>1, <2>3, <2>4 DEF MessageOK, Tells
<1> QED
  BY <1>1, <1>2

\* A write that is queued.
LEMMA QueueAppendIdles ==
  ASSUME NEW C, NEW nd, Sound(nd, C), NEW entries \in Writes(C)
  PROVE  Idles(nd, QueueAppend(nd, entries), C)
<1> DEFINE merged == {AppendUnchecked(e, entries) : e \in nd.actions.append_log_entries}
           held == \A e \in nd.actions.append_log_entries : Contains(e, entries.prev)
           a == DebugAssert(nd, "append anchor", held)
           writes == IF merged = {} THEN {entries} ELSE merged
           nd2 == [a EXCEPT !.actions.append_log_entries = writes]
<1>1. QueueAppend(nd, entries) = nd2
  BY DEF QueueAppend
<1>2. Evolves(nd, nd2) /\ IsNode(nd2)
  <2>1. Evolves(nd, QueueAppend(nd, entries))
    BY QueueAppendEvolves DEF Sound
  <2> HIDE DEF nd2
  <2> QED
    BY <1>1, <2>1 DEF Evolves
<1>3. writes \subseteq Writes(C)
  <2>1. ASSUME NEW e \in nd.actions.append_log_entries
        PROVE  AppendUnchecked(e, entries) \in Writes(C)
    <3>1. e \in Writes(C)
      BY DEF Sound, QueuesOK
    <3>2. /\ e \in Entries(C) /\ entries \in Entries(C)
          /\ ~(e.prev.index = 0 /\ e.ents = <<>>)
          /\ entries.prev.index = 0 => entries.ents # <<>>
      BY <3>1 DEF Writes
    <3> DEFINE s == AppendUnchecked(e, entries)
    <3>3. /\ s \in Entries(C)
          /\ s.prev = e.prev
          /\ e.prev.index = 0 /\ s.ents = <<>> => entries.ents = <<>> /\ entries.prev.index = 0
      BY <3>2, AppendUncheckedTyped
    <3> HIDE DEF s
    <3>4. s \in Writes(C)
      BY <3>2, <3>3 DEF Writes
    <3> QED
      BY <3>4 DEF s
  <2> QED
    BY <2>1
<1>4. Idles(nd, a, C)
  <2>1. held \in BOOLEAN
    OBVIOUS
  <2> HIDE DEF held
  <2> QED
    BY <2>1, AssertIdles DEF NodeAssertions
<1> HIDE DEF a, writes
<1>5. /\ SameState(a, nd2)
      /\ nd2.broken = a.broken
      /\ nd2.actions.append_log_entries = writes
      /\ nd2.actions.broadcast_message = a.actions.broadcast_message
      /\ nd2.actions.send_messages = a.actions.send_messages
  BY <1>4 DEF Idles, Sound, IsNode, IsRecord, IsActions, SameState
<1> HIDE DEF nd2
<1>6. QueuesOK(nd2.actions, C) /\ Quiet(a.actions, nd2.actions)
  BY <1>3, <1>4, <1>5, QuietSame DEF Idles, Sound, QueuesOK
<1>7. Sound(nd2, C)
  BY <1>2, <1>4, <1>5, <1>6, SoundSame DEF Idles, Sound
<1>8. SameState(nd, nd2)
  BY <1>4, <1>5 DEF Idles, SameState
<1>9. Quiet(nd.actions, nd2.actions)
  BY <1>4, <1>6 DEF Idles, Quiet
<1> QED
  BY <1>1, <1>2, <1>4, <1>5, <1>7, <1>8, <1>9 DEF Idles

\* The call queues m and changes nothing else.
Utters(nd, nd2, C, m) ==
  /\ Sound(nd2, C)
  /\ Evolves(nd, nd2)
  /\ SameState(nd, nd2)
  /\ \A type \in Binding : \A t, to :
       Said(nd2.actions, type, t, to) => Said(nd.actions, type, t, to) \/ Tells(m, type, t)
  /\ "two leaders" \in nd2.broken => "two leaders" \in nd.broken

\* A message that is broadcast.
LEMMA QueueBroadcastUtters ==
  ASSUME NEW C, NEW nd, Sound(nd, C), NEW m, IsCall(m), MessageOK(m, C),
         Speaks(m, nd.id, nd.current_term), m.term = nd.current_term
  PROVE  Utters(nd, QueueBroadcast(nd, m), C, m)
<1> DEFINE merged == {Merge(p, m) : p \in nd.actions.broadcast_message}
           held == \A p \in nd.actions.broadcast_message : p.term <= m.term
           a == DebugAssert(nd, "merge term", held)
           kept == IF merged = {} THEN {m} ELSE merged
           nd2 == [a EXCEPT !.actions.broadcast_message = kept]
<1>1. QueueBroadcast(nd, m) = nd2
  BY DEF QueueBroadcast
<1>2. Evolves(nd, nd2) /\ IsNode(nd2)
  <2>1. Evolves(nd, QueueBroadcast(nd, m))
    BY QueueBroadcastEvolves DEF Sound
  <2> HIDE DEF nd2
  <2> QED
    BY <1>1, <2>1 DEF Evolves
<1>3. held
  BY OwnTerms DEF Sound
<1>4. a = nd
  BY <1>3 DEF DebugAssert
<1>5. \A x \in kept : /\ IsCall(x)
                      /\ MessageOK(x, C)
                      /\ \A type, t : Tells(x, type, t) => Tells(m, type, t)
  <2>1. ASSUME NEW p \in nd.actions.broadcast_message
        PROVE  LET x == Merge(p, m) IN
               /\ IsCall(x)
               /\ MessageOK(x, C)
               /\ \A type, t : Tells(x, type, t) => Tells(m, type, t)
    <3>1. MessageOK(p, C) /\ IsMessage(m)
      BY DEF Sound, QueuesOK, Speaks
    <3> QED
      BY <3>1, MergeFacts DEF IsCall
  <2> QED
    BY <2>1
<1> HIDE DEF held, a, merged, kept
<1>6. /\ SameState(nd, nd2)
      /\ nd2.broken = nd.broken
      /\ nd2.actions.append_log_entries = nd.actions.append_log_entries
      /\ nd2.actions.broadcast_message = kept
      /\ nd2.actions.send_messages = nd.actions.send_messages
  BY <1>4 DEF Sound, IsNode, IsRecord, IsActions, SameState
<1> HIDE DEF nd2
<1>7. QueuesOK(nd2.actions, C)
  BY <1>5, <1>6 DEF Sound, QueuesOK
<1>8. Sound(nd2, C)
  BY <1>2, <1>6, <1>7, SoundSame DEF Sound
<1>9. ASSUME NEW type \in Binding, NEW t, NEW to, Said(nd2.actions, type, t, to)
      PROVE  Said(nd.actions, type, t, to) \/ Tells(m, type, t)
  BY <1>5, <1>6, <1>9 DEF Said
<1> QED
  BY <1>1, <1>2, <1>6, <1>8, <1>9 DEF Utters

\* A message to one destination.
LEMMA QueueSendUtters ==
  ASSUME NEW C, NEW nd, Sound(nd, C), NEW dest, NEW m, MessageOK(m, C),
         Speaks(m, nd.id, nd.current_term), m.term = nd.current_term
  PROVE  LET nd2 == QueueSend(nd, dest, m) IN
         /\ Utters(nd, nd2, C, m)
         /\ \A type \in Binding : \A t, to :
              Said(nd2.actions, type, t, to)
              => Said(nd.actions, type, t, to) \/ (to = dest /\ Tells(m, type, t))
<1> DEFINE queued == nd.actions.send_messages
           old == {queued[d] : d \in DOMAIN queued \cap {dest}}
           merged == IF old = {} THEN m ELSE Merge(queued[dest], m)
           held == \A x \in old : x.term <= m.term
           a == DebugAssert(nd, "merge term", held)
           kept == [d \in DOMAIN queued \cup {dest} |-> IF d = dest THEN merged ELSE queued[d]]
           nd2 == [a EXCEPT !.actions.send_messages = kept]
<1>1. QueueSend(nd, dest, m) = nd2
  BY DEF QueueSend
<1>2. Evolves(nd, nd2) /\ IsNode(nd2)
  <2>1. Evolves(nd, QueueSend(nd, dest, m))
    BY QueueSendEvolves DEF Sound
  <2> HIDE DEF nd2
  <2> QED
    BY <1>1, <2>1 DEF Evolves
<1>3. held
  BY OwnTerms DEF Sound
<1>4. a = nd
  BY <1>3 DEF DebugAssert
<1>5. MessageOK(merged, C) /\ \A type, t : Tells(merged, type, t) => Tells(m, type, t)
  <2>1. CASE dest \in DOMAIN queued
    <3>1. MessageOK(queued[dest], C) /\ IsMessage(m)
      BY <2>1 DEF Sound, QueuesOK, Speaks
    <3>2. merged = Merge(queued[dest], m)
      BY <2>1
    <3> HIDE DEF merged, queued
    <3> QED
      BY <3>1, <3>2, MergeFacts
  <2>2. CASE dest \notin DOMAIN queued
    BY <2>2
  <2> QED
    BY <2>1, <2>2
<1> HIDE DEF merged
<1>6. \A d \in DOMAIN kept : kept[d] = IF d = dest THEN merged ELSE queued[d]
  OBVIOUS
<1>7. DOMAIN kept = DOMAIN queued \cup {dest}
  OBVIOUS
<1> HIDE DEF held, a, kept
<1>8. /\ SameState(nd, nd2)
      /\ nd2.broken = nd.broken
      /\ nd2.actions.append_log_entries = nd.actions.append_log_entries
      /\ nd2.actions.broadcast_message = nd.actions.broadcast_message
      /\ nd2.actions.send_messages = kept
  BY <1>4 DEF Sound, IsNode, IsRecord, IsActions, SameState
<1> HIDE DEF nd2
<1>9. QueuesOK(nd2.actions, C)
  BY <1>5, <1>6, <1>7, <1>8 DEF Sound, QueuesOK
<1>10. Sound(nd2, C)
  BY <1>2, <1>8, <1>9, SoundSame DEF Sound
<1>11. ASSUME NEW type \in Binding, NEW t, NEW to, Said(nd2.actions, type, t, to)
       PROVE  Said(nd.actions, type, t, to) \/ (to = dest /\ Tells(m, type, t))
  BY <1>5, <1>6, <1>7, <1>8, <1>11 DEF Said
<1> QED
  BY <1>1, <1>2, <1>8, <1>10, <1>11 DEF Utters

LEMMA QueueInstallSnapshotIdles ==
  ASSUME NEW C, NEW nd, Sound(nd, C), NEW to
  PROVE  Idles(nd, QueueInstallSnapshot(nd, to), C)
<1> DEFINE nd2 == QueueInstallSnapshot(nd, to)
<1>1. Evolves(nd, nd2) /\ IsNode(nd2)
  BY QueueInstallSnapshotEvolves DEF Sound, Evolves
<1>2. SameState(nd, nd2) /\ SameQueues(nd, nd2) /\ nd2.broken = nd.broken
  BY DEF Sound, IsNode, IsRecord, IsActions, QueueInstallSnapshot, SameState, SameQueues
<1> HIDE DEF nd2
<1>3. Sound(nd2, C)
  BY <1>1, <1>2, SoundSame, QueuesSame DEF Sound
<1>4. Quiet(nd.actions, nd2.actions)
  BY <1>2, QuietSame DEF SameQueues
<1> QED
  BY <1>1, <1>2, <1>3, <1>4 DEF Idles, nd2

-----------------------------------------------------------------------------
(* Stepping down. *)

\* nd2 has the log of nd and queues nothing that nd does not.
Spares(nd, nd2) ==
  /\ nd2.log = nd.log
  /\ nd2.actions.append_log_entries = nd.actions.append_log_entries
  /\ nd2.actions.broadcast_message \subseteq nd.actions.broadcast_message
  /\ \A d \in DOMAIN nd2.actions.send_messages :
       /\ d \in DOMAIN nd.actions.send_messages
       /\ nd2.actions.send_messages[d] = nd.actions.send_messages[d]

\* The node has become a follower of the term and has forgotten its vote.
Demoted(nd, nd2, C, term) ==
  /\ Sound(nd2, C)
  /\ Evolves(nd, nd2)
  /\ nd2.current_term = term
  /\ nd2.voted_for = Nil
  /\ nd2.role = "Follower"
  /\ nd2.followers = <<>>
  /\ nd2.log = nd.log
  /\ nd2.commit_index = nd.commit_index
  /\ Spares(nd, nd2)
  /\ Quiet(nd.actions, nd2.actions)
  /\ "two leaders" \in nd2.broken => "two leaders" \in nd.broken

LEMMA TransitionToFollowerDemotes ==
  ASSUME NEW C, NEW nd, Sound(nd, C), NEW term \in Nat, nd.current_term <= term
  PROVE  Demoted(nd, TransitionToFollower(nd, term), C, term)
<1> DEFINE armed == IF nd.role = "Follower" THEN nd ELSE SetElectionTimeout(nd)
           entered == SetCurrentTerm(armed, term)
           unvoted == SetVotedFor(entered, Nil)
           demoted == SetRole(unvoted, "Follower")
           held == nd.current_term <= term
           a == DebugAssert(demoted, "term regression", held)
           stale(m) == IsCall(m) /\ m.term < term
           sends == demoted.actions.send_messages
           keptTo == {d \in DOMAIN sends : ~stale(sends[d])}
           keptSends == [d \in keptTo |-> sends[d]]
           keptBroadcast == {m \in a.actions.broadcast_message : ~stale(m)}
           nd2 == [a EXCEPT !.actions.broadcast_message = keptBroadcast,
                            !.actions.send_messages = keptSends]
<1>1. TransitionToFollower(nd, term) = nd2
  BY DEF TransitionToFollower
<1>2. Evolves(nd, nd2) /\ IsNode(nd2)
  <2>1. Evolves(nd, TransitionToFollower(nd, term))
    BY TransitionToFollowerEvolves DEF Sound
  <2> HIDE DEF nd2
  <2> QED
    BY <1>1, <2>1 DEF Evolves
<1>3. /\ IsNode(armed)
      /\ SameState(nd, armed)
      /\ SameQueues(nd, armed)
      /\ armed.broken = nd.broken
  <2>1. IsNode(nd)
    BY DEF Sound
  <2>2. IsNode(SetElectionTimeout(nd))
    BY <2>1, SetElectionTimeoutEvolves DEF Evolves
  <2>3. /\ SameState(nd, SetElectionTimeout(nd))
        /\ SameQueues(nd, SetElectionTimeout(nd))
        /\ SetElectionTimeout(nd).broken = nd.broken
    BY <2>1, TimerFacts
  <2>4. SameState(nd, nd) /\ SameQueues(nd, nd)
    BY DEF SameState, SameQueues
  <2> QED
    BY <2>1, <2>2, <2>3, <2>4
<1> HIDE DEF armed
<1>4. /\ IsNode(entered)
      /\ entered.id = nd.id
      /\ entered.current_term = term
      /\ entered.log = nd.log
      /\ entered.commit_index = nd.commit_index
      /\ SameQueues(nd, entered)
      /\ entered.broken = nd.broken
  <2>1. armed.current_term <= term
    BY <1>3 DEF SameState
  <2>2. IsNode(entered)
    BY <1>3, <2>1, SetCurrentTermEvolves DEF Evolves
  <2> QED
    BY <1>3, <2>2, CurrentTermFacts DEF SameState, SameQueues
<1> HIDE DEF entered
<1>5. /\ IsNode(unvoted)
      /\ unvoted.id = nd.id
      /\ unvoted.voted_for = Nil
      /\ unvoted.current_term = term
      /\ unvoted.log = nd.log
      /\ unvoted.commit_index = nd.commit_index
      /\ SameQueues(nd, unvoted)
      /\ unvoted.broken = nd.broken
  <2>1. IsNode(unvoted)
    BY <1>4, SetVotedForEvolves DEF Evolves
  <2> QED
    BY <1>4, <2>1, VotedForFacts DEF SameQueues
<1> HIDE DEF unvoted
<1>6. /\ IsNode(demoted)
      /\ demoted.id = nd.id
      /\ demoted.voted_for = Nil
      /\ demoted.current_term = term
      /\ demoted.log = nd.log
      /\ demoted.commit_index = nd.commit_index
      /\ demoted.role = "Follower"
      /\ demoted.followers = <<>>
      /\ SameQueues(nd, demoted)
      /\ demoted.broken = nd.broken
  <2>1. IsNode(demoted)
    BY <1>5, SetRoleEvolves DEF Evolves
  <2> QED
    BY <1>5, <2>1, RoleFacts DEF SameQueues
<1>7. a = demoted
  BY DEF DebugAssert
<1> HIDE DEF demoted, a
<1>8. /\ keptBroadcast \subseteq nd.actions.broadcast_message
      /\ \A d \in DOMAIN keptSends :
           d \in DOMAIN nd.actions.send_messages
             /\ keptSends[d] = nd.actions.send_messages[d]
  BY <1>6, <1>7 DEF SameQueues
<1> HIDE DEF keptBroadcast, keptSends
<1>9. /\ nd2.voted_for = Nil
      /\ nd2.id = nd.id
      /\ nd2.current_term = term
      /\ nd2.log = nd.log
      /\ nd2.commit_index = nd.commit_index
      /\ nd2.role = "Follower"
      /\ nd2.followers = <<>>
      /\ nd2.broken = nd.broken
      /\ nd2.actions.append_log_entries = nd.actions.append_log_entries
      /\ nd2.actions.broadcast_message = keptBroadcast
      /\ nd2.actions.send_messages = keptSends
  BY <1>6, <1>7 DEF IsNode, IsRecord, IsActions, SameQueues
<1> HIDE DEF nd2
<1>10. QueuesOK(nd2.actions, C)
  BY <1>8, <1>9 DEF Sound, QueuesOK
<1>11. Quiet(nd.actions, nd2.actions)
  BY <1>8, <1>9 DEF Quiet, Said
<1>12. Sound(nd2, C)
  BY <1>2, <1>9, <1>10 DEF Sound
<1>13. Spares(nd, nd2)
  BY <1>8, <1>9 DEF Spares
<1> QED
  BY <1>1, <1>2, <1>9, <1>11, <1>12, <1>13 DEF Demoted

-----------------------------------------------------------------------------
(* What a leader does in its term. *)

FollowersRise(nd, nd2) ==
  \A f \in DOMAIN nd.followers \cap DOMAIN nd2.followers : nd.followers[f] <= nd2.followers[f]

\* Nothing binding is said in q2 that q does not say, but a leader's call of the term.
CallsOnly(q, q2, term) ==
  \A type \in Binding : \A t, to :
    Said(q2, type, t, to)
    => Said(q, type, t, to) \/ (type = "AppendEntriesCall" /\ t = term)

\* Leader nd still leads its term as nd2: its log has grown, no match index has
\* gone back, and it says nothing but AppendEntriesCalls of its term.
Tenure(nd, nd2, C) ==
  /\ Sound(nd2, C)
  /\ Evolves(nd, nd2)
  /\ nd2.role = "Leader"
  /\ nd2.current_term = nd.current_term
  /\ nd2.voted_for = nd.voted_for
  /\ nd2.log.entries.prev = nd.log.entries.prev
  /\ Extends(nd.log.entries, nd2.log.entries)
  /\ FollowersRise(nd, nd2)
  /\ CallsOnly(nd.actions, nd2.actions, nd.current_term)
  /\ "two leaders" \in nd2.broken => "two leaders" \in nd.broken

LEMMA SoundLog ==
  ASSUME NEW C, NEW nd, Sound(nd, C)
  PROVE  nd.log \in Logs(C) /\ nd.log.entries \in Entries(C)
  BY LogFacts DEF Sound

LEMMA TenureTransitive ==
  ASSUME NEW C, NEW a, NEW b, NEW c, Sound(a, C), Tenure(a, b, C), Tenure(b, c, C),
         DOMAIN a.followers \cap DOMAIN c.followers \subseteq DOMAIN b.followers
  PROVE  Tenure(a, c, C)
<1>1. Evolves(a, c)
  BY EvolvesTransitive DEF Tenure, Sound
<1>2. Extends(a.log.entries, c.log.entries)
  <2>1. Sound(b, C) /\ Sound(c, C)
    BY DEF Tenure
  <2>2. /\ a.log.entries \in Entries(C)
        /\ b.log.entries \in Entries(C)
        /\ c.log.entries \in Entries(C)
    BY <2>1, SoundLog
  <2> QED
    BY <2>2, ExtendsTransitive DEF Tenure
<1>3. FollowersRise(a, c)
  <2> SUFFICES ASSUME NEW f \in DOMAIN a.followers \cap DOMAIN c.followers
               PROVE  a.followers[f] <= c.followers[f]
    BY DEF FollowersRise
  <2>1. f \in DOMAIN b.followers
    OBVIOUS
  <2>2. a.followers[f] \in Nat /\ b.followers[f] \in Nat /\ c.followers[f] \in Nat
    BY <2>1 DEF Tenure, Sound
  <2>3. a.followers[f] <= b.followers[f] /\ b.followers[f] <= c.followers[f]
    BY <2>1 DEF Tenure, FollowersRise
  <2> QED
    BY <2>2, <2>3
<1>4. CallsOnly(a.actions, c.actions, a.current_term)
  BY DEF Tenure, CallsOnly
<1> QED
  BY <1>1, <1>2, <1>3, <1>4 DEF Tenure

LEMMA FollowersSame ==
  ASSUME NEW C, NEW nd, Sound(nd, C), NEW nd2, nd2.followers = nd.followers
  PROVE  FollowersRise(nd, nd2)
<1>1. \A f \in DOMAIN nd.followers : nd.followers[f] \in Nat
  BY DEF Sound
<1> QED
  BY <1>1 DEF FollowersRise

LEMMA IdlesTenure ==
  ASSUME NEW C, NEW nd, Sound(nd, C), nd.role = "Leader", NEW nd2, Idles(nd, nd2, C)
  PROVE  Tenure(nd, nd2, C)
<1>1. Extends(nd.log.entries, nd2.log.entries)
  BY SoundLog, ExtendsReflexive DEF Idles, SameState
<1>2. FollowersRise(nd, nd2)
  BY FollowersSame DEF Idles, SameState
<1>3. CallsOnly(nd.actions, nd2.actions, nd.current_term)
  BY DEF Idles, Quiet, CallsOnly
<1> QED
  BY <1>1, <1>2, <1>3 DEF Tenure, Idles, SameState

LEMMA UttersTenure ==
  ASSUME NEW C, NEW nd, Sound(nd, C), nd.role = "Leader", NEW nd2, NEW m,
         Utters(nd, nd2, C, m), m.type = "AppendEntriesCall", m.term = nd.current_term
  PROVE  Tenure(nd, nd2, C)
<1>1. Extends(nd.log.entries, nd2.log.entries)
  BY SoundLog, ExtendsReflexive DEF Utters, SameState
<1>2. FollowersRise(nd, nd2)
  BY FollowersSame DEF Utters, SameState
<1>3. CallsOnly(nd.actions, nd2.actions, nd.current_term)
  BY DEF Utters, CallsOnly, Tells
<1> QED
  BY <1>1, <1>2, <1>3 DEF Tenure, Utters, SameState

-----------------------------------------------------------------------------
(* Proposals. *)

\* The node with one more entry, which is queued to be stored.
Pushed(nd, entry) ==
  [QueueAppend(nd, [prev |-> LastPosition(nd.log.entries), ents |-> <<entry>>])
   EXCEPT !.log.entries = Push(@, entry)]

LEMMA OneEntryTyped ==
  ASSUME NEW C, NEW es \in Entries(C), NEW e \in Entry(C),
         LastIndex(es) = 0 => e.kind = "ClusterConfig"
  PROVE  [prev |-> LastPosition(es), ents |-> <<e>>] \in Writes(C)
<1> DEFINE p == LastPosition(es)
           s == [prev |-> p, ents |-> <<e>>]
<1>1. p \in Position /\ p.index = LastIndex(es)
  BY LastPositionTyped
<1> HIDE DEF p
<1>2. <<e>> \in Seq(Entry(C)) /\ <<e>> # <<>> /\ <<e>>[1] = e
  OBVIOUS
<1>3. s \in Entries(C)
  BY <1>1, <1>2, MakeEntries
<1>4. s \in Writes(C)
  BY <1>2, <1>3 DEF Writes
<1> QED
  BY <1>4 DEF p

LEMMA PushedFacts ==
  ASSUME NEW C, NEW nd, Sound(nd, C), NEW entry \in Entry(C),
         LastIndex(nd.log.entries) = 0 => entry.kind = "ClusterConfig"
  PROVE  LET nd2 == Pushed(nd, entry) IN
         /\ Sound(nd2, C)
         /\ Evolves(nd, nd2)
         /\ nd2.id = nd.id
         /\ nd2.voted_for = nd.voted_for
         /\ nd2.current_term = nd.current_term
         /\ nd2.commit_index = nd.commit_index
         /\ nd2.role = nd.role
         /\ nd2.granted_votes = nd.granted_votes
         /\ nd2.followers = nd.followers
         /\ nd2.log.entries = Push(nd.log.entries, entry)
         /\ nd2.log.entries.prev = nd.log.entries.prev
         /\ LastIndex(nd2.log.entries) > 0
         /\ Extends(nd.log.entries, nd2.log.entries)
         /\ Quiet(nd.actions, nd2.actions)
         /\ "two leaders" \in nd2.broken => "two leaders" \in nd.broken
<1> DEFINE write == [prev |-> LastPosition(nd.log.entries), ents |-> <<entry>>]
           a == QueueAppend(nd, write)
           nd2 == Pushed(nd, entry)
<1>1. nd.log.entries \in Entries(C)
  BY SoundLog
<1>2. Idles(nd, a, C)
  BY <1>1, OneEntryTyped, QueueAppendIdles
<1>3. nd2 = [a EXCEPT !.log.entries = Push(@, entry)]
  BY DEF Pushed
<1> HIDE DEF a
<1> DEFINE log == [a.log EXCEPT !.entries = Push(@, entry)]
<1>4. nd2 = [a EXCEPT !.log = log]
  BY <1>3
<1>5. IsNode(nd) /\ IsNode(a) /\ a.log = nd.log
  BY <1>2 DEF Idles, SameState, Sound
<1>6. /\ Push(nd.log.entries, entry) \in Entries(C)
      /\ Push(nd.log.entries, entry).prev = nd.log.entries.prev
      /\ Extends(nd.log.entries, Push(nd.log.entries, entry))
      /\ LastIndex(Push(nd.log.entries, entry)) = LastIndex(nd.log.entries) + 1
  BY <1>1, PushTyped
<1>7. log \in Logs(C) /\ log.entries = Push(nd.log.entries, entry)
  <2>1. nd.log \in Logs(C)
    BY SoundLog
  <2>2. log = [nd.log EXCEPT !.entries = Push(nd.log.entries, entry)]
    BY <1>5
  <2> DEFINE s == Push(nd.log.entries, entry)
  <2> HIDE DEF s
  <2>3. [nd.log EXCEPT !.entries = s].entries = s
    BY <2>1, LogFacts
  <2>4. [nd.log EXCEPT !.entries = s] \in Logs(C)
    BY <1>6, <2>1, WithEntries DEF s
  <2> QED
    BY <2>2, <2>3, <2>4 DEF s
<1>8. Evolves(a, [a EXCEPT !.log = log])
  BY <1>5, LogEvolves
<1> HIDE DEF log
<1>9. /\ nd2.id = a.id
      /\ nd2.voted_for = a.voted_for
      /\ nd2.current_term = a.current_term
      /\ nd2.commit_index = a.commit_index
      /\ nd2.role = a.role
      /\ nd2.granted_votes = a.granted_votes
      /\ nd2.followers = a.followers
      /\ nd2.log = log
      /\ nd2.actions = a.actions
      /\ nd2.broken = a.broken
  BY <1>4, <1>5 DEF IsNode, IsRecord
<1>10. Evolves(nd, nd2) /\ IsNode(nd2)
  <2>1. Evolves(a, nd2) /\ Evolves(nd, a)
    BY <1>2, <1>4, <1>8 DEF Idles
  <2> HIDE DEF nd2
  <2> QED
    BY <1>5, <2>1, EvolvesTransitive DEF Evolves
<1> HIDE DEF nd2
<1>11. LastIndex(nd2.log.entries) > 0
  <2>1. LastIndex(nd.log.entries) \in Nat
    BY <1>1, EntriesFacts
  <2> QED
    BY <1>6, <1>7, <1>9, <2>1
<1>12. Sound(nd2, C)
  BY <1>2, <1>7, <1>9, <1>10, <1>11 DEF Idles, Sound, Stands
<1> QED
  BY <1>2, <1>6, <1>7, <1>9, <1>10, <1>11, <1>12 DEF Idles, SameState, nd2

LEMMA RebuildFollowersTenure ==
  ASSUME NEW C, NEW nd, Sound(nd, C), nd.role = "Leader"
  PROVE  LET nd2 == RebuildFollowers(nd) IN
         /\ Tenure(nd, nd2, C)
         /\ nd2.log = nd.log
         /\ nd2.commit_index = nd.commit_index
         /\ DOMAIN nd2.followers = Peers(nd)
<1> DEFINE nd2 == RebuildFollowers(nd)
           followers == [f \in Peers(nd) |-> IF f \in DOMAIN nd.followers THEN nd.followers[f] ELSE 0]
<1>1. nd2 = [nd EXCEPT !.followers = followers]
  BY DEF RebuildFollowers
<1>2. IsNode(nd) /\ \A f \in DOMAIN nd.followers : nd.followers[f] \in Nat
  BY DEF Sound
<1>3. Evolves(nd, nd2) /\ IsNode(nd2)
  BY <1>2, RebuildFollowersEvolves DEF Evolves
<1>4. /\ DOMAIN followers = Peers(nd)
      /\ \A f \in Peers(nd) : followers[f] \in Nat
      /\ \A f \in Peers(nd) \cap DOMAIN nd.followers : nd.followers[f] <= followers[f]
  BY <1>2
<1> HIDE DEF followers
<1>5. /\ nd2.id = nd.id
      /\ nd2.voted_for = nd.voted_for
      /\ nd2.current_term = nd.current_term
      /\ nd2.log = nd.log
      /\ nd2.commit_index = nd.commit_index
      /\ nd2.role = nd.role
      /\ nd2.followers = followers
      /\ nd2.actions = nd.actions
      /\ nd2.broken = nd.broken
  BY <1>1, <1>2 DEF IsNode, IsRecord
<1> HIDE DEF nd2
<1>6. Sound(nd2, C)
  BY <1>3, <1>4, <1>5 DEF Sound, Stands
<1>7. Extends(nd.log.entries, nd2.log.entries)
  BY <1>5, SoundLog, ExtendsReflexive
<1>8. FollowersRise(nd, nd2)
  BY <1>4, <1>5 DEF FollowersRise
<1>9. CallsOnly(nd.actions, nd2.actions, nd.current_term)
  BY <1>5 DEF CallsOnly
<1> QED
  BY <1>3, <1>4, <1>5, <1>6, <1>7, <1>8, <1>9 DEF Tenure, nd2

\* What a leader's log holds once it has appended an entry.
LEMMA AppendProposedTenure ==
  ASSUME NEW C, NEW nd, Sound(nd, C), nd.role = "Leader", NEW entry \in Entry(C)
  PROVE  LET nd2 == AppendProposedLogEntry(nd, entry) IN
         /\ Tenure(nd, nd2, C)
         /\ nd2.log.entries = Push(nd.log.entries, entry)
         /\ nd2.commit_index = nd.commit_index
         /\ DOMAIN nd2.followers = IF entry.kind = "ClusterConfig" THEN Peers(nd2)
                                   ELSE DOMAIN nd.followers
<1> DEFINE a == Pushed(nd, entry)
           nd2 == AppendProposedLogEntry(nd, entry)
<1>1. nd2 = IF entry.kind = "ClusterConfig" THEN RebuildFollowers(a) ELSE a
  BY DEF AppendProposedLogEntry, Pushed
<1>2. ~(LastIndex(nd.log.entries) = 0)
  BY DEF Sound, Stands
<1>3. /\ Sound(a, C)
      /\ Evolves(nd, a)
      /\ a.id = nd.id
      /\ a.voted_for = nd.voted_for
      /\ a.current_term = nd.current_term
      /\ a.commit_index = nd.commit_index
      /\ a.role = nd.role
      /\ a.followers = nd.followers
      /\ a.log.entries = Push(nd.log.entries, entry)
      /\ a.log.entries.prev = nd.log.entries.prev
      /\ Extends(nd.log.entries, a.log.entries)
      /\ Quiet(nd.actions, a.actions)
      /\ "two leaders" \in a.broken => "two leaders" \in nd.broken
  <2>1. LastIndex(nd.log.entries) = 0 => entry.kind = "ClusterConfig"
    BY <1>2
  <2> QED
    BY <2>1, PushedFacts, ZenonT(60)
<1> HIDE DEF a
<1>4. Tenure(nd, a, C)
  <2>1. FollowersRise(nd, a)
    BY <1>3, FollowersSame
  <2>2. CallsOnly(nd.actions, a.actions, nd.current_term)
    BY <1>3 DEF Quiet, CallsOnly
  <2> QED
    BY <1>3, <2>1, <2>2 DEF Tenure
<1>5. CASE entry.kind = "ClusterConfig"
  <2>1. nd2 = RebuildFollowers(a)
    BY <1>1, <1>5
  <2> HIDE DEF nd2
  <2>2. /\ Tenure(a, nd2, C)
        /\ nd2.log = a.log
        /\ nd2.commit_index = a.commit_index
        /\ DOMAIN nd2.followers = Peers(a)
    BY <1>3, <2>1, RebuildFollowersTenure
  <2>3. Peers(nd2) = Peers(a)
    BY <2>2 DEF Peers, Config, Tenure, Evolves
  <2>4. Tenure(nd, nd2, C)
    BY <1>3, <1>4, <2>2, TenureTransitive
  <2> QED
    BY <1>3, <1>5, <2>2, <2>3, <2>4 DEF nd2
<1>6. CASE entry.kind # "ClusterConfig"
  <2>1. nd2 = a
    BY <1>1, <1>6
  <2> QED
    BY <1>3, <1>4, <1>6, <2>1
<1> QED
  BY <1>5, <1>6

\* An AppendEntriesCall of the node's own.
LEMMA NewCallTyped ==
  ASSUME NEW C, NEW nd, Sound(nd, C), NEW entries \in Entries(C)
  PROVE  LET m == AppendEntriesCall(nd, entries) IN
         /\ MessageOK(m, C)
         /\ IsCall(m)
         /\ Speaks(m, nd.id, nd.current_term)
         /\ m.type = "AppendEntriesCall"
         /\ m.term = nd.current_term
<1> DEFINE m == AppendEntriesCall(nd, entries)
<1>1. Speaks(m, nd.id, nd.current_term)
  BY NewMessagesSpeak DEF Sound
<1>2. MessageOK(m, C) /\ IsCall(m) /\ m.type = "AppendEntriesCall" /\ m.term = nd.current_term
  BY DEF Sound, MessageOK, IsCall, AppendEntriesCall
<1> QED
  BY <1>1, <1>2

LEMMA TimerAfterTenure ==
  ASSUME NEW C, NEW nd, Sound(nd, C), NEW a, Tenure(nd, a, C), SameState(nd, a)
  PROVE  /\ Tenure(nd, SetElectionTimeout(a), C)
         /\ SameState(nd, SetElectionTimeout(a))
<1> DEFINE b == SetElectionTimeout(a)
<1>1. Sound(a, C) /\ a.role = "Leader"
  BY DEF Tenure
<1>2. Idles(a, b, C)
  BY <1>1, TimerIdles
<1> HIDE DEF b
<1>3. Tenure(a, b, C) /\ SameState(a, b)
  BY <1>1, <1>2, IdlesTenure DEF Idles
<1>4. SameState(nd, b) /\ DOMAIN a.followers = DOMAIN nd.followers
  BY <1>3 DEF SameState
<1>5. Tenure(nd, b, C)
  BY <1>3, <1>4, TenureTransitive
<1> QED
  BY <1>4, <1>5 DEF b

LEMMA BroadcastProposalTenure ==
  ASSUME NEW C, NEW nd, Sound(nd, C), nd.role = "Leader", NEW last, NEW entry,
         [prev |-> last, ents |-> <<entry>>] \in Entries(C)
  PROVE  LET nd2 == BroadcastProposal(nd, last, entry) IN
         Tenure(nd, nd2, C) /\ SameState(nd, nd2)
<1> DEFINE entries == [prev |-> last, ents |-> <<entry>>]
           call == AppendEntriesCall(nd, entries)
           leads == nd.role = "Leader"
           asserted == DebugAssert(nd, "still leader", leads)
           queued == QueueBroadcast(nd, call)
           sent == IF DOMAIN nd.followers = {} THEN asserted ELSE queued
<1>1. BroadcastProposal(nd, last, entry) = SetElectionTimeout(sent)
  BY DEF BroadcastProposal
<1>2. Tenure(nd, asserted, C) /\ SameState(nd, asserted)
  <2>1. Idles(nd, asserted, C)
    <3>1. leads \in BOOLEAN /\ leads
      OBVIOUS
    <3> HIDE DEF leads
    <3> QED
      BY <3>1, AssertIdles
  <2> HIDE DEF asserted
  <2> QED
    BY <2>1, IdlesTenure DEF Idles
<1>3. Tenure(nd, queued, C) /\ SameState(nd, queued)
  <2> HIDE DEF entries
  <2>1. /\ MessageOK(call, C)
        /\ IsCall(call)
        /\ Speaks(call, nd.id, nd.current_term)
        /\ call.type = "AppendEntriesCall"
        /\ call.term = nd.current_term
    BY NewCallTyped DEF entries
  <2> HIDE DEF call
  <2>2. Utters(nd, queued, C, call)
    BY <2>1, QueueBroadcastUtters
  <2> HIDE DEF queued
  <2> QED
    BY <2>1, <2>2, UttersTenure DEF Utters
<1> HIDE DEF asserted, queued
<1>4. Tenure(nd, sent, C) /\ SameState(nd, sent)
  BY <1>2, <1>3
<1> HIDE DEF sent
<1> QED
  BY <1>1, <1>4, TimerAfterTenure

LEMMA HeartbeatTenure ==
  ASSUME NEW C, NEW nd, Sound(nd, C), nd.role = "Leader"
  PROVE  Tenure(nd, Heartbeat(nd), C)
<1> DEFINE entries == NewEntries(LastPosition(nd.log.entries))
           call == AppendEntriesCall(nd, entries)
           queued == QueueBroadcast(nd, call)
           sent == IF DOMAIN nd.followers = {} THEN nd ELSE queued
<1>1. Heartbeat(nd) = SetElectionTimeout(sent)
  BY DEF Heartbeat
<1>2. Tenure(nd, nd, C) /\ SameState(nd, nd)
  BY IdlesReflexive, IdlesTenure DEF Idles
<1>3. Tenure(nd, queued, C) /\ SameState(nd, queued)
  <2>1. entries \in Entries(C)
    BY SoundLog, LastPositionTyped, NewEntriesTyped
  <2> HIDE DEF entries
  <2>2. /\ MessageOK(call, C)
        /\ IsCall(call)
        /\ Speaks(call, nd.id, nd.current_term)
        /\ call.type = "AppendEntriesCall"
        /\ call.term = nd.current_term
    BY <2>1, NewCallTyped
  <2> HIDE DEF call
  <2>3. Utters(nd, queued, C, call)
    BY <2>2, QueueBroadcastUtters
  <2> HIDE DEF queued
  <2> QED
    BY <2>2, <2>3, UttersTenure DEF Utters
<1> HIDE DEF queued
<1>4. Tenure(nd, sent, C) /\ SameState(nd, sent)
  BY <1>2, <1>3
<1> HIDE DEF sent
<1> QED
  BY <1>1, <1>4, TimerAfterTenure

-----------------------------------------------------------------------------
(* Commits. *)

LEMMA AdvanceCommitTenure ==
  ASSUME NEW C, NEW nd, Sound(nd, C), nd.role = "Leader", CanCommit(nd)
  PROVE  LET nd2 == AdvanceCommitIndex(nd) IN
         /\ Tenure(nd, nd2, C)
         /\ nd2.log = nd.log
         /\ nd2.followers = nd.followers
         /\ nd2.id = nd.id
<1> DEFINE nd2 == AdvanceCommitIndex(nd)
           i == SmallestMajorityIndex(nd)
<1>1. i \in Nat
  <2>1. ContainsIndex(nd.log.entries, i)
    BY DEF CanCommit
  <2> HIDE DEF i
  <2> QED
    BY <2>1, SoundLog, TermAtTyped
<1>2. nd2 = [nd EXCEPT !.commit_index = i]
  BY DEF AdvanceCommitIndex
<1> HIDE DEF i
<1>3. Evolves(nd, nd2) /\ IsNode(nd2)
  BY AdvanceCommitIndexEvolves DEF Sound, Evolves
<1>4. /\ nd2.id = nd.id
      /\ nd2.voted_for = nd.voted_for
      /\ nd2.current_term = nd.current_term
      /\ nd2.log = nd.log
      /\ nd2.commit_index = i
      /\ nd2.role = nd.role
      /\ nd2.followers = nd.followers
      /\ nd2.actions = nd.actions
      /\ nd2.broken = nd.broken
  BY <1>2 DEF Sound, IsNode, IsRecord
<1> HIDE DEF nd2
<1>5. Sound(nd2, C)
  BY <1>1, <1>3, <1>4 DEF Sound, Stands
<1>6. Extends(nd.log.entries, nd2.log.entries)
  BY <1>4, SoundLog, ExtendsReflexive
<1>7. FollowersRise(nd, nd2)
  BY <1>4, FollowersSame
<1>8. CallsOnly(nd.actions, nd2.actions, nd.current_term)
  BY <1>4 DEF CallsOnly
<1> QED
  BY <1>3, <1>4, <1>5, <1>6, <1>7, <1>8 DEF Tenure, nd2

\* A commit that meets no joint configuration and no configuration without the leader.
LEMMA NestedCommitTenure ==
  ASSUME NEW C, NEW nd, Sound(nd, C), nd.role = "Leader",
         ~IsJointConsensus(Config(nd)), nd.id \in Config(nd).voters
  PROVE  LET nd2 == NestedCommit(nd) IN
         Tenure(nd, nd2, C) /\ nd2.log = nd.log /\ nd2.followers = nd.followers
<1>1. CASE ~CanCommit(nd)
  <2>1. NestedCommit(nd) = nd
    BY <1>1 DEF NestedCommit, CommitThen
  <2> QED
    BY <2>1, IdlesReflexive, IdlesTenure
<1>2. CASE CanCommit(nd)
  <2> DEFINE up == AdvanceCommitIndex(nd)
  <2>1. /\ Tenure(nd, up, C)
        /\ up.log = nd.log
        /\ up.followers = nd.followers
        /\ up.id = nd.id
    BY <1>2, AdvanceCommitTenure
  <2>2. Config(up) = Config(nd)
    BY <2>1 DEF Config
  <2>3. NestedCommit(nd) = up
    <3> DEFINE failed == DebugAssert(up, "nested joint consensus", FALSE)
    <3>1. NestedCommit(nd) = IF ~LatestConfigCommitted(up) THEN up
                             ELSE IF IsJointConsensus(Config(up)) THEN failed
                             ELSE IF nd.id \in Config(up).voters THEN up
                             ELSE TransitionToFollower(up, up.current_term)
      BY <1>2 DEF NestedCommit, CommitThen
    <3> HIDE DEF up, failed
    <3> QED
      BY <2>2, <3>1
  <2> HIDE DEF up
  <2> QED
    BY <2>1, <2>3
<1> QED
  BY <1>1, <1>2

\* The configuration of a leader is one that logs may hold.
LEMMA ConfigOfLeader ==
  ASSUME NEW C, NEW nd, Sound(nd, C), nd.role = "Leader"
  PROVE  Config(nd) \in C
<1>1. ~(LastIndex(nd.log.entries) = 0)
  BY DEF Sound, Stands
<1> QED
  BY <1>1, SoundLog, LatestConfigTyped DEF Config

\* Finalizing a joint consensus leaves the leader in place.
LEMMA FinalizeTenure ==
  ASSUME NEW C, Closed(C), NEW nd, Sound(nd, C), nd.role = "Leader",
         IsJointConsensus(Config(nd))
  PROVE  LET nd2 == FinalizeJointConsensus(nd) IN
         Tenure(nd, nd2, C) /\ DOMAIN nd2.followers \subseteq Peers(nd)
<1> DEFINE c == FinalConfig(Config(nd))
           disjoint == c.voters \cap c.non_voters = {}
           a == DebugAssert(nd, "final config", disjoint)
           entry == ConfigEntry(nd.current_term, c)
           appended == AppendProposedLogEntry(nd, entry)
           settled == IF IsSelfSoloVoter(appended) THEN NestedCommit(appended) ELSE appended
           last == LastPosition(nd.log.entries)
           nd2 == FinalizeJointConsensus(nd)
<1>1. /\ c \in C
      /\ c.voters = Config(nd).new_voters
      /\ c.new_voters = {}
      /\ c.non_voters = Config(nd).non_voters
      /\ disjoint
  <2>1. Config(nd) \in C
    BY ConfigOfLeader
  <2>2. /\ Config(nd) = [voters |-> Config(nd).voters, new_voters |-> Config(nd).new_voters,
                         non_voters |-> Config(nd).non_voters]
        /\ Config(nd).non_voters \cap UniqueVoters(Config(nd)) = {}
        /\ c \in C
    BY <2>1 DEF Closed
  <2>3. /\ c.voters = Config(nd).new_voters
        /\ c.new_voters = {}
        /\ c.non_voters = Config(nd).non_voters
    BY <2>2 DEF FinalConfig
  <2> QED
    BY <2>2, <2>3 DEF UniqueVoters
<1>2. nd2 = BroadcastProposal(settled, last, entry)
  <2>1. nd2 = BroadcastProposal(
                IF IsSelfSoloVoter(AppendProposedLogEntry(a, entry))
                THEN NestedCommit(AppendProposedLogEntry(a, entry))
                ELSE AppendProposedLogEntry(a, entry),
                LastPosition(a.log.entries), entry)
    BY DEF FinalizeJointConsensus, ProposeThen
  <2>2. a = nd
    BY <1>1 DEF DebugAssert
  <2> HIDE DEF a, entry, nd2
  <2> QED
    BY <2>1, <2>2
<1>3. entry \in Entry(C) /\ entry.kind = "ClusterConfig" /\ entry.config = c
  BY <1>1 DEF Sound, IsNode, IsRecord, ConfigEntry, Entry
<1>4. [prev |-> last, ents |-> <<entry>>] \in Entries(C)
  BY <1>3, SoundLog, OneEntryTyped DEF Writes
<1> HIDE DEF c, a, entry, last
<1>5. /\ Tenure(nd, appended, C)
      /\ appended.log.entries = Push(nd.log.entries, entry)
      /\ DOMAIN appended.followers = Peers(appended)
  BY <1>3, AppendProposedTenure
<1> HIDE DEF appended
<1>6. Config(appended) = c
  BY <1>3, <1>5, SoundLog, LatestConfigPushed DEF Config
<1>7. DOMAIN appended.followers \subseteq Peers(nd)
  BY <1>1, <1>5, <1>6 DEF Peers, UniqueNodes, UniqueVoters, Tenure, Evolves
<1>8. Sound(appended, C) /\ appended.role = "Leader"
  BY <1>5 DEF Tenure
<1>9. /\ Tenure(nd, settled, C)
      /\ settled.followers = appended.followers
      /\ settled.role = "Leader"
      /\ Sound(settled, C)
  <2>1. CASE IsSelfSoloVoter(appended)
    <3>1. ~IsJointConsensus(Config(appended)) /\ appended.id \in Config(appended).voters
      BY <1>1, <1>6, <2>1 DEF IsJointConsensus, IsSelfSoloVoter
    <3>2. /\ Tenure(appended, settled, C)
          /\ settled.followers = appended.followers
      BY <1>8, <2>1, <3>1, NestedCommitTenure
    <3> HIDE DEF settled
    <3>3. Tenure(nd, settled, C)
      BY <1>5, <3>2, TenureTransitive
    <3> QED
      BY <3>2, <3>3 DEF Tenure
  <2>2. CASE ~IsSelfSoloVoter(appended)
    BY <1>5, <1>8, <2>2
  <2> QED
    BY <2>1, <2>2
<1> HIDE DEF settled, nd2
<1>10. Tenure(settled, nd2, C) /\ SameState(settled, nd2)
  BY <1>2, <1>4, <1>9, BroadcastProposalTenure
<1>11. DOMAIN nd2.followers = DOMAIN settled.followers
  BY <1>10 DEF SameState
<1>12. Tenure(nd, nd2, C)
  BY <1>9, <1>10, <1>11, TenureTransitive
<1> QED
  BY <1>7, <1>9, <1>11, <1>12 DEF nd2

\* Leader nd has committed a configuration that it is no voter of and follows.
StepsDown(nd, nd2, C) ==
  /\ Sound(nd2, C)
  /\ Evolves(nd, nd2)
  /\ nd2.role = "Follower"
  /\ nd2.current_term = nd.current_term
  /\ nd2.voted_for = Nil
  /\ nd2.log = nd.log
  /\ Removable(nd.id, C)
  /\ CallsOnly(nd.actions, nd2.actions, nd.current_term)
  /\ "two leaders" \in nd2.broken => "two leaders" \in nd.broken

LEMMA UpdateCommitTenure ==
  ASSUME NEW C, Closed(C), NEW nd, Sound(nd, C), nd.role = "Leader"
  PROVE  LET nd2 == UpdateCommitIndexIfPossible(nd) IN
         \/ Tenure(nd, nd2, C) /\ DOMAIN nd2.followers \subseteq DOMAIN nd.followers \cup Peers(nd)
         \/ StepsDown(nd, nd2, C) /\ ~IsSelfSoloVoter(nd)
<1> DEFINE up == AdvanceCommitIndex(nd)
           nd2 == UpdateCommitIndexIfPossible(nd)
<1>1. CASE ~CanCommit(nd)
  <2>1. nd2 = nd
    BY <1>1 DEF UpdateCommitIndexIfPossible, CommitThen
  <2> QED
    BY <2>1, IdlesReflexive, IdlesTenure
<1>2. CASE CanCommit(nd)
  <2>1. /\ Tenure(nd, up, C)
        /\ up.log = nd.log
        /\ up.followers = nd.followers
        /\ up.id = nd.id
    BY <1>2, AdvanceCommitTenure
  <2>2. nd2 = IF ~LatestConfigCommitted(up) THEN up
              ELSE IF IsJointConsensus(Config(up)) THEN FinalizeJointConsensus(up)
              ELSE IF nd.id \in Config(up).voters THEN up
              ELSE TransitionToFollower(up, up.current_term)
    BY <1>2 DEF UpdateCommitIndexIfPossible, CommitThen
  <2> HIDE DEF up, nd2
  <2>3. Sound(up, C) /\ up.role = "Leader" /\ Peers(up) = Peers(nd) /\ Config(up) = Config(nd)
    BY <2>1 DEF Tenure, Peers, Config
  <2>4. CASE nd2 = up
    BY <2>1, <2>4 DEF up, nd2
  <2>5. CASE IsJointConsensus(Config(up)) /\ nd2 = FinalizeJointConsensus(up)
    <3>1. Tenure(up, nd2, C) /\ DOMAIN nd2.followers \subseteq Peers(up)
      BY <2>3, <2>5, FinalizeTenure
    <3>2. Tenure(nd, nd2, C)
      BY <2>1, <3>1, TenureTransitive
    <3> QED
      BY <2>3, <3>1, <3>2 DEF nd2
  <2>6. CASE /\ ~IsJointConsensus(Config(up))
             /\ nd.id \notin Config(up).voters
             /\ nd2 = TransitionToFollower(up, up.current_term)
    <3>1. Config(nd) \in C
      BY ConfigOfLeader
    <3>2. Removable(nd.id, C)
      BY <2>3, <2>6, <3>1 DEF Removable
    <3>3. up.current_term \in Nat /\ up.current_term = nd.current_term
      BY <2>1, <2>3 DEF Sound, IsNode, IsRecord, Tenure
    <3>4. Demoted(up, nd2, C, nd.current_term)
      BY <2>3, <2>6, <3>3, TransitionToFollowerDemotes
    <3>5. Evolves(nd, nd2)
      BY <2>1, <3>4, EvolvesTransitive DEF Sound, Tenure, Demoted
    <3>6. CallsOnly(nd.actions, nd2.actions, nd.current_term)
      BY <2>1, <3>4 DEF Tenure, Demoted, CallsOnly, Quiet
    <3>7. StepsDown(nd, nd2, C)
      BY <2>1, <3>2, <3>4, <3>5, <3>6 DEF StepsDown, Tenure, Demoted
    <3>8. ~IsSelfSoloVoter(nd)
      BY <2>3, <2>6 DEF IsSelfSoloVoter
    <3> QED
      BY <3>7, <3>8 DEF nd2
  <2> QED
    BY <2>2, <2>4, <2>5, <2>6
<1> QED
  BY <1>1, <1>2

\* A leader that proposes still leads.
LEMMA ProposeTenure ==
  ASSUME NEW C, Closed(C), NEW nd, Sound(nd, C), nd.role = "Leader", NEW entry \in Entry(C)
  PROVE  Tenure(nd, Propose(nd, entry), C)
<1> DEFINE appended == AppendProposedLogEntry(nd, entry)
           settled == IF IsSelfSoloVoter(appended) THEN UpdateCommitIndexIfPossible(appended)
                      ELSE appended
           last == LastPosition(nd.log.entries)
           nd2 == Propose(nd, entry)
<1>1. nd2 = BroadcastProposal(settled, last, entry)
  BY DEF Propose, ProposeThen
<1>2. /\ Tenure(nd, appended, C)
      /\ DOMAIN appended.followers = IF entry.kind = "ClusterConfig" THEN Peers(appended)
                                     ELSE DOMAIN nd.followers
  BY AppendProposedTenure
<1> HIDE DEF appended
<1>3. Sound(appended, C) /\ appended.role = "Leader"
  BY <1>2 DEF Tenure
<1>4. Tenure(nd, settled, C)
  <2>1. CASE IsSelfSoloVoter(appended)
    <3>1. /\ Tenure(appended, settled, C)
          /\ DOMAIN settled.followers \subseteq DOMAIN appended.followers \cup Peers(appended)
      BY <1>3, <2>1, UpdateCommitTenure
    <3> HIDE DEF settled
    <3>2. DOMAIN nd.followers \cap DOMAIN settled.followers \subseteq DOMAIN appended.followers
      BY <1>2, <3>1
    <3> QED
      BY <1>2, <3>1, <3>2, TenureTransitive
  <2>2. CASE ~IsSelfSoloVoter(appended)
    BY <1>2, <2>2
  <2> QED
    BY <2>1, <2>2
<1> HIDE DEF settled
<1>5. Sound(settled, C) /\ settled.role = "Leader"
  BY <1>4 DEF Tenure
<1>6. [prev |-> last, ents |-> <<entry>>] \in Entries(C)
  <2>1. ~(LastIndex(nd.log.entries) = 0)
    BY DEF Sound, Stands
  <2> QED
    BY <2>1, SoundLog, OneEntryTyped DEF Writes
<1> HIDE DEF last, nd2
<1>7. Tenure(settled, nd2, C) /\ SameState(settled, nd2)
  BY <1>1, <1>5, <1>6, BroadcastProposalTenure
<1>8. DOMAIN nd2.followers = DOMAIN settled.followers
  BY <1>7 DEF SameState
<1>9. Tenure(nd, nd2, C)
  BY <1>4, <1>7, <1>8, TenureTransitive
<1> QED
  BY <1>9 DEF nd2

-----------------------------------------------------------------------------
(* Elections. *)

LEMMA RoleSound ==
  ASSUME NEW C, NEW nd, Sound(nd, C), NEW role \in {"Follower", "Candidate", "Leader"},
         role # "Follower" => Stands(nd, C)
  PROVE  LET nd2 == SetRole(nd, role) IN
         /\ Sound(nd2, C)
         /\ Evolves(nd, nd2)
         /\ nd2.id = nd.id
         /\ nd2.voted_for = nd.voted_for
         /\ nd2.current_term = nd.current_term
         /\ nd2.log = nd.log
         /\ nd2.commit_index = nd.commit_index
         /\ nd2.role = role
         /\ nd2.followers = <<>>
         /\ nd2.actions = nd.actions
         /\ nd2.broken = nd.broken
<1> DEFINE nd2 == SetRole(nd, role)
<1>1. IsNode(nd)
  BY DEF Sound
<1>2. /\ nd2.id = nd.id
      /\ nd2.voted_for = nd.voted_for
      /\ nd2.current_term = nd.current_term
      /\ nd2.log = nd.log
      /\ nd2.commit_index = nd.commit_index
      /\ nd2.role = role
      /\ nd2.followers = <<>>
      /\ nd2.actions = nd.actions
      /\ nd2.broken = nd.broken
  BY <1>1, RoleFacts
<1>3. Evolves(nd, nd2) /\ IsNode(nd2)
  BY <1>1, SetRoleEvolves DEF Evolves
<1> HIDE DEF nd2
<1>4. Sound(nd2, C)
  BY <1>2, <1>3 DEF Sound, Stands
<1> QED
  BY <1>2, <1>3, <1>4 DEF nd2

\* The node, which stands for election, leads its term.
Elected(nd, nd2, C) ==
  /\ Sound(nd2, C)
  /\ Evolves(nd, nd2)
  /\ nd2.role = "Leader"
  /\ nd2.current_term = nd.current_term
  /\ nd2.voted_for = nd.voted_for
  /\ CallsOnly(nd.actions, nd2.actions, nd.current_term)
  /\ "two leaders" \in nd2.broken => "two leaders" \in nd.broken

LEMMA TransitionToLeaderElects ==
  ASSUME NEW C, Closed(C), NEW nd, Sound(nd, C), Stands(nd, C)
  PROVE  Elected(nd, TransitionToLeader(nd), C)
<1> DEFINE own == nd.voted_for = nd.id
           a == SetRole(nd, "Leader")
           b == RebuildFollowers(a)
           entry == TermEntry(nd.current_term)
           nd2 == TransitionToLeader(nd)
<1>1. nd2 = Propose(b, entry)
  <2>1. DebugAssert(nd, "leader vote", own) = nd
    BY DEF DebugAssert, Stands
  <2>2. nd2 = Propose(RebuildFollowers(SetRole(DebugAssert(nd, "leader vote", own), "Leader")), entry)
    BY DEF TransitionToLeader
  <2> HIDE DEF nd2, entry, own
  <2> QED
    BY <2>1, <2>2
<1>2. entry \in Entry(C)
  BY DEF Sound, IsNode, IsRecord, TermEntry, Entry
<1> HIDE DEF entry, nd2
<1>3. /\ Sound(a, C)
      /\ Evolves(nd, a)
      /\ a.voted_for = nd.voted_for
      /\ a.current_term = nd.current_term
      /\ a.role = "Leader"
      /\ a.actions = nd.actions
      /\ a.broken = nd.broken
  BY RoleSound
<1> HIDE DEF a
<1>4. Tenure(a, b, C)
  BY <1>3, RebuildFollowersTenure
<1> HIDE DEF b
<1>5. Tenure(b, nd2, C)
  BY <1>1, <1>2, <1>4, ProposeTenure, ZenonT(60) DEF Tenure
<1>6. Evolves(nd, nd2)
  <2>1. IsNode(nd) /\ IsNode(a)
    BY <1>3 DEF Sound
  <2>2. Evolves(a, nd2)
    BY <1>4, <1>5, <2>1, EvolvesTransitive DEF Tenure
  <2> QED
    BY <1>3, <2>1, <2>2, EvolvesTransitive
<1>7. CallsOnly(nd.actions, nd2.actions, nd.current_term)
  BY <1>3, <1>4, <1>5 DEF Tenure, CallsOnly
<1>8. Elected(nd, nd2, C)
  BY <1>3, <1>4, <1>5, <1>6, <1>7 DEF Tenure, Elected
<1> QED
  BY <1>8 DEF nd2

\* Nothing binding is said in q2 that q does not say, but that the node stands in
\* the term.
StandsOnly(q, q2, term) ==
  \A type \in Binding : \A t, to :
    Said(q2, type, t, to)
    => Said(q, type, t, to) \/ (type = "RequestVoteCall" /\ t = term)

\* The node stands for election in the next term.  A solo voter wins at once.
Candidacy(nd, nd2, C) ==
  /\ Sound(nd2, C)
  /\ Evolves(nd, nd2)
  /\ nd2.current_term = nd.current_term + 1
  /\ nd2.voted_for = nd.id
  /\ \/ /\ nd2.role = "Leader"
        /\ Solo(nd.id, C)
        /\ CallsOnly(nd.actions, nd2.actions, nd2.current_term)
     \/ /\ nd2.role = "Candidate"
        /\ nd2.granted_votes = {nd.id}
        /\ StandsOnly(nd.actions, nd2.actions, nd2.current_term)
  /\ "two leaders" \in nd2.broken => "two leaders" \in nd.broken

\* A voter's log holds a configuration.
LEMMA VoterStands ==
  ASSUME NEW C, NEW nd, Sound(nd, C), IsVoter(Config(nd), nd.id)
  PROVE  LastIndex(nd.log.entries) > 0 /\ Config(nd) \in C
<1>1. LastIndex(nd.log.entries) # 0
  <2> SUFFICES ASSUME LastIndex(nd.log.entries) = 0 PROVE FALSE
    OBVIOUS
  <2>1. Config(nd) = EmptyConfig
    BY SoundLog, LatestConfigTyped DEF Config
  <2> QED
    BY <2>1 DEF IsVoter, EmptyConfig
<1>2. LastIndex(nd.log.entries) \in Nat
  BY SoundLog, EntriesFacts
<1>3. Config(nd) \in C
  BY <1>1, SoundLog, LatestConfigTyped DEF Config
<1> QED
  BY <1>1, <1>2, <1>3

\* The term and the vote of a candidate.
LEMMA NextTermVote ==
  ASSUME NEW C, NEW nd, Sound(nd, C), IsVoter(Config(nd), nd.id)
  PROVE  LET voted == SetVotedFor(SetCurrentTerm(nd, nd.current_term + 1), nd.id) IN
         /\ Sound(voted, C)
         /\ Stands(voted, C)
         /\ Evolves(nd, voted)
         /\ voted.id = nd.id
         /\ voted.voted_for = nd.id
         /\ voted.current_term = nd.current_term + 1
         /\ voted.log = nd.log
         /\ SameQueues(nd, voted)
         /\ voted.broken = nd.broken
<1> DEFINE entered == SetCurrentTerm(nd, nd.current_term + 1)
           voted == SetVotedFor(entered, nd.id)
<1>1. IsNode(nd) /\ nd.current_term + 1 \in Nat /\ nd.current_term <= nd.current_term + 1
  BY DEF Sound, IsNode, IsRecord
<1>2. Evolves(nd, entered) /\ IsNode(entered)
  BY <1>1, SetCurrentTermEvolves DEF Evolves
<1>3. /\ entered.id = nd.id
      /\ entered.current_term = nd.current_term + 1
      /\ entered.log = nd.log
      /\ entered.commit_index = nd.commit_index
      /\ entered.role = nd.role
      /\ entered.followers = nd.followers
      /\ SameQueues(nd, entered)
      /\ entered.broken = nd.broken
  BY <1>1, CurrentTermFacts
<1> HIDE DEF entered
<1>4. Evolves(nd, voted) /\ IsNode(voted)
  BY <1>1, <1>2, SetVotedForEvolves, EvolvesTransitive DEF Evolves
<1>5. /\ voted.id = nd.id
      /\ voted.voted_for = nd.id
      /\ voted.current_term = nd.current_term + 1
      /\ voted.log = nd.log
      /\ voted.commit_index = nd.commit_index
      /\ voted.role = nd.role
      /\ voted.followers = nd.followers
      /\ SameQueues(nd, voted)
      /\ voted.broken = nd.broken
  BY <1>2, <1>3, VotedForFacts DEF SameQueues
<1> HIDE DEF voted
<1>6. LastIndex(nd.log.entries) > 0 /\ Config(nd) \in C
  BY VoterStands
<1>7. Stands(voted, C)
  BY <1>5, <1>6 DEF Stands
<1>8. Sound(voted, C)
  BY <1>4, <1>5, <1>7, QueuesSame DEF Sound
<1> QED
  BY <1>4, <1>5, <1>7, <1>8 DEF voted, entered

LEMMA TransitionToCandidateStands ==
  ASSUME NEW C, Closed(C), NEW nd, Sound(nd, C), IsVoter(Config(nd), nd.id)
  PROVE  Candidacy(nd, TransitionToCandidate(nd), C)
<1> DEFINE voted == SetVotedFor(SetCurrentTerm(nd, nd.current_term + 1), nd.id)
           role == SetRole(voted, "Candidate")
           candidate == [role EXCEPT !.granted_votes = {nd.id}]
           last == LastPosition(nd.log.entries)
           call == RequestVoteCall(candidate, last)
           sent == QueueBroadcast(candidate, call)
           timed == SetElectionTimeout(sent)
           nd2 == TransitionToCandidate(nd)
<1>1. nd2 = IF IsSelfSoloVoter(voted) THEN TransitionToLeader(voted) ELSE timed
  BY DEF TransitionToCandidate
<1>2. /\ Sound(voted, C)
      /\ Stands(voted, C)
      /\ Evolves(nd, voted)
      /\ voted.id = nd.id
      /\ voted.voted_for = nd.id
      /\ voted.current_term = nd.current_term + 1
      /\ voted.log = nd.log
      /\ SameQueues(nd, voted)
      /\ voted.broken = nd.broken
  BY NextTermVote
<1> HIDE DEF voted, nd2
<1>3. CASE IsSelfSoloVoter(voted)
  <2>1. Elected(voted, nd2, C)
    BY <1>1, <1>2, <1>3, TransitionToLeaderElects
  <2>2. Evolves(nd, nd2)
    BY <1>2, <2>1, EvolvesTransitive DEF Sound, Elected
  <2>3. Solo(nd.id, C)
    <3>1. Config(voted) = Config(nd)
      BY <1>2 DEF Config
    <3>2. Config(nd) \in C
      BY VoterStands
    <3> QED
      BY <1>2, <1>3, <3>1, <3>2 DEF IsSelfSoloVoter, Solo
  <2>4. CallsOnly(nd.actions, nd2.actions, nd2.current_term)
    BY <1>2, <2>1 DEF Elected, CallsOnly, Said, SameQueues
  <2>5. Candidacy(nd, nd2, C)
    BY <1>2, <2>1, <2>2, <2>3, <2>4 DEF Candidacy, Elected
  <2> QED
    BY <2>5 DEF nd2
<1>4. CASE ~IsSelfSoloVoter(voted)
  <2>1. /\ Sound(role, C)
        /\ Evolves(voted, role)
        /\ role.id = voted.id
        /\ role.voted_for = voted.voted_for
        /\ role.current_term = voted.current_term
        /\ role.log = voted.log
        /\ role.commit_index = voted.commit_index
        /\ role.role = "Candidate"
        /\ role.followers = <<>>
        /\ role.actions = voted.actions
        /\ role.broken = voted.broken
    BY <1>2, RoleSound
  <2> HIDE DEF role
  <2>2. /\ Alike(role, candidate)
        /\ candidate.log = role.log
        /\ candidate.commit_index = role.commit_index
        /\ candidate.role = role.role
        /\ candidate.granted_votes = {nd.id}
        /\ candidate.followers = role.followers
        /\ candidate.broken = role.broken
    BY <2>1 DEF Sound, IsNode, IsRecord, Alike
  <2> HIDE DEF candidate
  <2>3. Evolves(role, candidate)
    BY <2>1, <2>2, AlikeEvolves DEF Sound
  <2>4. Sound(candidate, C)
    BY <2>1, <2>2, <2>3 DEF Sound, Stands, Evolves, Alike
  <2>5. /\ IsCall(call)
        /\ MessageOK(call, C)
        /\ Speaks(call, candidate.id, candidate.current_term)
        /\ call.type = "RequestVoteCall"
        /\ call.term = candidate.current_term
    <3>1. Speaks(call, candidate.id, candidate.current_term)
      BY <2>4, NewMessagesSpeak DEF Sound
    <3>2. call.type = "RequestVoteCall" /\ call.term = candidate.current_term
      BY DEF RequestVoteCall
    <3> HIDE DEF call
    <3> QED
      BY <3>1, <3>2 DEF IsCall, MessageOK
  <2> HIDE DEF call
  <2>6. Utters(candidate, sent, C, call)
    BY <2>4, <2>5, QueueBroadcastUtters
  <2> HIDE DEF sent
  <2>7. Idles(sent, timed, C)
    BY <2>6, TimerIdles DEF Utters
  <2> HIDE DEF timed
  <2>8. nd2 = timed
    BY <1>1, <1>4
  <2>9. Evolves(nd, timed)
    <3>1. IsNode(nd) /\ IsNode(voted) /\ IsNode(role) /\ IsNode(candidate) /\ IsNode(sent)
      BY <1>2, <2>1, <2>4, <2>6 DEF Sound, Utters
    <3>2. Evolves(nd, role)
      BY <1>2, <2>1, <3>1, EvolvesTransitive
    <3>3. Evolves(nd, candidate)
      BY <2>3, <3>1, <3>2, EvolvesTransitive
    <3>4. Evolves(candidate, timed)
      BY <2>6, <2>7, <3>1, EvolvesTransitive DEF Utters, Idles
    <3> QED
      BY <3>1, <3>3, <3>4, EvolvesTransitive
  <2>10. /\ timed.current_term = nd.current_term + 1
         /\ timed.voted_for = nd.id
         /\ timed.role = "Candidate"
         /\ timed.granted_votes = {nd.id}
         /\ "two leaders" \in timed.broken => "two leaders" \in nd.broken
    BY <1>2, <2>1, <2>2, <2>6, <2>7 DEF Utters, Idles, SameState, Alike
  <2>11. StandsOnly(nd.actions, timed.actions, timed.current_term)
    <3>1. ASSUME NEW type \in Binding, NEW t, NEW to, Said(timed.actions, type, t, to)
          PROVE  Said(nd.actions, type, t, to) \/ (type = "RequestVoteCall" /\ t = timed.current_term)
      <4>1. Said(candidate.actions, type, t, to) \/ Tells(call, type, t)
        BY <2>6, <2>7, <3>1 DEF Utters, Idles, Quiet
      <4>2. Said(candidate.actions, type, t, to) => Said(nd.actions, type, t, to)
        BY <1>2, <2>1, <2>2 DEF Said, SameQueues, Alike
      <4>3. Tells(call, type, t) => type = "RequestVoteCall" /\ t = timed.current_term
        BY <1>2, <2>1, <2>2, <2>5, <2>10, ZenonT(60) DEF Tells, Alike
      <4> QED
        BY <4>1, <4>2, <4>3
    <3> QED
      BY <3>1 DEF StandsOnly
  <2>12. Sound(timed, C)
    BY <2>7 DEF Idles
  <2>13. Candidacy(nd, timed, C)
    BY <2>9, <2>10, <2>11, <2>12 DEF Candidacy
  <2> QED
    BY <2>8, <2>13 DEF nd2
<1> QED
  BY <1>3, <1>4

-----------------------------------------------------------------------------
(* What a call may change, W being the votes the node counts, E the        *)
(* leaders so far and H the candidacies it has heard of.                   *)

\* A vote is kept for the term, unless the node was removed or follows a leader.
VoteKept(nd, nd2, C, E) ==
  nd2.current_term = nd.current_term =>
    \/ nd.voted_for \in {Nil, nd2.voted_for}
    \/ Removable(nd.id, C)
    \/ <<nd2.current_term, nd2.voted_for>> \in E

\* The node leads only if it has led before, is alone, or has won.
LeadsRightly(nd, nd2, C, W) ==
  nd2.role = "Leader" =>
    \/ /\ nd.role = "Leader"
       /\ nd2.current_term = nd.current_term
       /\ Extends(nd.log.entries, nd2.log.entries)
       /\ FollowersRise(nd, nd2)
    \/ Solo(nd.id, C) /\ nd.current_term < nd2.current_term
    \/ /\ nd.role = "Candidate"
       /\ nd2.current_term = nd.current_term
       /\ \E c \in C : Wins(W, c)

\* A candidate counts votes of its term only.
CountsRightly(nd, nd2, W) ==
  nd2.role = "Candidate" =>
    \/ /\ nd.role = "Candidate"
       /\ nd2.current_term = nd.current_term
       /\ nd2.granted_votes \subseteq W
    \/ /\ nd.current_term < nd2.current_term
       /\ nd2.granted_votes \subseteq {nd.id}

\* The node grants its vote to the candidate it has given it to, stands for election with its
\* own vote, and speaks as a leader in terms that it leads.
SpeaksRightly(nd, nd2, H) ==
  \A type \in Binding : \A t, to :
    Said(nd2.actions, type, t, to) =>
      \/ Said(nd.actions, type, t, to)
      \/ type = "RequestVoteReply" /\ t = nd2.current_term /\ to = nd2.voted_for
           /\ <<t, to>> \in H
      \/ type = "RequestVoteCall" /\ t = nd2.current_term /\ nd2.role = "Candidate"
      \/ type = "AppendEntriesCall" /\ t = nd2.current_term /\ "Leader" \in {nd.role, nd2.role}
           /\ (nd2.role # "Leader" => nd2.current_term = nd.current_term)

\* A leader hears of another leader of its term only if there is one.
HearsRightly(nd, nd2, E) ==
  "two leaders" \in nd2.broken =>
    \/ "two leaders" \in nd.broken
    \/ nd.role = "Leader" /\ \E x : x # nd.id /\ <<nd.current_term, x>> \in E

Outcome(nd, nd2, C, W, E, H) ==
  /\ Sound(nd2, C)
  /\ Evolves(nd, nd2)
  /\ VoteKept(nd, nd2, C, E)
  /\ LeadsRightly(nd, nd2, C, W)
  /\ CountsRightly(nd, nd2, W)
  /\ SpeaksRightly(nd, nd2, H)
  /\ HearsRightly(nd, nd2, E)

LEMMA IdlesOutcome ==
  ASSUME NEW C, NEW nd, Sound(nd, C), NEW nd2, Idles(nd, nd2, C), NEW W, NEW E, NEW H,
         nd.granted_votes \subseteq W
  PROVE  Outcome(nd, nd2, C, W, E, H)
<1>1. VoteKept(nd, nd2, C, E)
  BY DEF VoteKept, Idles, SameState
<1>2. LeadsRightly(nd, nd2, C, W)
  <2>1. Extends(nd.log.entries, nd2.log.entries)
    BY SoundLog, ExtendsReflexive DEF Idles, SameState
  <2>2. FollowersRise(nd, nd2)
    BY FollowersSame DEF Idles, SameState
  <2> QED
    BY <2>1, <2>2 DEF LeadsRightly, Idles, SameState
<1>3. CountsRightly(nd, nd2, W)
  BY DEF CountsRightly, Idles, SameState
<1>4. SpeaksRightly(nd, nd2, H)
  BY DEF SpeaksRightly, Idles, Quiet
<1>5. HearsRightly(nd, nd2, E)
  BY DEF HearsRightly, Idles
<1> QED
  BY <1>1, <1>2, <1>3, <1>4, <1>5 DEF Outcome, Idles

LEMMA TenureOutcome ==
  ASSUME NEW C, NEW nd, Sound(nd, C), nd.role = "Leader", NEW nd2, Tenure(nd, nd2, C),
         NEW W, NEW E, NEW H
  PROVE  Outcome(nd, nd2, C, W, E, H)
<1>1. VoteKept(nd, nd2, C, E)
  BY DEF VoteKept, Tenure
<1>2. LeadsRightly(nd, nd2, C, W)
  BY DEF LeadsRightly, Tenure
<1>3. CountsRightly(nd, nd2, W)
  BY DEF CountsRightly, Tenure
<1>4. SpeaksRightly(nd, nd2, H)
  BY DEF SpeaksRightly, Tenure, CallsOnly
<1>5. HearsRightly(nd, nd2, E)
  BY DEF HearsRightly, Tenure
<1> QED
  BY <1>1, <1>2, <1>3, <1>4, <1>5 DEF Outcome, Tenure

LEMMA StepsDownOutcome ==
  ASSUME NEW C, NEW nd, Sound(nd, C), nd.role = "Leader", NEW nd2, StepsDown(nd, nd2, C),
         NEW W, NEW E, NEW H
  PROVE  Outcome(nd, nd2, C, W, E, H)
<1>1. VoteKept(nd, nd2, C, E)
  BY DEF VoteKept, StepsDown
<1>2. LeadsRightly(nd, nd2, C, W)
  BY DEF LeadsRightly, StepsDown
<1>3. CountsRightly(nd, nd2, W)
  BY DEF CountsRightly, StepsDown
<1>4. SpeaksRightly(nd, nd2, H)
  BY DEF SpeaksRightly, StepsDown, CallsOnly
<1>5. HearsRightly(nd, nd2, E)
  BY DEF HearsRightly, StepsDown
<1> QED
  BY <1>1, <1>2, <1>3, <1>4, <1>5 DEF Outcome, StepsDown

LEMMA NextIsLater == \A n \in Nat : n < n + 1 /\ n + 1 # n
  OBVIOUS

\* A candidacy that follows a change of log and writes only.
LEMMA CandidacyOutcome ==
  ASSUME NEW C, NEW nd, Sound(nd, C), NEW a, Sound(a, C), Evolves(nd, a),
         a.current_term = nd.current_term, Quiet(nd.actions, a.actions),
         "two leaders" \in a.broken => "two leaders" \in nd.broken,
         NEW nd2, Candidacy(a, nd2, C), NEW W, NEW E, NEW H
  PROVE  Outcome(nd, nd2, C, W, E, H)
<1>1. /\ nd.current_term \in Nat
      /\ nd2.current_term = nd.current_term + 1
      /\ a.id = nd.id
  BY DEF Candidacy, Sound, IsNode, IsRecord, Evolves
<1>2. nd.current_term < nd2.current_term /\ nd2.current_term # nd.current_term
  BY <1>1, NextIsLater
<1>3. VoteKept(nd, nd2, C, E)
  BY <1>2 DEF VoteKept
<1>4. LeadsRightly(nd, nd2, C, W)
  BY <1>1, <1>2 DEF LeadsRightly, Candidacy
<1>5. CountsRightly(nd, nd2, W)
  BY <1>1, <1>2 DEF CountsRightly, Candidacy
<1>6. SpeaksRightly(nd, nd2, H)
  BY <1>2 DEF SpeaksRightly, Candidacy, CallsOnly, StandsOnly, Quiet
<1>7. HearsRightly(nd, nd2, E)
  BY DEF HearsRightly, Candidacy
<1>8. Evolves(nd, nd2)
  BY EvolvesTransitive DEF Sound, Candidacy
<1> QED
  BY <1>3, <1>4, <1>5, <1>6, <1>7, <1>8 DEF Outcome, Candidacy

\* What follows a message of a later term does not depend on what the node was.
LEMMA DemotedOutcome ==
  ASSUME NEW C, NEW nd, Sound(nd, C), NEW term, nd.current_term < term,
         NEW a, Demoted(nd, a, C, term), NEW nd2, NEW W, NEW W2, NEW E, NEW H,
         Outcome(a, nd2, C, W, E, H)
  PROVE  Outcome(nd, nd2, C, W2, E, H)
<1>1. /\ nd.current_term \in Nat
      /\ a.current_term \in Nat
      /\ nd2.current_term \in Nat
      /\ a.current_term = term
      /\ a.current_term <= nd2.current_term
      /\ a.id = nd.id
      /\ a.role = "Follower"
  BY DEF Outcome, Demoted, Sound, IsNode, IsRecord, Evolves
<1>2. nd.current_term < nd2.current_term /\ nd2.current_term # nd.current_term
  BY <1>1
<1>3. VoteKept(nd, nd2, C, E)
  BY <1>2 DEF VoteKept
<1>4. LeadsRightly(nd, nd2, C, W2)
  BY <1>1 DEF Outcome, LeadsRightly
<1>5. CountsRightly(nd, nd2, W2)
  BY <1>1, <1>2 DEF Outcome, CountsRightly
<1>6. SpeaksRightly(nd, nd2, H)
  <2>1. nd2.role # "Leader" => ~("Leader" \in {a.role, nd2.role})
    BY <1>1
  <2>2. Quiet(nd.actions, a.actions) /\ SpeaksRightly(a, nd2, H)
    BY DEF Demoted, Outcome
  <2> QED
    BY <2>1, <2>2 DEF SpeaksRightly, Quiet
<1>7. HearsRightly(nd, nd2, E)
  BY <1>1 DEF Outcome, HearsRightly, Demoted
<1>8. Evolves(nd, nd2)
  BY EvolvesTransitive DEF Sound, Demoted, Outcome
<1> QED
  BY <1>3, <1>4, <1>5, <1>6, <1>7, <1>8 DEF Outcome

-----------------------------------------------------------------------------
(* Votes asked for and granted. *)

\* A follower votes.
LEMMA VotedSound ==
  ASSUME NEW C, NEW nd, Sound(nd, C), nd.role = "Follower", NEW v
  PROVE  LET nd2 == SetVotedFor(nd, v) IN
         /\ Sound(nd2, C)
         /\ Evolves(nd, nd2)
         /\ nd2.id = nd.id
         /\ nd2.voted_for = v
         /\ nd2.current_term = nd.current_term
         /\ nd2.log = nd.log
         /\ nd2.commit_index = nd.commit_index
         /\ nd2.role = "Follower"
         /\ Quiet(nd.actions, nd2.actions)
         /\ nd2.broken = nd.broken
<1> DEFINE nd2 == SetVotedFor(nd, v)
<1>1. IsNode(nd)
  BY DEF Sound
<1>2. Evolves(nd, nd2) /\ IsNode(nd2)
  BY <1>1, SetVotedForEvolves DEF Evolves
<1>3. /\ nd2.voted_for = v
      /\ nd2.id = nd.id
      /\ nd2.current_term = nd.current_term
      /\ nd2.log = nd.log
      /\ nd2.commit_index = nd.commit_index
      /\ nd2.role = nd.role
      /\ nd2.followers = nd.followers
      /\ SameQueues(nd, nd2)
      /\ nd2.broken = nd.broken
  BY <1>1, VotedForFacts
<1> HIDE DEF nd2
<1>4. Sound(nd2, C)
  BY <1>2, <1>3, QueuesSame DEF Sound
<1>5. Quiet(nd.actions, nd2.actions)
  BY <1>3, QuietSame DEF SameQueues
<1> QED
  BY <1>2, <1>3, <1>4, <1>5 DEF nd2

\* A message that binds nobody.
LEMMA UttersIdles ==
  ASSUME NEW C, NEW nd, NEW m, NEW nd2, Utters(nd, nd2, C, m),
         \A type \in Binding : \A t : ~Tells(m, type, t)
  PROVE  Idles(nd, nd2, C)
<1>1. Quiet(nd.actions, nd2.actions)
  BY DEF Utters, Quiet
<1> QED
  BY <1>1 DEF Utters, Idles

LEMMA FollowerOutcome ==
  ASSUME NEW C, NEW nd, NEW nd2, NEW W, NEW E, NEW H, Sound(nd2, C), Evolves(nd, nd2),
         nd2.role = "Follower", VoteKept(nd, nd2, C, E), SpeaksRightly(nd, nd2, H),
         HearsRightly(nd, nd2, E)
  PROVE  Outcome(nd, nd2, C, W, E, H)
  BY DEF Outcome, LeadsRightly, CountsRightly

LEMMA RequestVoteCallOutcome ==
  ASSUME NEW C, NEW nd, Sound(nd, C), NEW m, m.from # nd.id, NEW W,
         nd.granted_votes \subseteq W, NEW E, NEW H,
         m.term \in Nat, m.term <= nd.current_term, <<m.term, m.from>> \in H
  PROVE  Outcome(nd, HandleRequestVoteCall(nd, m), C, W, E, H)
<1> DEFINE voted == IF nd.voted_for = Nil THEN SetVotedFor(nd, m.from) ELSE nd
           no == RequestVoteReply(nd, FALSE)
           yes == RequestVoteReply(nd, TRUE)
           refused == QueueSend(nd, m.from, no)
           reply == QueueSend(voted, m.from, yes)
           follows == nd.role = "Follower"
           asserted == DebugAssert(reply, "voter is follower", follows)
           timed == SetElectionTimeout(asserted)
           nd2 == HandleRequestVoteCall(nd, m)
<1>1. nd2 = IF m.term < nd.current_term THEN refused
            ELSE IF PosLess(m.last_position, LastPosition(nd.log.entries)) THEN nd
            ELSE IF voted.voted_for # m.from THEN voted
            ELSE timed
  BY DEF HandleRequestVoteCall
<1>2. /\ MessageOK(no, C)
      /\ Speaks(no, nd.id, nd.current_term)
      /\ no.term = nd.current_term
      /\ \A type \in Binding : \A t : ~Tells(no, type, t)
  <2>1. Speaks(no, nd.id, nd.current_term)
    BY NewMessagesSpeak DEF Sound
  <2> QED
    BY <2>1 DEF MessageOK, RequestVoteReply, Tells, Binding
<1>3. /\ MessageOK(yes, C)
      /\ Speaks(yes, nd.id, nd.current_term)
      /\ yes.term = nd.current_term
      /\ yes.type = "RequestVoteReply"
  <2>1. Speaks(yes, nd.id, nd.current_term)
    BY NewMessagesSpeak DEF Sound
  <2> QED
    BY <2>1 DEF MessageOK, RequestVoteReply
<1> HIDE DEF no, yes
<1>4. Outcome(nd, refused, C, W, E, H)
  <2>1. Utters(nd, refused, C, no)
    BY <1>2, QueueSendUtters
  <2> HIDE DEF refused
  <2>2. Idles(nd, refused, C)
    BY <1>2, <2>1, UttersIdles
  <2> QED
    BY <2>2, IdlesOutcome
<1>5. Outcome(nd, nd, C, W, E, H)
  BY IdlesReflexive, IdlesOutcome
<1>6. /\ Sound(voted, C)
      /\ Evolves(nd, voted)
      /\ voted.id = nd.id
      /\ voted.current_term = nd.current_term
      /\ voted.role = nd.role
      /\ nd.voted_for \in {Nil, voted.voted_for}
      /\ nd.voted_for # Nil => voted = nd
      /\ nd.voted_for = Nil => nd.role = "Follower"
      /\ Quiet(nd.actions, voted.actions)
      /\ voted.broken = nd.broken
  <2>1. CASE nd.voted_for = Nil
    <3>1. nd.role = "Follower"
      BY <2>1 DEF Sound, Stands
    <3> QED
      BY <2>1, <3>1, VotedSound
  <2>2. CASE nd.voted_for # Nil
    BY <2>2, IdlesReflexive, QuietReflexive DEF Idles
  <2> QED
    BY <2>1, <2>2
<1> HIDE DEF voted, refused, nd2
<1>7. VoteKept(nd, voted, C, E)
  BY <1>6 DEF VoteKept
<1>8. CASE nd2 = voted
  <2>1. CASE nd.voted_for # Nil
    BY <1>5, <1>6, <1>8, <2>1 DEF nd2
  <2>2. CASE nd.voted_for = Nil
    <3>1. SpeaksRightly(nd, voted, H)
      BY <1>6 DEF SpeaksRightly, Quiet
    <3>2. HearsRightly(nd, voted, E)
      BY <1>6 DEF HearsRightly
    <3>3. Outcome(nd, voted, C, W, E, H)
      BY <1>6, <1>7, <2>2, <3>1, <3>2, FollowerOutcome
    <3> QED
      BY <1>8, <3>3 DEF nd2
  <2> QED
    BY <2>1, <2>2
<1>9. CASE ~(m.term < nd.current_term) /\ voted.voted_for = m.from /\ nd2 = timed
  <2>0. m.term = nd.current_term
    <3>1. nd.current_term \in Nat
      BY DEF Sound, IsNode, IsRecord
    <3>2. ~(m.term < nd.current_term)
      BY <1>9
    <3> HIDE DEF voted, reply, asserted, timed, follows
    <3> QED
      BY <3>1, <3>2
  <2>1. follows
    <3>1. nd.role # "Follower" => nd.voted_for = nd.id /\ nd.id # Nil
      BY DEF Sound, Stands
    <3> QED
      BY <1>6, <1>9, <3>1 DEF Sound
  <2>2. /\ Utters(voted, reply, C, yes)
        /\ \A type \in Binding : \A t, to :
             Said(reply.actions, type, t, to)
             => Said(voted.actions, type, t, to) \/ (to = m.from /\ Tells(yes, type, t))
    BY <1>3, <1>6, QueueSendUtters
  <2> HIDE DEF reply
  <2>3. asserted = reply
    BY <2>1 DEF DebugAssert
  <2> HIDE DEF asserted
  <2>4. Idles(asserted, timed, C)
    BY <2>2, <2>3, TimerIdles DEF Utters
  <2> HIDE DEF timed
  <2>5. SpeaksRightly(nd, timed, H)
    <3> SUFFICES ASSUME NEW type \in Binding, NEW t, NEW to, Said(timed.actions, type, t, to),
                        ~Said(nd.actions, type, t, to)
                 PROVE  /\ type = "RequestVoteReply"
                        /\ t = timed.current_term
                        /\ to = timed.voted_for
                        /\ <<t, to>> \in H
      BY DEF SpeaksRightly
    <3>1. Said(reply.actions, type, t, to)
      BY <2>3, <2>4 DEF Idles, Quiet
    <3>2. to = m.from /\ Tells(yes, type, t)
      BY <1>6, <2>2, <3>1 DEF Quiet
    <3>3. timed.current_term = nd.current_term /\ timed.voted_for = m.from
      BY <1>6, <1>9, <2>2, <2>3, <2>4 DEF Utters, Idles, SameState
    <3>4. type = "RequestVoteReply" /\ t = nd.current_term
      BY <1>3, <3>2 DEF Tells
    <3>5. <<t, to>> \in H
      BY <2>0, <3>2, <3>4
    <3> QED
      BY <1>9, <3>2, <3>3, <3>4, <3>5
  <2>6. /\ Sound(timed, C)
        /\ timed.role = "Follower"
        /\ timed.current_term = voted.current_term
        /\ timed.voted_for = voted.voted_for
        /\ "two leaders" \in timed.broken => "two leaders" \in nd.broken
    BY <1>6, <2>1, <2>2, <2>3, <2>4 DEF Utters, Idles, SameState
  <2>7. Evolves(nd, timed)
    <3>1. Evolves(voted, timed)
      BY <1>6, <2>2, <2>3, <2>4, EvolvesTransitive DEF Sound, Utters, Idles
    <3> QED
      BY <1>6, <3>1, EvolvesTransitive DEF Sound
  <2>8. VoteKept(nd, timed, C, E)
    BY <1>7, <2>6 DEF VoteKept
  <2>9. HearsRightly(nd, timed, E)
    BY <2>6 DEF HearsRightly
  <2>10. Outcome(nd, timed, C, W, E, H)
    BY <2>5, <2>6, <2>7, <2>8, <2>9, FollowerOutcome
  <2> QED
    BY <1>9, <2>10 DEF nd2
<1> QED
  BY <1>1, <1>4, <1>5, <1>8, <1>9 DEF nd2

\* The votes a candidate has once it has seen m.
Ballot(nd, m) ==
  nd.granted_votes
    \cup (IF m.type = "RequestVoteReply" /\ CountsVote(nd, m) THEN {m.from} ELSE {})

LEMMA RequestVoteReplyOutcome ==
  ASSUME NEW C, Closed(C), NEW nd, Sound(nd, C), NEW m, m.type = "RequestVoteReply",
         NEW E, NEW H
  PROVE  Outcome(nd, HandleRequestVoteReply(nd, m), C, Ballot(nd, m), E, H)
<1> DEFINE votes == nd.granted_votes \cup {m.from}
           voted == [nd EXCEPT !.granted_votes = votes]
           nd2 == HandleRequestVoteReply(nd, m)
           W == Ballot(nd, m)
<1>1. nd2 = IF ~CountsVote(nd, m) THEN nd
            ELSE IF Wins(voted.granted_votes, Config(nd)) THEN TransitionToLeader(voted)
            ELSE voted
  BY DEF HandleRequestVoteReply
<1>2. nd.granted_votes \subseteq W
  BY DEF Ballot
<1>3. CASE ~CountsVote(nd, m)
  <2>1. nd2 = nd
    BY <1>1, <1>3
  <2> HIDE DEF nd2, W
  <2>2. Outcome(nd, nd, C, W, E, H)
    BY <1>2, IdlesReflexive, IdlesOutcome
  <2> QED
    BY <2>1, <2>2 DEF nd2, W
<1>4. CASE CountsVote(nd, m)
  <2>1. W = votes
    BY <1>4 DEF Ballot
  <2>2. nd.role = "Candidate" /\ IsNode(nd)
    BY <1>4 DEF CountsVote, Sound
  <2> HIDE DEF votes, W, nd2
  <2>3. /\ Alike(nd, voted)
        /\ voted.log = nd.log
        /\ voted.commit_index = nd.commit_index
        /\ voted.role = nd.role
        /\ voted.granted_votes = votes
        /\ voted.followers = nd.followers
        /\ voted.broken = nd.broken
    BY <2>2 DEF IsNode, IsRecord, Alike
  <2> HIDE DEF voted
  <2>4. Evolves(nd, voted)
    BY <2>2, <2>3, AlikeEvolves
  <2>5. Sound(voted, C) /\ Stands(voted, C)
    BY <2>2, <2>3, <2>4 DEF Sound, Stands, Evolves, Alike
  <2>6. CASE Wins(votes, Config(nd)) /\ nd2 = TransitionToLeader(voted)
    <3>1. Elected(voted, nd2, C)
      BY <2>5, <2>6, TransitionToLeaderElects
    <3>2. Evolves(nd, nd2)
      BY <2>2, <2>4, <3>1, EvolvesTransitive DEF Elected
    <3>3. VoteKept(nd, nd2, C, E)
      BY <2>3, <3>1 DEF VoteKept, Elected, Alike
    <3>4. LeadsRightly(nd, nd2, C, W)
      <4>1. Config(nd) \in C
        <5>1. ~(LastIndex(nd.log.entries) = 0)
          BY <2>2 DEF Sound, Stands
        <5> QED
          BY <5>1, SoundLog, LatestConfigTyped DEF Config
      <4> QED
        BY <2>1, <2>2, <2>3, <2>6, <3>1, <4>1 DEF LeadsRightly, Elected, Alike
    <3>5. CountsRightly(nd, nd2, W)
      BY <3>1 DEF CountsRightly, Elected
    <3>6. SpeaksRightly(nd, nd2, H)
      BY <2>3, <3>1 DEF SpeaksRightly, Elected, CallsOnly, Alike
    <3>7. HearsRightly(nd, nd2, E)
      BY <2>3, <3>1 DEF HearsRightly, Elected
    <3>8. Outcome(nd, nd2, C, W, E, H)
      BY <3>1, <3>2, <3>3, <3>4, <3>5, <3>6, <3>7 DEF Outcome, Elected
    <3> QED
      BY <3>8 DEF nd2, W
  <2>7. CASE nd2 = voted
    <3>1. VoteKept(nd, voted, C, E)
      BY <2>3 DEF VoteKept, Alike
    <3>2. LeadsRightly(nd, voted, C, W)
      BY <2>2, <2>3 DEF LeadsRightly
    <3>3. CountsRightly(nd, voted, W)
      BY <2>1, <2>2, <2>3 DEF CountsRightly, Alike
    <3>4. SpeaksRightly(nd, voted, H)
      BY <2>3 DEF SpeaksRightly, Alike
    <3>5. HearsRightly(nd, voted, E)
      BY <2>3 DEF HearsRightly
    <3>6. Outcome(nd, voted, C, W, E, H)
      BY <2>4, <2>5, <3>1, <3>2, <3>3, <3>4, <3>5 DEF Outcome
    <3> QED
      BY <2>7, <3>6 DEF nd2, W
  <2> QED
    BY <1>1, <1>4, <2>3, <2>6, <2>7 DEF nd2
<1> QED
  BY <1>3, <1>4

-----------------------------------------------------------------------------
(* Replication. *)

LEMMA TwoIndices ==
  ASSUME NEW a \in Nat, NEW b \in Nat
  PROVE  Min({a, b}) \in Nat /\ Max({a, b}) \in Nat
<1>1. \E x \in {a, b} : \A y \in {a, b} : x <= y
  OBVIOUS
<1>2. \E x \in {a, b} : \A y \in {a, b} : x >= y
  OBVIOUS
<1>3. Min({a, b}) \in {a, b}
  BY <1>1 DEF Min
<1>4. Max({a, b}) \in {a, b}
  BY <1>2 DEF Max
<1> QED
  BY <1>3, <1>4

\* The node follows the leader `from', and says nothing new.
Following(nd, nd2, C, from) ==
  /\ Sound(nd2, C)
  /\ Evolves(nd, nd2)
  /\ nd2.current_term = nd.current_term
  /\ nd2.voted_for = from
  /\ nd2.role = "Follower"
  /\ Quiet(nd.actions, nd2.actions)
  /\ "two leaders" \in nd2.broken => "two leaders" \in nd.broken

LEMMA FollowingIdles ==
  ASSUME NEW C, NEW nd, Sound(nd, C), NEW a, NEW from, Following(nd, a, C, from),
         NEW nd2, Idles(a, nd2, C)
  PROVE  Following(nd, nd2, C, from)
<1>1. Evolves(nd, nd2)
  BY EvolvesTransitive DEF Sound, Following, Idles
<1> QED
  BY <1>1 DEF Following, Idles, SameState, Quiet

LEMMA FollowingOutcome ==
  ASSUME NEW C, NEW nd, Sound(nd, C), NEW nd2, NEW from, Following(nd, nd2, C, from),
         NEW W, NEW E, NEW H, <<nd.current_term, from>> \in E
  PROVE  Outcome(nd, nd2, C, W, E, H)
<1>1. VoteKept(nd, nd2, C, E)
  BY DEF VoteKept, Following
<1>2. SpeaksRightly(nd, nd2, H)
  BY DEF SpeaksRightly, Following, Quiet
<1>3. HearsRightly(nd, nd2, E)
  BY DEF HearsRightly, Following
<1> QED
  BY <1>1, <1>2, <1>3, FollowerOutcome DEF Following

\* A follower with another log and commit index.
LEMMA FollowerLog ==
  ASSUME NEW C, NEW nd, Sound(nd, C), nd.role = "Follower",
         NEW es \in Entries(C), es.prev = nd.log.entries.prev
  PROVE  LET nd2 == [nd EXCEPT !.log.entries = es] IN
         /\ Sound(nd2, C)
         /\ Evolves(nd, nd2)
         /\ nd2.current_term = nd.current_term
         /\ nd2.voted_for = nd.voted_for
         /\ nd2.role = nd.role
         /\ nd2.actions = nd.actions
         /\ nd2.broken = nd.broken
<1> DEFINE log == [nd.log EXCEPT !.entries = es]
           nd2 == [nd EXCEPT !.log.entries = es]
<1>1. nd2 = [nd EXCEPT !.log = log]
  OBVIOUS
<1>2. log \in Logs(C)
  BY SoundLog, WithEntries
<1> HIDE DEF log
<1>3. Evolves(nd, nd2) /\ IsNode(nd2)
  <2>1. Evolves(nd, [nd EXCEPT !.log = log])
    BY LogEvolves DEF Sound
  <2> HIDE DEF nd2
  <2> QED
    BY <1>1, <2>1 DEF Evolves
<1>4. /\ nd2.id = nd.id
      /\ nd2.voted_for = nd.voted_for
      /\ nd2.current_term = nd.current_term
      /\ nd2.log = log
      /\ nd2.commit_index = nd.commit_index
      /\ nd2.role = nd.role
      /\ nd2.followers = nd.followers
      /\ nd2.actions = nd.actions
      /\ nd2.broken = nd.broken
  BY <1>1 DEF Sound, IsNode, IsRecord
<1> HIDE DEF nd2
<1>5. Sound(nd2, C)
  BY <1>2, <1>3, <1>4 DEF Sound
<1> QED
  BY <1>3, <1>4, <1>5 DEF nd2

LEMMA FollowerCommit ==
  ASSUME NEW C, NEW nd, Sound(nd, C), nd.role = "Follower", NEW i \in Nat
  PROVE  LET nd2 == [nd EXCEPT !.commit_index = i] IN
         /\ Sound(nd2, C)
         /\ Evolves(nd, nd2)
         /\ nd2.current_term = nd.current_term
         /\ nd2.voted_for = nd.voted_for
         /\ nd2.role = nd.role
         /\ nd2.actions = nd.actions
         /\ nd2.broken = nd.broken
<1> DEFINE nd2 == [nd EXCEPT !.commit_index = i]
<1>1. IsNode(nd)
  BY DEF Sound
<1>2. /\ Alike(nd, nd2)
      /\ nd2.log = nd.log
      /\ nd2.commit_index = i
      /\ nd2.role = nd.role
      /\ nd2.followers = nd.followers
      /\ nd2.broken = nd.broken
  BY <1>1 DEF IsNode, IsRecord, Alike
<1> HIDE DEF nd2
<1>3. Evolves(nd, nd2) /\ IsNode(nd2)
  BY <1>1, <1>2, AlikeEvolves DEF Evolves
<1>4. Sound(nd2, C)
  BY <1>2, <1>3 DEF Sound, Alike
<1> QED
  BY <1>2, <1>3, <1>4 DEF Alike, nd2

LEMMA AppendFromLeaderFollows ==
  ASSUME NEW C, NEW nd, Sound(nd, C), nd.role = "Follower", NEW es \in Entries(C)
  PROVE  Following(nd, AppendFromLeader(nd, es).nd, C, nd.voted_for)
<1> DEFINE local == nd.log.entries
           delta == StripCommonPrefix(es, local)
           n == es.prev.index - local.prev.index - 1
           kept == Truncate(local, n)
           grown == AppendUnchecked(local, delta)
           queued == QueueAppend(nd, delta)
           appended == [queued EXCEPT !.log.entries = grown]
           truncated == [nd EXCEPT !.log.entries = kept]
           nd2 == AppendFromLeader(nd, es).nd
<1>1. local \in Entries(C)
  BY SoundLog
<1>2. Following(nd, nd, C, nd.voted_for)
  BY IdlesReflexive DEF Following, Idles
<1>3. CASE ~Contains(local, LastPosition(es)) /\ Contains(local, es.prev) /\ nd2 = appended
  <2>1. delta \in Entries(C) /\ delta.ents # <<>> /\ Contains(local, delta.prev)
    BY <1>1, <1>3, StripTyped
  <2>2. delta \in Writes(C)
    BY <2>1 DEF Writes
  <2>3. local.prev.index = 0 /\ local.ents = <<>> => delta.prev.index = 0
    <3>1. delta.prev.index \in Nat /\ delta.prev.index <= LastIndex(local)
      BY <1>1, <2>1, TermAtTyped DEF Contains
    <3>2. LastIndex(local) = local.prev.index + Len(local.ents)
          /\ (local.ents = <<>> <=> Len(local.ents) = 0)
      BY <1>1, EntriesFacts
    <3> QED
      BY <3>1, <3>2
  <2>4. grown \in Entries(C) /\ grown.prev = local.prev
    BY <1>1, <2>1, <2>3, AppendUncheckedTyped
  <2>5. Idles(nd, queued, C)
    BY <2>2, QueueAppendIdles
  <2> HIDE DEF delta, grown, queued
  <2>6. Sound(queued, C) /\ queued.role = "Follower" /\ queued.log = nd.log
    BY <2>5 DEF Idles, SameState
  <2>7. /\ Sound(appended, C)
        /\ Evolves(queued, appended)
        /\ appended.current_term = queued.current_term
        /\ appended.voted_for = queued.voted_for
        /\ appended.role = queued.role
        /\ appended.actions = queued.actions
        /\ appended.broken = queued.broken
    BY <2>4, <2>6, FollowerLog
  <2> HIDE DEF appended, nd2
  <2>8. Evolves(nd, appended)
    BY <2>5, <2>7, EvolvesTransitive DEF Sound, Idles
  <2>9. Following(nd, appended, C, nd.voted_for)
    BY <2>5, <2>7, <2>8 DEF Idles, SameState, Following
  <2> QED
    BY <1>3, <2>9 DEF nd2
<1>4. CASE nd2 = truncated
  <2>1. n \in Int
    BY <1>1, EntriesFacts
  <2> HIDE DEF n
  <2>2. kept \in Entries(C) /\ kept.prev = local.prev
    BY <1>1, <2>1, TruncateTyped
  <2> HIDE DEF kept, nd2
  <2>3. /\ Sound(truncated, C)
        /\ Evolves(nd, truncated)
        /\ truncated.current_term = nd.current_term
        /\ truncated.voted_for = nd.voted_for
        /\ truncated.role = nd.role
        /\ truncated.actions = nd.actions
        /\ truncated.broken = nd.broken
    BY <2>2, FollowerLog
  <2> HIDE DEF truncated
  <2>4. Following(nd, truncated, C, nd.voted_for)
    BY <2>3, QuietReflexive DEF Following
  <2> QED
    BY <1>4, <2>4 DEF nd2
<1>5. \/ nd2 = nd
      \/ ~Contains(local, LastPosition(es)) /\ Contains(local, es.prev) /\ nd2 = appended
      \/ nd2 = truncated
  <2> HIDE DEF delta, kept, appended, truncated
  <2> USE DEF AppendFromLeader
  <2>1. nd2 = (IF Contains(local, LastPosition(es))
               THEN [nd |-> nd, agrees |-> LastPosition(local) = LastPosition(es)]
               ELSE IF Contains(local, es.prev)
               THEN [nd |-> appended, agrees |-> TRUE]
               ELSE IF ContainsIndex(local, es.prev.index)
               THEN [nd |-> truncated, agrees |-> FALSE]
               ELSE [nd |-> nd, agrees |-> FALSE]).nd
    BY DEF delta, kept, appended, truncated
  <2> HIDE DEF AppendFromLeader, nd2
  <2> QED
    BY <2>1
<1> QED
  BY <1>2, <1>3, <1>4, <1>5

LEMMA AppendEntriesReplyIdles ==
  ASSUME NEW C, NEW nd, Sound(nd, C), NEW to
  PROVE  Idles(nd, QueueSend(nd, to, AppendEntriesReply(nd)), C)
<1> DEFINE m == AppendEntriesReply(nd)
           nd2 == QueueSend(nd, to, m)
<1>1. /\ MessageOK(m, C)
      /\ Speaks(m, nd.id, nd.current_term)
      /\ m.term = nd.current_term
      /\ \A type \in Binding : \A t : ~Tells(m, type, t)
  <2>1. Speaks(m, nd.id, nd.current_term)
    BY NewMessagesSpeak DEF Sound
  <2>2. LastPosition(nd.log.entries) \in Position
    BY SoundLog, LastPositionTyped
  <2> QED
    BY <2>1, <2>2 DEF MessageOK, AppendEntriesReply, Tells, Binding
<1> HIDE DEF m
<1>2. Utters(nd, nd2, C, m)
  BY <1>1, QueueSendUtters
<1> HIDE DEF nd2
<1>3. Idles(nd, nd2, C)
  BY <1>1, <1>2, UttersIdles
<1> QED
  BY <1>3 DEF m, nd2

LEMMA AppendEntriesCallOutcome ==
  ASSUME NEW C, NEW nd, Sound(nd, C), NEW m, MessageOK(m, C),
         m.type = "AppendEntriesCall", m.term \in Nat, m.term <= nd.current_term,
         m.from # nd.id, NEW W, nd.granted_votes \subseteq W,
         NEW E, NEW H, <<m.term, m.from>> \in E
  PROVE  Outcome(nd, HandleAppendEntriesCall(nd, m), C, W, E, H)
<1> DEFINE follower == IF nd.role = "Follower" THEN nd ELSE SetRole(nd, "Follower")
           voted == IF follower.voted_for = m.from THEN follower
                    ELSE SetVotedFor(follower, m.from)
           result == AppendFromLeader(voted, m.entries)
           grown == result.nd
           known == Min({m.commit_index, LastIndex(grown.log.entries)})
           i == Max({grown.commit_index, known})
           updated == IF result.agrees THEN [grown EXCEPT !.commit_index = i] ELSE grown
           replied == QueueSend(updated, m.from, AppendEntriesReply(updated))
           timed == SetElectionTimeout(replied)
           stale == QueueSend(nd, m.from, AppendEntriesReply(nd))
           rival == DebugAssert(nd, "two leaders", FALSE)
           mismatched == DebugAssert(voted, "LocalSnapshotMismatch", FALSE)
           nd2 == HandleAppendEntriesCall(nd, m)
<1>1. nd2 = IF m.term < nd.current_term THEN stale
            ELSE IF nd.role = "Leader" THEN rival
            ELSE IF LocalSnapshotMismatch(voted, m.entries) THEN mismatched
            ELSE timed
  BY DEF HandleAppendEntriesCall
<1>2. Outcome(nd, stale, C, W, E, H)
  BY AppendEntriesReplyIdles, IdlesOutcome
<1>3. m.term < nd.current_term <=> m.term # nd.current_term
  BY DEF Sound, IsNode, IsRecord
<1>4. Following(nd, voted, C, m.from)
  <2>1. /\ Sound(follower, C)
        /\ Evolves(nd, follower)
        /\ follower.current_term = nd.current_term
        /\ follower.role = "Follower"
        /\ follower.actions = nd.actions
        /\ follower.broken = nd.broken
    BY RoleSound, IdlesReflexive, ZenonT(60) DEF Idles
  <2> HIDE DEF follower
  <2>2. CASE follower.voted_for = m.from
    BY <2>1, <2>2, QuietReflexive DEF Following
  <2>3. CASE voted = SetVotedFor(follower, m.from)
    <3>1. /\ Sound(voted, C)
          /\ Evolves(follower, voted)
          /\ voted.voted_for = m.from
          /\ voted.current_term = follower.current_term
          /\ voted.role = "Follower"
          /\ Quiet(follower.actions, voted.actions)
          /\ voted.broken = follower.broken
      BY <2>1, <2>3, VotedSound
    <3> HIDE DEF voted
    <3>2. Evolves(nd, voted)
      BY <2>1, <3>1, EvolvesTransitive DEF Sound
    <3> QED
      BY <2>1, <3>1, <3>2 DEF Following
  <2> QED
    BY <2>2, <2>3
<1> HIDE DEF follower, voted, stale
<1>5. CASE m.term = nd.current_term /\ nd.role = "Leader"
  <2>1. Evolves(nd, rival) /\ Alike(nd, rival) /\ IsNode(rival)
    BY DebugAssertEvolves DEF Sound
  <2>2. SameState(nd, rival) /\ rival.actions = nd.actions /\ Breaks(nd, rival, {"two leaders"})
    BY AssertFacts DEF Sound
  <2> HIDE DEF rival
  <2>3. rival.broken \cap NodeAssertions = {}
    BY <2>2 DEF Breaks, Sound, NodeAssertions
  <2>4. Sound(rival, C)
    BY <2>1, <2>2, <2>3, SoundSame DEF Sound
  <2>5. VoteKept(nd, rival, C, E)
    BY <2>2 DEF VoteKept, SameState
  <2>6. LeadsRightly(nd, rival, C, W)
    <3>1. Extends(nd.log.entries, rival.log.entries)
      BY <2>2, SoundLog, ExtendsReflexive DEF SameState
    <3>2. FollowersRise(nd, rival)
      BY <2>2, FollowersSame DEF SameState
    <3> QED
      BY <1>5, <2>2, <3>1, <3>2 DEF LeadsRightly, SameState
  <2>7. CountsRightly(nd, rival, W)
    BY <1>5, <2>2 DEF CountsRightly, SameState
  <2>8. SpeaksRightly(nd, rival, H)
    BY <2>2 DEF SpeaksRightly
  <2>9. HearsRightly(nd, rival, E)
    BY <1>5 DEF HearsRightly
  <2>10. Outcome(nd, rival, C, W, E, H)
    BY <2>1, <2>4, <2>5, <2>6, <2>7, <2>8, <2>9 DEF Outcome
  <2> HIDE DEF mismatched, timed, nd2
  <2>11. nd2 = rival
    BY <1>1, <1>3, <1>5
  <2> QED
    BY <2>10, <2>11 DEF nd2
<1>6. CASE m.term = nd.current_term /\ nd2 = mismatched
  <2>1. Idles(voted, mismatched, C)
    BY <1>4, AssertIdles DEF Following, NodeAssertions
  <2> HIDE DEF mismatched, nd2
  <2>2. Outcome(nd, mismatched, C, W, E, H)
    BY <1>4, <1>6, <2>1, FollowingIdles, FollowingOutcome
  <2> QED
    BY <1>6, <2>2 DEF nd2
<1>7. CASE m.term = nd.current_term /\ nd2 = timed
  <2>1. Sound(voted, C) /\ voted.role = "Follower" /\ voted.voted_for = m.from
    BY <1>4 DEF Following
  <2>2. m.entries \in Entries(C) /\ m.commit_index \in Nat
    BY DEF MessageOK
  <2>3. Following(voted, grown, C, m.from)
    BY <2>1, <2>2, AppendFromLeaderFollows
  <2> HIDE DEF result, grown
  <2>4. i \in Nat
    <3>1. grown.commit_index \in Nat /\ LastIndex(grown.log.entries) \in Nat
      BY <2>3, SoundLog, EntriesFacts DEF Following, Sound
    <3>2. known \in Nat
      BY <2>2, <3>1, TwoIndices
    <3> HIDE DEF known
    <3> QED
      BY <3>1, <3>2, TwoIndices
  <2> HIDE DEF i
  <2>5. Following(voted, updated, C, m.from)
    <3> DEFINE up == [grown EXCEPT !.commit_index = i]
    <3>1. /\ Sound(up, C)
          /\ Evolves(grown, up)
          /\ up.current_term = grown.current_term
          /\ up.voted_for = grown.voted_for
          /\ up.role = grown.role
          /\ up.actions = grown.actions
          /\ up.broken = grown.broken
      BY <2>3, <2>4, FollowerCommit DEF Following
    <3> HIDE DEF up
    <3>2. Evolves(voted, up)
      BY <2>1, <2>3, <3>1, EvolvesTransitive DEF Sound, Following
    <3>3. Following(voted, up, C, m.from)
      BY <2>3, <3>1, <3>2 DEF Following
    <3> QED
      BY <2>3, <3>3 DEF up
  <2> HIDE DEF updated
  <2>6. Sound(updated, C)
    BY <2>5 DEF Following
  <2>7. Idles(updated, replied, C)
    BY <2>6, AppendEntriesReplyIdles
  <2> HIDE DEF replied
  <2>8. Idles(replied, timed, C)
    BY <2>7, TimerIdles DEF Idles
  <2> HIDE DEF timed, nd2
  <2>9. Following(voted, timed, C, m.from)
    BY <2>1, <2>5, <2>7, <2>8, FollowingIdles DEF Idles
  <2>10. Following(nd, timed, C, m.from)
    <3>1. Evolves(nd, timed)
      BY <1>4, <2>9, EvolvesTransitive DEF Sound, Following
    <3> QED
      BY <1>4, <2>9, <3>1 DEF Following, Quiet
  <2>11. Outcome(nd, timed, C, W, E, H)
    BY <1>7, <2>10, FollowingOutcome
  <2> QED
    BY <1>7, <2>11 DEF nd2
<1> HIDE DEF nd2, rival, mismatched, timed
<1>8. Outcome(nd, nd2, C, W, E, H)
  BY <1>1, <1>2, <1>3, <1>5, <1>6, <1>7 DEF nd2
<1> QED
  BY <1>8 DEF nd2

\* A leader's call to one follower.
LEMMA CallTenure ==
  ASSUME NEW C, NEW nd, Sound(nd, C), nd.role = "Leader", NEW to, NEW entries \in Entries(C)
  PROVE  LET nd2 == QueueSend(nd, to, AppendEntriesCall(nd, entries)) IN
         Tenure(nd, nd2, C) /\ SameState(nd, nd2)
<1> DEFINE m == AppendEntriesCall(nd, entries)
           nd2 == QueueSend(nd, to, m)
<1>1. /\ MessageOK(m, C)
      /\ Speaks(m, nd.id, nd.current_term)
      /\ m.type = "AppendEntriesCall"
      /\ m.term = nd.current_term
  BY NewCallTyped
<1> HIDE DEF m
<1>2. Utters(nd, nd2, C, m)
  BY <1>1, QueueSendUtters
<1> HIDE DEF nd2
<1>3. Tenure(nd, nd2, C) /\ SameState(nd, nd2)
  BY <1>1, <1>2, UttersTenure DEF Utters
<1> QED
  BY <1>3 DEF m, nd2

LEMMA RepairFollowerTenure ==
  ASSUME NEW C, NEW nd, Sound(nd, C), nd.role = "Leader", NEW from, NEW p \in Position
  PROVE  Tenure(nd, RepairFollower(nd, from, p), C)
<1> DEFINE es == nd.log.entries
           entries == NewEntries(Pos(TermAt(es, p.index), p.index))
           probe == QueueSend(nd, from, AppendEntriesCall(nd, entries))
           transfer == QueueInstallSnapshot(nd, from)
<1>1. RepairFollower(nd, from, p) = IF ContainsIndex(es, p.index) THEN probe
                                    ELSE IF LastIndex(es) < p.index THEN nd
                                    ELSE transfer
  BY DEF RepairFollower
<1>2. ContainsIndex(es, p.index) => Tenure(nd, probe, C)
  BY SoundLog, PositionTyped, NewEntriesTyped, CallTenure
<1>3. Tenure(nd, nd, C)
  BY IdlesReflexive, IdlesTenure
<1>4. Tenure(nd, transfer, C)
  BY QueueInstallSnapshotIdles, IdlesTenure
<1> HIDE DEF probe, transfer
<1> QED
  BY <1>1, <1>2, <1>3, <1>4

\* The follower has reported a later match.
LEMMA MatchedTenure ==
  ASSUME NEW C, NEW nd, Sound(nd, C), nd.role = "Leader", NEW f \in DOMAIN nd.followers,
         NEW i \in Nat, i >= nd.followers[f]
  PROVE  LET nd2 == [nd EXCEPT !.followers[f] = i] IN
         /\ Tenure(nd, nd2, C)
         /\ nd2.log = nd.log
         /\ DOMAIN nd2.followers = DOMAIN nd.followers
<1> DEFINE followers == [nd.followers EXCEPT ![f] = i]
           nd2 == [nd EXCEPT !.followers[f] = i]
<1>1. nd2 = [nd EXCEPT !.followers = followers]
  OBVIOUS
<1>2. IsNode(nd) /\ \A g \in DOMAIN nd.followers : nd.followers[g] \in Nat
  BY DEF Sound
<1>3. /\ DOMAIN followers = DOMAIN nd.followers
      /\ \A g \in DOMAIN nd.followers : followers[g] = IF g = f THEN i ELSE nd.followers[g]
  OBVIOUS
<1>4. \A g \in DOMAIN nd.followers : followers[g] \in Nat /\ nd.followers[g] <= followers[g]
  BY <1>2, <1>3
<1> HIDE DEF followers
<1>5. /\ Alike(nd, nd2)
      /\ nd2.log = nd.log
      /\ nd2.commit_index = nd.commit_index
      /\ nd2.role = nd.role
      /\ nd2.followers = followers
      /\ nd2.broken = nd.broken
  BY <1>1, <1>2 DEF IsNode, IsRecord, Alike
<1> HIDE DEF nd2
<1>6. Evolves(nd, nd2) /\ IsNode(nd2)
  BY <1>2, <1>5, AlikeEvolves DEF Evolves
<1>7. Sound(nd2, C)
  BY <1>3, <1>4, <1>5, <1>6 DEF Sound, Stands, Alike
<1>8. Extends(nd.log.entries, nd2.log.entries)
  BY <1>5, SoundLog, ExtendsReflexive
<1>9. FollowersRise(nd, nd2)
  BY <1>3, <1>4, <1>5 DEF FollowersRise
<1>10. CallsOnly(nd.actions, nd2.actions, nd.current_term)
  BY <1>5 DEF CallsOnly, Alike
<1>11. Tenure(nd, nd2, C)
  BY <1>5, <1>6, <1>7, <1>8, <1>9, <1>10 DEF Tenure, Alike
<1> QED
  BY <1>3, <1>5, <1>11 DEF nd2

LEMMA StepsDownUtters ==
  ASSUME NEW C, NEW nd, Sound(nd, C), NEW a, StepsDown(nd, a, C), NEW m, NEW nd2,
         Utters(a, nd2, C, m), m.type = "AppendEntriesCall", m.term = nd.current_term
  PROVE  StepsDown(nd, nd2, C)
<1>1. Evolves(nd, nd2)
  BY EvolvesTransitive DEF Sound, StepsDown, Utters
<1>2. CallsOnly(nd.actions, nd2.actions, nd.current_term)
  BY DEF StepsDown, Utters, CallsOnly, Tells
<1> QED
  BY <1>1, <1>2 DEF StepsDown, Utters, SameState

LEMMA AppendEntriesReplyOutcome ==
  ASSUME NEW C, Closed(C), NEW nd, Sound(nd, C), NEW m, MessageOK(m, C),
         m.type = "AppendEntriesReply", NEW W, nd.granted_votes \subseteq W, NEW E, NEW H
  PROVE  Outcome(nd, HandleAppendEntriesReply(nd, m), C, W, E, H)
<1> DEFINE p == m.last_position
           matched == [nd EXCEPT !.followers[m.from] = p.index]
           committed == UpdateCommitIndexIfPossible(matched)
           advanced == IF nd.followers[m.from] = p.index THEN nd
                       ELSE IF nd.commit_index < p.index THEN committed
                       ELSE matched
           entries == Since(advanced.log.entries, p)
           call == AppendEntriesCall(advanced, entries)
           sent == QueueSend(advanced, m.from, call)
           repaired == RepairFollower(nd, m.from, p)
           nd2 == HandleAppendEntriesReply(nd, m)
<1>1. nd2 = IF ~CountsReply(nd, m) THEN nd
            ELSE IF ~Contains(nd.log.entries, p) THEN repaired
            ELSE IF p.index = LastIndex(nd.log.entries) THEN advanced
            ELSE sent
  BY DEF HandleAppendEntriesReply
<1>2. p \in Position /\ p.index \in Nat
  BY DEF MessageOK, Position
<1>3. Outcome(nd, nd, C, W, E, H)
  BY IdlesReflexive, IdlesOutcome
<1>4. ASSUME CountsReply(nd, m)
      PROVE  /\ nd.role = "Leader"
             /\ Outcome(nd, repaired, C, W, E, H)
             /\ Tenure(nd, advanced, C) \/ StepsDown(nd, advanced, C)
  <2> HIDE DEF p
  <2>1. nd.role = "Leader" /\ m.from \in DOMAIN nd.followers /\ p.index >= nd.followers[m.from]
    BY <1>4 DEF CountsReply, p
  <2>2. Outcome(nd, repaired, C, W, E, H)
    BY <1>2, <2>1, RepairFollowerTenure, TenureOutcome
  <2>3. Tenure(nd, nd, C)
    BY <2>1, IdlesReflexive, IdlesTenure
  <2>4. /\ Tenure(nd, matched, C)
        /\ matched.log = nd.log
        /\ DOMAIN matched.followers = DOMAIN nd.followers
    BY <1>2, <2>1, MatchedTenure
  <2> HIDE DEF matched
  <2>5. Tenure(nd, committed, C) \/ StepsDown(nd, committed, C)
    <3>1. Tenure(matched, committed, C) \/ StepsDown(matched, committed, C)
      BY <2>4, UpdateCommitTenure DEF Tenure
    <3> HIDE DEF committed
    <3>2. CASE Tenure(matched, committed, C)
      BY <2>4, <3>2, TenureTransitive
    <3>3. CASE StepsDown(matched, committed, C)
      <4>1. Evolves(nd, committed)
        BY <2>4, <3>3, EvolvesTransitive DEF Sound, Tenure, StepsDown
      <4>2. CallsOnly(nd.actions, committed.actions, nd.current_term)
        BY <2>4, <3>3 DEF Tenure, StepsDown, CallsOnly
      <4>3. matched.id = nd.id
        BY <2>4 DEF Tenure, Evolves
      <4> QED
        BY <2>4, <3>3, <4>1, <4>2, <4>3 DEF Tenure, StepsDown
    <3> QED
      BY <3>1, <3>2, <3>3
  <2> HIDE DEF committed, repaired
  <2> QED
    BY <2>1, <2>2, <2>3, <2>4, <2>5
<1> HIDE DEF advanced, repaired
<1>5. ASSUME CountsReply(nd, m) PROVE Outcome(nd, advanced, C, W, E, H)
  BY <1>4, <1>5, TenureOutcome, StepsDownOutcome
<1>6. ASSUME CountsReply(nd, m), Contains(nd.log.entries, p)
      PROVE  Outcome(nd, sent, C, W, E, H)
  <2>1. Sound(advanced, C) /\ advanced.current_term = nd.current_term
    BY <1>4, <1>6 DEF Tenure, StepsDown
  <2>2. entries \in Entries(C)
    <3>1. advanced.log.entries.prev = nd.log.entries.prev
          /\ LastIndex(nd.log.entries) <= LastIndex(advanced.log.entries)
      <4>1. nd.log.entries \in Entries(C)
        BY SoundLog
      <4>2. LastIndex(nd.log.entries) <= LastIndex(nd.log.entries)
        BY <4>1, EntriesFacts
      <4> QED
        BY <1>4, <1>6, <4>2 DEF Tenure, StepsDown, Extends
    <3>2. /\ nd.log.entries \in Entries(C)
          /\ advanced.log.entries \in Entries(C)
          /\ LastIndex(advanced.log.entries) \in Nat
          /\ LastIndex(nd.log.entries) \in Nat
          /\ nd.log.entries.prev.index \in Nat
      BY <2>1, SoundLog, EntriesFacts
    <3>3. ContainsIndex(nd.log.entries, p.index)
      BY <1>6 DEF Contains
    <3> HIDE DEF p
    <3>4. ContainsIndex(advanced.log.entries, p.index)
      BY <1>2, <3>1, <3>2, <3>3 DEF ContainsIndex
    <3> QED
      BY <1>2, <3>2, <3>4, SinceTyped
  <2> HIDE DEF entries, p
  <2>3. CASE Tenure(nd, advanced, C)
    <3>1. Tenure(advanced, sent, C) /\ SameState(advanced, sent)
      BY <2>1, <2>2, <2>3, CallTenure DEF Tenure
    <3> HIDE DEF sent
    <3>2. DOMAIN sent.followers = DOMAIN advanced.followers
      BY <3>1 DEF SameState
    <3>3. Tenure(nd, sent, C)
      BY <2>3, <3>1, <3>2, TenureTransitive
    <3> QED
      BY <1>4, <1>6, <3>3, TenureOutcome
  <2>4. CASE StepsDown(nd, advanced, C)
    <3>1. /\ MessageOK(call, C)
          /\ Speaks(call, advanced.id, advanced.current_term)
          /\ call.type = "AppendEntriesCall"
          /\ call.term = advanced.current_term
      BY <2>1, <2>2, NewCallTyped
    <3> HIDE DEF call
    <3>2. Utters(advanced, sent, C, call)
      BY <2>1, <3>1, QueueSendUtters
    <3> HIDE DEF sent
    <3>3. StepsDown(nd, sent, C)
      BY <2>1, <2>4, <3>1, <3>2, StepsDownUtters
    <3> QED
      BY <1>4, <1>6, <3>3, StepsDownOutcome
  <2> QED
    BY <1>4, <1>6, <2>3, <2>4
<1> HIDE DEF nd2, sent, p
<1>7. Outcome(nd, nd2, C, W, E, H)
  <2>1. CASE ~CountsReply(nd, m)
    BY <1>1, <1>3, <2>1
  <2>2. CASE CountsReply(nd, m)
    BY <1>1, <1>4, <1>5, <1>6, <2>2
  <2> QED
    BY <2>1, <2>2
<1> QED
  BY <1>7 DEF nd2

-----------------------------------------------------------------------------
(* The public methods. *)

LEMMA DispatchOutcome ==
  ASSUME NEW C, Closed(C), NEW nd, Sound(nd, C), NEW m, IsMessage(m), MessageOK(m, C),
         m.term <= nd.current_term, m.from # nd.id,
         NEW E, m.type = "AppendEntriesCall" => <<m.term, m.from>> \in E,
         NEW H, m.type = "RequestVoteCall" => <<m.term, m.from>> \in H
  PROVE  Outcome(nd, Dispatch(nd, m), C, Ballot(nd, m), E, H)
<1> DEFINE W == Ballot(nd, m)
<1>1. nd.granted_votes \subseteq W
  BY DEF Ballot
<1>2. m.type \in {"RequestVoteCall", "RequestVoteReply", "AppendEntriesCall",
                  "AppendEntriesReply"}
  BY DEF IsMessage
<1>3. m.term \in Nat
  BY DEF IsMessage
<1>4. m.type = "RequestVoteReply" => Outcome(nd, HandleRequestVoteReply(nd, m), C, W, E, H)
  BY RequestVoteReplyOutcome
<1> HIDE DEF W
<1>5. CASE m.type = "RequestVoteCall"
  <2>1. Dispatch(nd, m) = HandleRequestVoteCall(nd, m)
    BY <1>5 DEF Dispatch
  <2>2. Outcome(nd, HandleRequestVoteCall(nd, m), C, W, E, H)
    BY <1>1, <1>3, <1>5, RequestVoteCallOutcome
  <2> QED
    BY <2>1, <2>2 DEF W
<1>6. CASE m.type = "RequestVoteReply"
  <2>1. Dispatch(nd, m) = HandleRequestVoteReply(nd, m)
    BY <1>6 DEF Dispatch
  <2> QED
    BY <1>4, <1>6, <2>1 DEF W
<1>7. CASE m.type = "AppendEntriesCall"
  <2>1. Dispatch(nd, m) = HandleAppendEntriesCall(nd, m)
    BY <1>7 DEF Dispatch
  <2>2. Outcome(nd, HandleAppendEntriesCall(nd, m), C, W, E, H)
    BY <1>1, <1>3, <1>7, AppendEntriesCallOutcome
  <2> QED
    BY <2>1, <2>2 DEF W
<1>8. CASE m.type = "AppendEntriesReply"
  <2>1. Dispatch(nd, m) = HandleAppendEntriesReply(nd, m)
    BY <1>8 DEF Dispatch
  <2>2. Outcome(nd, HandleAppendEntriesReply(nd, m), C, W, E, H)
    BY <1>1, <1>8, AppendEntriesReplyOutcome
  <2> QED
    BY <2>1, <2>2 DEF W
<1> QED
  BY <1>2, <1>5, <1>6, <1>7, <1>8

LEMMA HandleMessageOutcome ==
  ASSUME NEW C, Closed(C), NEW nd, Sound(nd, C), NEW m, IsMessage(m), MessageOK(m, C),
         NEW E, m.type = "AppendEntriesCall" => <<m.term, m.from>> \in E,
         NEW H, m.type = "RequestVoteCall" => <<m.term, m.from>> \in H
  PROVE  Outcome(nd, HandleMessage(nd, m), C, Ballot(nd, m), E, H)
<1>1. CASE m.from = nd.id
  <2>1. HandleMessage(nd, m) = nd
    BY <1>1 DEF HandleMessage
  <2>2. nd.granted_votes \subseteq Ballot(nd, m)
    BY DEF Ballot
  <2> QED
    BY <2>1, <2>2, IdlesReflexive, IdlesOutcome
<1>2. CASE m.from # nd.id
  <2> DEFINE a == ObserveTerm(nd, m.term)
  <2>1. HandleMessage(nd, m) = Dispatch(a, m)
    BY <1>2 DEF HandleMessage
  <2>2. m.term \in Nat /\ nd.current_term \in Nat
    BY DEF IsMessage, Sound, IsNode, IsRecord
  <2>3. CASE nd.current_term < m.term
    <3>1. a = TransitionToFollower(nd, m.term)
      BY <2>3 DEF ObserveTerm
    <3>2. nd.current_term <= m.term
      BY <2>2, <2>3
    <3>3. Demoted(nd, a, C, m.term)
      BY <2>2, <3>1, <3>2, TransitionToFollowerDemotes
    <3> HIDE DEF a
    <3>4. Sound(a, C) /\ m.term <= a.current_term /\ a.id = nd.id
      <4>1. Sound(a, C) /\ a.current_term = m.term /\ a.id = nd.id
        BY <3>3 DEF Demoted, Evolves
      <4>2. m.term <= m.term
        BY <2>2
      <4> QED
        BY <4>1, <4>2
    <3>5. Outcome(a, Dispatch(a, m), C, Ballot(a, m), E, H)
      BY <1>2, <3>4, DispatchOutcome
    <3> QED
      BY <2>1, <2>3, <3>3, <3>5, DemotedOutcome
  <2>4. CASE ~(nd.current_term < m.term)
    <3>1. a = nd
      BY <2>4 DEF ObserveTerm
    <3>2. m.term <= nd.current_term
      BY <2>2, <2>4
    <3> HIDE DEF a
    <3> QED
      BY <1>2, <2>1, <3>1, <3>2, DispatchOutcome
  <2> QED
    BY <2>3, <2>4
<1> QED
  BY <1>1, <1>2

LEMMA CreatedOutcome ==
  ASSUME NEW C, Closed(C), NEW nd, Sound(nd, C), NEW voters, CanCreate(nd, voters),
         [EmptyConfig EXCEPT !.voters = voters] \in C, NEW W, nd.granted_votes \subseteq W,
         NEW E, NEW H
  PROVE  Outcome(nd, Created(nd, voters), C, W, E, H)
<1> DEFINE config == [EmptyConfig EXCEPT !.voters = voters]
           e == ConfigEntry(0, config)
           a == Pushed(nd, e)
           nd2 == Created(nd, voters)
<1>1. nd2 = IF IsVoter(config, nd.id) THEN TransitionToCandidate(a) ELSE a
  BY DEF Created, Pushed, CanCreate
<1>2. e \in Entry(C) /\ e.kind = "ClusterConfig" /\ e.config = config
  BY DEF Entry, ConfigEntry
<1> HIDE DEF config, e
<1>3. /\ Sound(a, C)
      /\ Evolves(nd, a)
      /\ a.id = nd.id
      /\ a.voted_for = nd.voted_for
      /\ a.current_term = nd.current_term
      /\ a.role = nd.role
      /\ a.granted_votes = nd.granted_votes
      /\ a.followers = nd.followers
      /\ a.log.entries = Push(nd.log.entries, e)
      /\ Extends(nd.log.entries, a.log.entries)
      /\ Quiet(nd.actions, a.actions)
      /\ "two leaders" \in a.broken => "two leaders" \in nd.broken
  <2> HIDE DEF nd2
  <2> QED
    BY <1>2, PushedFacts, ZenonT(60)
<1> HIDE DEF a, nd2
<1>4. CASE IsVoter(config, nd.id)
  <2>1. Config(a) = config
    <3>1. nd.log \in Logs(C)
      BY SoundLog
    <3>2. LatestConfig(a.log) = e.config
      BY <1>2, <1>3, <3>1, LatestConfigPushed, ZenonT(60)
    <3> QED
      BY <1>2, <3>2 DEF Config
  <2>2. Candidacy(a, nd2, C)
    BY <1>1, <1>3, <1>4, <2>1, TransitionToCandidateStands
  <2>3. Outcome(nd, nd2, C, W, E, H)
    BY <1>3, <2>2, CandidacyOutcome
  <2> QED
    BY <2>3 DEF nd2
<1>5. CASE nd2 = a
  <2>1. VoteKept(nd, a, C, E)
    BY <1>3 DEF VoteKept
  <2>2. LeadsRightly(nd, a, C, W)
    <3>1. FollowersRise(nd, a)
      BY <1>3, FollowersSame
    <3> QED
      BY <1>3, <3>1 DEF LeadsRightly
  <2>3. CountsRightly(nd, a, W)
    BY <1>3 DEF CountsRightly
  <2>4. SpeaksRightly(nd, a, H)
    BY <1>3 DEF SpeaksRightly, Quiet
  <2>5. HearsRightly(nd, a, E)
    BY <1>3 DEF HearsRightly
  <2>6. Outcome(nd, a, C, W, E, H)
    BY <1>3, <2>1, <2>2, <2>3, <2>4, <2>5 DEF Outcome
  <2> QED
    BY <1>5, <2>6 DEF nd2
<1> QED
  BY <1>1, <1>4, <1>5

LEMMA StartElectionOutcome ==
  ASSUME NEW C, Closed(C), NEW nd, Sound(nd, C), IsVoter(Config(nd), nd.id),
         NEW W, NEW E, NEW H
  PROVE  Outcome(nd, TransitionToCandidate(nd), C, W, E, H)
<1>1. Evolves(nd, nd) /\ Quiet(nd.actions, nd.actions)
  BY EvolvesReflexive, QuietReflexive DEF Sound
<1> QED
  BY <1>1, TransitionToCandidateStands, CandidacyOutcome

-----------------------------------------------------------------------------
(* Snapshots. *)

LEMMA RebaseMessageFacts ==
  ASSUME NEW C, NEW m, IsMessage(m), MessageOK(m, C), NEW p \in Position
  PROVE  LET r == RebaseMessage(m, p) IN
         /\ MessageOK(r, C)
         /\ r.type = m.type
         /\ \A type, t : Tells(r, type, t) => Tells(m, type, t)
<1> DEFINE es == RebaseEntries(m.entries, p)
           r == RebaseMessage(m, p)
<1>1. CASE m \in [type : {"AppendEntriesCall"}, from : {m.from}, term : Nat,
                  commit_index : {m.commit_index}, entries : {m.entries}]
  <2>1. r = [m EXCEPT !.entries = es]
    BY <1>1 DEF RebaseMessage
  <2>2. es \in Entries(C)
    BY <1>1, RebaseEntriesTyped DEF MessageOK
  <2> HIDE DEF es, r
  <2>3. /\ r.type = "AppendEntriesCall"
        /\ r.term = m.term
        /\ r.entries = es
        /\ r.commit_index = m.commit_index
    BY <1>1, <2>1
  <2>4. MessageOK(r, C)
    BY <1>1, <2>2, <2>3 DEF MessageOK
  <2>5. \A type, t : Tells(r, type, t) => Tells(m, type, t)
    BY <1>1, <2>3 DEF Tells
  <2> QED
    BY <1>1, <2>3, <2>4, <2>5 DEF r
<1>2. CASE m \in [type : {"RequestVoteReply"}, from : {m.from}, term : Nat,
                  vote_granted : {m.vote_granted}]
  BY <1>2 DEF RebaseMessage
<1>3. CASE m.type \in {"RequestVoteCall", "AppendEntriesReply"}
  <2>1. m = [type |-> m.type, from |-> m.from, term |-> m.term,
             last_position |-> m.last_position]
    BY <1>3 DEF IsMessage
  <2>2. r = m \/ r = [m EXCEPT !.last_position = p]
    BY <1>3 DEF RebaseMessage
  <2>3. /\ r.type = m.type
        /\ r.term = m.term
        /\ r.last_position \in {m.last_position, p}
    BY <2>1, <2>2
  <2> HIDE DEF r
  <2>4. MessageOK(r, C)
    BY <1>3, <2>3 DEF MessageOK
  <2>5. \A type, t : Tells(r, type, t) => Tells(m, type, t)
    BY <1>3, <2>3 DEF Tells
  <2> QED
    BY <2>3, <2>4, <2>5 DEF r
<1> QED
  BY <1>1, <1>2, <1>3 DEF IsMessage

\* What a snapshot leaves alone.
Installed(nd, nd2, C) ==
  /\ Sound(nd2, C)
  /\ Evolves(nd, nd2)
  /\ nd2.voted_for = nd.voted_for
  /\ nd2.current_term = nd.current_term
  /\ nd2.role = nd.role
  /\ nd2.granted_votes = nd.granted_votes
  /\ nd2.followers = nd.followers
  /\ nd.role = "Leader" => Extends(nd.log.entries, nd2.log.entries)
  /\ Quiet(nd.actions, nd2.actions)
  /\ nd2.actions.save_current_term = nd.actions.save_current_term
  /\ nd2.actions.save_voted_for = nd.actions.save_voted_for
  /\ nd2.broken = nd.broken

\* A snapshot at position p holds config.
IsSnapshot(p, config, C) ==
  /\ p \in Position
  /\ p.index = 0 => config = EmptyConfig
  /\ p.index # 0 => config \in C

LEMMA InstallSnapshotInstalls ==
  ASSUME NEW C, NEW nd, Sound(nd, C), NEW p, NEW config, IsSnapshot(p, config, C),
         IsValidSnapshot(nd, p, config)
  PROVE  Installed(nd, InstallSnapshot(nd, p, config), C)
<1> DEFINE q == nd.actions
           rebased == {RebaseEntries(e, p) : e \in q.append_log_entries}
           appends == {e \in rebased : e.ents # <<>>}
           broadcast == {RebaseMessage(m, p) : m \in q.broadcast_message}
           sends == [d \in DOMAIN q.send_messages |-> RebaseMessage(q.send_messages[d], p)]
           log == InstallInLog(nd.log, p, config)
           commit == IF nd.commit_index < p.index THEN p.index ELSE nd.commit_index
           q2 == [q EXCEPT !.append_log_entries = appends,
                           !.broadcast_message = broadcast, !.send_messages = sends]
           nd2 == InstallSnapshot(nd, p, config)
<1>1. p \in Position /\ p.index \in Nat
  BY DEF IsSnapshot, Position
<1>2. nd2 = [nd EXCEPT !.log = log, !.commit_index = commit, !.actions = q2]
  BY DEF InstallSnapshot
<1>3. nd.log \in Logs(C) /\ nd.log.entries \in Entries(C)
  BY SoundLog
<1>4. /\ log \in Logs(C)
      /\ LastIndex(log.entries) \in {p.index, LastIndex(nd.log.entries)}
      /\ Contains(nd.log.entries, p) =>
           /\ Extends(nd.log.entries, log.entries)
           /\ LastIndex(log.entries) = LastIndex(nd.log.entries)
  BY <1>1, <1>3, InstallInLogTyped DEF IsSnapshot
<1>5. nd.commit_index \in Nat /\ commit \in Nat
  BY <1>1 DEF Sound
<1>6. appends \subseteq Writes(C)
  <2> SUFFICES ASSUME NEW e \in q.append_log_entries, RebaseEntries(e, p).ents # <<>>
               PROVE  RebaseEntries(e, p) \in Writes(C)
    OBVIOUS
  <2>1. e \in Entries(C)
    BY DEF Sound, QueuesOK, Writes
  <2> QED
    BY <1>1, <2>1, RebaseEntriesTyped DEF Writes
<1>7. \A m \in q.broadcast_message : /\ IsMessage(m)
                                     /\ IsCall(m)
                                     /\ MessageOK(m, C)
  BY DEF Sound, QueuesOK, IsNode, OwnMessages, Speaks
<1>8. \A d \in DOMAIN q.send_messages : /\ IsMessage(q.send_messages[d])
                                        /\ MessageOK(q.send_messages[d], C)
  BY DEF Sound, QueuesOK, IsNode, OwnMessages, Speaks
<1>9. /\ \A m \in broadcast : IsCall(m) /\ MessageOK(m, C)
      /\ \A d \in DOMAIN sends : MessageOK(sends[d], C)
  BY <1>1, <1>7, <1>8, RebaseMessageFacts DEF IsCall
<1>10. \A type, t, to :
         /\ (\E m \in broadcast : Tells(m, type, t))
              => \E m \in q.broadcast_message : Tells(m, type, t)
         /\ to \in DOMAIN sends /\ Tells(sends[to], type, t)
              => to \in DOMAIN q.send_messages /\ Tells(q.send_messages[to], type, t)
  BY <1>1, <1>7, <1>8, RebaseMessageFacts
<1> HIDE DEF q, appends, broadcast, sends, log, commit
<1>11. /\ q2.append_log_entries = appends
       /\ q2.broadcast_message = broadcast
       /\ q2.send_messages = sends
  BY DEF Sound, IsNode, IsActions, q
<1>12. QueuesOK(q2, C)
  BY <1>6, <1>9, <1>11 DEF QueuesOK
<1>13. Quiet(q, q2)
  BY <1>10, <1>11 DEF Quiet, Said
<1> HIDE DEF q2
<1>14. /\ nd2.log = log
       /\ nd2.commit_index = commit
       /\ nd2.actions = q2
       /\ nd2.id = nd.id
       /\ nd2.role = nd.role
       /\ nd2.granted_votes = nd.granted_votes
       /\ nd2.followers = nd.followers
       /\ nd2.broken = nd.broken
  BY <1>2 DEF Sound, IsNode, IsRecord
<1>15. /\ Evolves(nd, nd2)
       /\ nd2.voted_for = nd.voted_for
       /\ nd2.current_term = nd.current_term
       /\ nd2.actions.save_current_term = nd.actions.save_current_term
       /\ nd2.actions.save_voted_for = nd.actions.save_voted_for
  BY InstallSnapshotEvolves DEF Sound
<1> HIDE DEF nd2
<1>16. nd.role # "Follower" => Stands(nd2, C)
  <2> SUFFICES ASSUME nd.role # "Follower" PROVE Stands(nd2, C)
    OBVIOUS
  <2>1. /\ nd.voted_for = nd.id
        /\ LastIndex(nd.log.entries) > 0
        /\ \E c \in C : IsVoter(c, nd.id)
    BY DEF Sound, Stands
  <2>2. nd.commit_index < p.index => p.index > 0
    BY <1>1, <1>5
  <2>3. ~(nd.commit_index < p.index) => Contains(nd.log.entries, p)
    BY DEF IsValidSnapshot
  <2>4. LastIndex(log.entries) > 0
    BY <1>4, <2>1, <2>2, <2>3
  <2> QED
    BY <1>14, <1>15, <2>1, <2>4 DEF Stands
<1>17. nd.role = "Leader" => Extends(nd.log.entries, nd2.log.entries)
  BY <1>4, <1>14 DEF IsValidSnapshot
<1>18. Sound(nd2, C)
  BY <1>4, <1>5, <1>12, <1>14, <1>15, <1>16 DEF Sound, Evolves
<1> QED
  BY <1>13, <1>14, <1>15, <1>17, <1>18 DEF Installed, nd2, q

LEMMA InstalledOutcome ==
  ASSUME NEW C, NEW nd, Sound(nd, C), NEW nd2, Installed(nd, nd2, C),
         NEW W, nd.granted_votes \subseteq W, NEW E, NEW H
  PROVE  Outcome(nd, nd2, C, W, E, H)
<1>1. VoteKept(nd, nd2, C, E)
  BY DEF VoteKept, Installed
<1>2. LeadsRightly(nd, nd2, C, W)
  <2>1. FollowersRise(nd, nd2)
    BY FollowersSame DEF Installed
  <2> QED
    BY <2>1 DEF LeadsRightly, Installed
<1>3. CountsRightly(nd, nd2, W)
  BY DEF CountsRightly, Installed
<1>4. SpeaksRightly(nd, nd2, H)
  BY DEF SpeaksRightly, Installed, Quiet
<1>5. HearsRightly(nd, nd2, E)
  BY DEF HearsRightly, Installed
<1> QED
  BY <1>1, <1>2, <1>3, <1>4, <1>5 DEF Outcome, Installed

-----------------------------------------------------------------------------
(* Restarts. *)

\* A node that has restarted and executed its first actions.
Restarted(id, disk) == [Restart(id, disk) EXCEPT !.actions = NoActions]

LEMMA RestartSound ==
  ASSUME NEW C, NEW id, id # Nil, NEW disk, disk.current_term \in Nat, disk.log \in Logs(C)
  PROVE  LET nd == Restarted(id, disk) IN
         /\ Sound(nd, C)
         /\ nd.id = id
         /\ nd.current_term = disk.current_term
         /\ nd.voted_for = disk.voted_for
         /\ nd.role = "Follower"
         /\ nd.actions = NoActions
         /\ nd.broken = {}
<1> DEFINE nd == Restarted(id, disk)
<1>1. /\ IsNode(nd)
      /\ nd.id = id
      /\ nd.current_term = disk.current_term
      /\ nd.voted_for = disk.voted_for
  BY RestartedNode DEF Restarted
<1>2. /\ nd.log = disk.log
      /\ nd.commit_index = disk.log.entries.prev.index
      /\ nd.role = "Follower"
      /\ nd.followers = <<>>
      /\ nd.actions = NoActions
      /\ nd.broken = {}
  BY DEF Restarted, Restart, SetElectionTimeout, NewNode
<1> HIDE DEF nd
<1>3. QueuesOK(NoActions, C)
  BY DEF QueuesOK, NoActions
<1>4. nd.commit_index \in Nat
  <2>1. disk.log.entries \in Entries(C)
    BY LogFacts
  <2> QED
    BY <1>2, <2>1, EntriesFacts
<1>5. \A f \in DOMAIN nd.followers : nd.followers[f] \in Nat
  BY <1>2
<1>6. Sound(nd, C)
  BY <1>1, <1>2, <1>3, <1>4, <1>5 DEF Sound
<1> QED
  BY <1>1, <1>2, <1>6 DEF nd

LEMMA IdleSaysNothing == \A type, t, to : ~Said(NoActions, type, t, to)
  BY DEF Said, NoActions
=============================================================================
