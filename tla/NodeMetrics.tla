----------------------------- MODULE NodeMetrics -----------------------------
(***************************************************************************)
(* The counters of NodeMetrics (src/src/node.rs), which every node of a    *)
(* Cluster keeps from its start to its end.  The operators give the        *)
(* counters that a call increments, branch by branch of the handlers.      *)
(***************************************************************************)
EXTENDS Cluster

CONSTANTS
  Counters,  \* the counters an instance keeps: field names of NodeMetrics
  MaxCount   \* where a counter saturates, u64::MAX in the code

\* The fields of NodeMetrics.
CounterNames ==
  {"self_messages_ignored", "term_advances_from_messages",
   "request_vote_calls_rejected_by_old_term", "request_vote_calls_rejected_by_log",
   "request_vote_calls_rejected_by_existing_vote",
   "request_vote_replies_ignored_from_old_terms",
   "request_vote_replies_ignored_while_not_candidate",
   "append_entries_calls_rejected_by_old_term",
   "same_term_append_entries_calls_received_by_leader",
   "log_divergences_detected_by_follower",
   "append_entries_replies_ignored_from_old_terms",
   "append_entries_replies_ignored_while_not_leader",
   "append_entries_replies_ignored_from_unknown_nodes",
   "append_entries_replies_ignored_behind_match_index",
   "append_entries_replies_ahead_of_leader", "log_divergences_detected_by_leader",
   "elections_started", "leaderships_started"}

ASSUME CountersAssumption == Counters \subseteq CounterNames /\ MaxCount \in Nat

VARIABLES
  metrics,  \* the NodeMetrics of each node
  started   \* history: the term in which each node was started or restarted

-----------------------------------------------------------------------------
(* The counters a message increments; nd has seen the term of m already. *)

RequestVoteCallCounts(nd, m) ==
  IF m.term < nd.current_term THEN {"request_vote_calls_rejected_by_old_term"}
  ELSE IF PosLess(m.last_position, LastPosition(nd.log.entries))
  THEN {"request_vote_calls_rejected_by_log"}
  ELSE IF nd.voted_for \notin {Nil, m.from}
  THEN {"request_vote_calls_rejected_by_existing_vote"}
  ELSE {}

\* Mutant of RequestVoteReplyCounts: each vote of a new majority starts a leadership.
CountsOldMajority(nd, m) ==
  IF nd.role # "Candidate" THEN {"request_vote_replies_ignored_while_not_candidate"}
  ELSE IF ~m.vote_granted THEN {}
  ELSE IF Wins(nd.granted_votes \cup {m.from}, Config(nd)) THEN {"leaderships_started"}
  ELSE {}

RequestVoteReplyCounts(nd, m) ==
  IF nd.role # "Candidate" THEN {"request_vote_replies_ignored_while_not_candidate"}
  ELSE IF ~m.vote_granted THEN {}
  ELSE IF m.term < nd.current_term THEN {"request_vote_replies_ignored_from_old_terms"}
  ELSE IF Wins(nd.granted_votes \cup {m.from}, Config(nd)) THEN {"leaderships_started"}
  ELSE {}

AppendEntriesCallCounts(nd, m) ==
  LET local == nd.log.entries
      diverges == /\ ~Contains(local, LastPosition(m.entries))
                  /\ ~Contains(local, m.entries.prev)
                  /\ ContainsIndex(local, m.entries.prev.index)
  IN  IF m.term < nd.current_term THEN {"append_entries_calls_rejected_by_old_term"}
      ELSE IF nd.role = "Leader"
      THEN {"same_term_append_entries_calls_received_by_leader"}
      ELSE IF diverges THEN {"log_divergences_detected_by_follower"} ELSE {}

\* Mutant of AppendEntriesReplyCounts: a late reply is dropped without a trace.
CountsNoLateReply(nd, m) ==
  IF m.term < nd.current_term \/ nd.role # "Leader" \/ m.from \notin DOMAIN nd.followers THEN {}
  ELSE IF m.last_position.index < nd.followers[m.from]
  THEN {"append_entries_replies_ignored_behind_match_index"} ELSE {}

AppendEntriesReplyCounts(nd, m) ==
  LET es == nd.log.entries
      p == m.last_position
  IN  IF m.term < nd.current_term THEN {"append_entries_replies_ignored_from_old_terms"}
      ELSE IF nd.role # "Leader" THEN {"append_entries_replies_ignored_while_not_leader"}
      ELSE IF m.from \notin DOMAIN nd.followers
      THEN {"append_entries_replies_ignored_from_unknown_nodes"}
      ELSE IF p.index < nd.followers[m.from]
      THEN {"append_entries_replies_ignored_behind_match_index"}
      ELSE IF Contains(es, p) THEN {}
      ELSE IF ContainsIndex(es, p.index) THEN {"log_divergences_detected_by_leader"}
      ELSE IF LastIndex(es) < p.index THEN {"append_entries_replies_ahead_of_leader"}
      ELSE {}

MessageCounts(nd, m) ==
  LET seen == ObserveTerm(nd, m.term) IN
  IF m.from = nd.id THEN {"self_messages_ignored"}
  ELSE (IF nd.current_term < m.term THEN {"term_advances_from_messages"} ELSE {})
         \cup CASE m.type = "RequestVoteCall"    -> RequestVoteCallCounts(seen, m)
                [] m.type = "RequestVoteReply"   -> RequestVoteReplyCounts(seen, m)
                [] m.type = "AppendEntriesCall"  -> AppendEntriesCallCounts(seen, m)
                [] m.type = "AppendEntriesReply" -> AppendEntriesReplyCounts(seen, m)

\* transition_to_candidate; a solo voter leads at once.
ElectionCounts(nd) ==
  IF ~IsVoter(Config(nd), nd.id) THEN {}
  ELSE {"elections_started"} \cup (IF IsSelfSoloVoter(nd) THEN {"leaderships_started"} ELSE {})

-----------------------------------------------------------------------------
Zero == [c \in Counters |-> 0]

\* saturating_add(1) of each of the counters cs of a node.
Count(id, cs) ==
  /\ metrics' = [metrics EXCEPT ![id] =
       [c \in Counters |-> IF c \in cs /\ @[c] < MaxCount THEN @[c] + 1 ELSE @[c]]]
  /\ UNCHANGED started

MeteredDeliver(p) ==
  /\ Deliver(p)
  /\ Count(p.to, IF p.msg.type = "InstallSnapshot" THEN {} ELSE MessageCounts(node[p.to], p.msg))

MeteredElection(id) == StartElection(id) /\ Count(id, ElectionCounts(node[id]))

\* The calls that touch no counter.
UnmeteredCall(id) ==
  /\ \/ ProposeCommand(id)
     \/ \E c \in ConfigChanges(Config(node[id])) : ProposeConfig(id, c)
     \/ LeaderHeartbeat(id)
     \/ IgnoreElectionTimeout(id)
     \/ TakeSnapshot(id)
  /\ Count(id, {})

\* Node::restart between two calls: the metrics are those of a new node.
MeteredRestart(id) ==
  /\ node' = [node EXCEPT ![id] = [Restart(id, stored[id]) EXCEPT !.actions = NoActions]]
  /\ timer' = [timer EXCEPT ![id] = TRUE]
  /\ metrics' = [metrics EXCEPT ![id] = Zero]
  /\ started' = [started EXCEPT ![id] = stored[id].current_term]
  /\ UNCHANGED <<stored, net, elected, committed>>

MeteredInit ==
  /\ Init
  /\ metrics = [id \in NodeId |-> Zero]
  /\ started = [id \in NodeId |-> Boot[id].current_term]

MeteredNext ==
  \/ \E p \in net : p.to \in NodeId /\ MeteredDeliver(p)
  \/ \E id \in NodeId : MeteredElection(id) \/ UnmeteredCall(id) \/ MeteredRestart(id)

MeteredSpec == MeteredInit /\ [][MeteredNext]_<<vars, metrics, started>>
=============================================================================
