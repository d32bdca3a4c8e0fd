------------------------ MODULE NodeMetricsProperties ------------------------
(***************************************************************************)
(* What an operator may conclude from the counters of NodeMetrics.         *)
(***************************************************************************)
EXTENDS NodeMetrics

\* The counters agree with what happened since the node was started: one leadership
\* for each term it led, at most one for each election it started, and each election
\* and each term seen in a message is another term.
CountersAccount ==
  \A id \in NodeId :
    LET c == metrics[id]
        led == {e \in elected : e[2] = id /\ e[1] > started[id]}
    IN  /\ c.leaderships_started = Cardinality(led)
        /\ c.leaderships_started <= c.elections_started
        /\ c.elections_started + c.term_advances_from_messages
             <= node[id].current_term - started[id]

\* The sign of a lost log tail (Node::restart, step 4) is not given by restarts, changes
\* of leader and of configuration, and lost messages: while links deliver in order and once
\* and storage is faithful, no follower reports less than its leader has counted.
NoAlarmWithoutLoss ==
  \A id \in NodeId : metrics[id].append_entries_replies_ignored_behind_match_index = 0

\* A message changes nothing without a trace only if it repeats what is known or
\* is a refusal: the handlers' early returns are all counted.
Redundant(nd, m) ==
  \/ m.type = "RequestVoteReply" /\ (~m.vote_granted \/ m.from \in nd.granted_votes)
  \/ /\ m.type = "AppendEntriesReply"
     /\ m.from \in DOMAIN nd.followers
     /\ nd.followers[m.from] = m.last_position.index

IgnoredIsCounted ==
  \A p \in net :
    (p.to \in NodeId /\ p.msg.type # "InstallSnapshot") =>
      LET nd == node[p.to] IN
      (HandleMessage(nd, p.msg) = nd /\ ~Redundant(nd, p.msg)) => MessageCounts(nd, p.msg) # {}
=============================================================================
