------------------------- MODULE ProgressProperties -------------------------
(***************************************************************************)
(* What a cluster promises to do once its links and timers work.           *)
(***************************************************************************)
EXTENDS Progress

Members(l) == (UniqueNodes(Config(node[l])) \cup {l}) \cap up

\* One leader, whom the nodes of its configuration that run follow, with the same log,
\* all of it committed.
Agreed(l) ==
  /\ node[l].role = "Leader"
  /\ \A id \in Members(l) :
       /\ id # l => node[id].role = "Follower"
       /\ node[id].current_term = node[l].current_term
       /\ LastPosition(node[id].log.entries) = LastPosition(node[l].log.entries)
       /\ node[id].commit_index = LastIndex(node[l].log.entries)

\* A node that stays knows a configuration: there is a cluster.
Founded == \E id \in up : Config(node[id]).voters # {}

\* A leader is elected and stays, and the commit indices of all members that run reach
\* its last entry (cluster_liveness.rs: "the commit indices converge, and the leader
\* does not change"), whatever the trouble left behind: split votes, diverged logs,
\* compacted logs, lost replies.  And every proposal comes to a terminal status there
\* (wait_until_terminal).
ProposalsSettle ==
  <>[](Founded => \E l \in up : Agreed(l)
         /\ \A p \in proposed : CommitStatus(node[l], p) # "InProgress")

\* Once a node that stays has stored the configuration of create_cluster, the cluster has
\* a leader and the position that the call returned is committed there; a log that is
\* compacted since does not know the position any more.
CreationSucceeds ==
  (calm /\ Founded) ~>
    \E l \in up : Agreed(l) /\ CommitStatus(node[l], Pos(0, 1)) \in {"Committed", "Unknown"}

\* A joint configuration is left, and what it was left for is in force at every member.
JointConsensusEnds ==
  <>[](Founded => \E l \in up :
         /\ Agreed(l)
         /\ \A id \in Members(l) : Config(node[id]) = Config(node[l])
         /\ ~IsJointConsensus(Config(node[l])))

\* The leader has left the configurations that id belongs to.
Removed(id) ==
  \E l \in up : /\ node[l].role = "Leader"
               /\ ~IsJointConsensus(Config(node[l]))
               /\ id \notin UniqueNodes(Config(node[l]))

\* In the calm few elections are needed: a node whose log is good enough is not starved
\* by candidates that cannot win, and a leader is not deposed for nothing.
TermsSuffice ==
  calm => \A id \in Waiting :
            (IsVoter(Config(node[id]), id) /\ ~Removed(id)) => node[id].current_term < MaxTerm

\* A leader that all members that run have accepted.
Established(l) ==
  /\ node[l].role = "Leader"
  /\ ~IsJointConsensus(Config(node[l]))
  /\ IsVoter(Config(node[l]), l)
  /\ \A id \in Members(l) \ {l} :
       /\ node[id].role = "Follower"
       /\ node[id].current_term = node[l].current_term
       /\ node[id].voted_for = l
       /\ timer[id] = 1
  /\ \A p \in net : 
       (p.msg.type # "InstallSnapshot" /\ p.msg.from \in Members(l))
         => p.msg.term <= node[l].current_term

\* With the filter of could_be_disruptive_request_vote a node that is no member any more
\* does not depose a leader that the members follow.
LeaderKept ==
  [][\A l \in NodeId : (calm /\ l \in up /\ Established(l)) => node'[l].role = "Leader"]_vars
=============================================================================
