------------------------- MODULE ClusterProperties -------------------------
(***************************************************************************)
(* What a cluster of Nodes promises, stated over the variables of Cluster. *)
(***************************************************************************)
EXTENDS Cluster

-----------------------------------------------------------------------------
(* Types. *)

WellFormedEntries(es) ==
  \A k \in 1 .. Len(es.ents) :
    LET before == IF k = 1 THEN es.prev.term ELSE es.ents[k - 1].term
        e == es.ents[k]
    IN  IF e.kind = "Term" THEN e.term > before ELSE e.term = before

NodeOK(nd) ==
  LET last == LastPosition(nd.log.entries) IN
  /\ nd.current_term \in 0 .. MaxTerm
  /\ nd.voted_for \in NodeId \cup {Nil}
  /\ WellFormedEntries(nd.log.entries)
  /\ last.term <= nd.current_term
  /\ nd.commit_index \in nd.log.entries.prev.index .. last.index
  /\ nd.role \in {"Follower", "Candidate", "Leader"}
  /\ nd.granted_votes \subseteq (IF nd.role = "Candidate" THEN NodeId ELSE {})
  /\ DOMAIN nd.followers = (IF nd.role = "Leader" THEN Peers(nd) ELSE {})
  /\ \A f \in DOMAIN nd.followers : nd.followers[f] \in 0 .. last.index

\* Every field holds a value of its type; logs are well formed (terms rise, at
\* Term entries only), the commit index lies within the log, and the followers
\* a leader tracks are the peers of its latest configuration (rebuild_followers).
TypeOK ==
  /\ \A id \in NodeId :
       /\ node[id].id = id
       /\ NodeOK(node[id])
       /\ timer[id] \in BOOLEAN
       /\ stored[id].current_term \in 0 .. MaxTerm
       /\ stored[id].voted_for \in NodeId \cup {Nil}
       /\ WellFormedEntries(stored[id].log.entries)
  /\ \A p \in net : p.to \in NodeId
  /\ elected \subseteq (1 .. MaxTerm) \X NodeId

-----------------------------------------------------------------------------
(* Safety of the algorithm. *)

\* The debug_asserts whose truth depends on what happened before hold: a node's
\* term never falls (transition_to_follower), a leader voted for itself, a voter is
\* a follower, queued messages merge in term order, a storage write continues the
\* queued one, the final configuration of a joint consensus is disjoint.  So do
\* the places the code takes to be unreachable: propose is still the leader after
\* its append, no leader hears of a second leader of its term, and
\* handle_message does not return LocalSnapshotMismatch.
DebugAssertionsHold == \A id \in NodeId : node[id].broken = {}

\* append_unchecked (log.rs) asserts that the entries it extends contain the
\* anchor of the new ones; Actions::set reaches it whenever an AppendLogEntries
\* merges with one that is not executed yet.
AppendAnchorContained == \A id \in NodeId : "append anchor" \notin node[id].broken

\* No term has two leaders, whatever is lost, repeated or reordered, wherever
\* a node crashes between the saves of its term and of its vote, and although
\* transition_to_follower forgets the vote of a leader that steps down in its
\* own term.
ElectionSafety ==
  \A a, b \in elected : a[1] = b[1] => a[2] = b[2]

\* Two nodes never see different entries committed at one index, now or over
\* restarts and snapshots.
StateMachineSafety ==
  \A a, b \in committed : a[1] = b[1] => a[2] = b[2]

\* A node speaks in no term that its storage could lose: the term of a message in
\* flight is stored by its sender (Actions::next puts storage before messages, and
\* every handler that enters a term queues its save).
SentTermsStored ==
  \A p \in net :
    p.msg.type # "InstallSnapshot" => p.msg.term <= stored[p.msg.from].current_term

\* No handler changes the term or the vote behind the back of storage: what storage
\* lacks is queued, through merges, role changes, crashes and snapshots.
UnsavedQueued ==
  \A id \in NodeId :
    LET nd == node[id] IN
    /\ nd.actions.save_current_term \/ stored[id].current_term = nd.current_term
    /\ nd.actions.save_voted_for \/ stored[id].voted_for = nd.voted_for

\* The log has the committed <<index, entry>>, or a snapshot that covers it.
Keeps(es, c) ==
  \/ c[1] <= es.prev.index
  \/ c[1] <= LastIndex(es) /\ EntryAt(es, c[1]) = c[2]

\* The node leads, and no later term has had a leader.
LatestLeader(id) ==
  /\ node[id].role = "Leader"
  /\ \A l \in elected : l[1] <= node[id].current_term

\* The leader of the latest term has every committed entry (in its log, or
\* below its snapshot).
LeaderCompleteness ==
  \A id \in NodeId : LatestLeader(id)
    => \A c \in committed : Keeps(node[id].log.entries, c)

\* Everything that holds log entries: memory, storage, and messages on the way.
Holders ==
  {node[id].log.entries : id \in NodeId} \cup {stored[id].log.entries : id \in NodeId}
    \cup {p.msg.entries : p \in {q \in net : q.msg.type = "AppendEntriesCall"}}

\* Logs in memory, in storage and in flight that contain one position agree on
\* everything both hold before it.
LogMatching ==
  \A a, b \in Holders :
    \A i \in a.prev.index + 1 .. LastIndex(a) :
      (Contains(b, Pos(EntryAt(a, i).term, i)) /\ i > b.prev.index)
      => \A j \in Max({a.prev.index, b.prev.index}) + 1 .. i : EntryAt(a, j) = EntryAt(b, j)

\* The match index a leader reports for a follower is a lower bound of what the
\* follower's storage shares with the leader's log (follower_match_index), as
\* long as the follower has not seen a later term.
MatchIndexDurable ==
  \A id \in NodeId : node[id].role = "Leader" =>
    \A f \in DOMAIN node[id].followers \cap NodeId :
      LET i == node[id].followers[f]
          mine == node[id].log.entries
          its == stored[f].log.entries
      IN  (/\ i > Max({mine.prev.index, its.prev.index})
           /\ node[f].current_term <= node[id].current_term)
          => Contains(its, Pos(TermAt(mine, i), i))

\* Every committed entry is stored by a majority of the voters of the leader's
\* configuration: once committed, it survives the crash of any minority, a solo
\* voter's own crash included (Actions::next puts storage before messages).
CommittedOnMajority ==
  \A id \in NodeId : LatestLeader(id)
    => \A c \in committed :
         HasMajority({n \in NodeId : Keeps(stored[n].log.entries, c)}, Config(node[id]).voters)

\* A storage write finds its anchor: what AppendLogEntries overwrites starts at a
\* position that storage holds.
AppendAnchorStored ==
  \A id \in NodeId : \A e \in node[id].actions.append_log_entries :
    Contains(stored[id].log.entries, e.prev)

\* The boundary of every log, in memory and in storage, is a committed position,
\* with the configuration that the committed entries up to it establish.
SnapshotBoundaryCommitted ==
  \A log \in {node[id].log : id \in NodeId} \cup {stored[id].log : id \in NodeId} :
    LET p == log.entries.prev
        configs == {c \in committed : c[1] <= p.index /\ c[2].kind = "ClusterConfig"}
    IN  p # ZERO =>
          /\ \E c \in committed : c[1] = p.index /\ c[2].term = p.term
          /\ \A c \in configs : (\A d \in configs : d[1] <= c[1])
                                  => c[2].config = log.snapshot_config

\* A position a node reports as committed is reported as rejected by no node.
CommitStatusAgrees ==
  LET positions == UNION {{Pos(EntryAt(es, i).term, i) :
                             i \in es.prev.index + 1 .. LastIndex(es)} : es \in Holders}
  IN  \A p \in positions : \A a, b \in NodeId :
        ~(/\ CommitStatus(node[a], p) = "Committed"
          /\ CommitStatus(node[b], p) = "Rejected")

\* A joint configuration is followed by another configuration, in any log, only
\* once it is committed (finalize_joint_consensus).
JointCommittedFirst ==
  \A es \in Holders : \A i, j \in es.prev.index + 1 .. LastIndex(es) :
    (/\ i < j
     /\ EntryAt(es, j).kind = "ClusterConfig"
     /\ IsJointConsensus(EntryAt(es, i).config))
    => <<i, EntryAt(es, i)>> \in committed

\* A leader that has committed a configuration of which it is no voter has
\* stepped down.
RemovedLeaderStepsDown ==
  \A id \in NodeId :
    LET nd == node[id] IN
    (nd.role = "Leader" /\ LatestConfigCommitted(nd) /\ ~IsJointConsensus(Config(nd)))
    => id \in Config(nd).voters

\* A voter that does not lead has its election timer running.
VoterTimerRuns ==
  \A id \in NodeId :
    (IsVoter(Config(node[id]), id) /\ node[id].role # "Leader")
    => timer[id] \/ node[id].actions.set_election_timeout

-----------------------------------------------------------------------------
(* What a step may never do. *)

Leads(nd) == nd.role = "Leader"
SameTenure(id) ==
  /\ Leads(node[id])
  /\ Leads(node[id]')
  /\ node[id]'.current_term = node[id].current_term

\* While a node leads a term, no follower's match index goes back and its log
\* only grows (a snapshot may take its prefix).
LeaderMonotonic ==
  [][\A id \in NodeId : SameTenure(id) =>
       LET old == node[id].log.entries
           new == node[id]'.log.entries
       IN  /\ \A f \in DOMAIN node[id].followers \cap DOMAIN node[id]'.followers :
                node[id].followers[f] <= node[id]'.followers[f]
           /\ LastIndex(old) <= LastIndex(new)
           /\ \A i \in new.prev.index + 1 .. LastIndex(old) : EntryAt(old, i) = EntryAt(new, i)
    ]_vars

\* What a restart would restore never goes back: the stored term does not fall, and no
\* committed entry leaves the storage of a node that has it in its log too and has seen the
\* term of every leader. (One that still hears an earlier leader may lose it to him; and a
\* copy that the log has lost so, the storage not yet having been told, may be cut off
\* storage by any later write, although the entry was committed elsewhere meanwhile.)
StorageMonotonic ==
  [][\A id \in NodeId :
       LET old == stored[id].log.entries
           new == stored[id]'.log.entries
           current == \A l \in elected : l[1] <= node[id]'.current_term
       IN  /\ stored[id].current_term <= stored[id]'.current_term
           /\ current => \A c \in committed :
                Keeps(node[id].log.entries, c) /\ Keeps(old, c) => Keeps(new, c)
    ]_vars

-----------------------------------------------------------------------------
(* What the cluster implements. *)

Log == INSTANCE ReplicatedLog
         WITH leaders <- elected, decided <- committed,
              known <- [id \in NodeId |-> node[id].commit_index]

\* The nodes, their storage and the links implement one replicated log (ReplicatedLog):
\* it only grows, under one leader a term and up to an entry of the leader's own term,
\* each configuration follows from the one before it, and no node takes an entry for
\* committed that its leader has not committed.
ImplementsReplicatedLog == Log!Spec
=============================================================================
