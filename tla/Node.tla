-------------------------------- MODULE Node --------------------------------
(***************************************************************************)
(* The state of one Node (src/src/node.rs) and the transitions its         *)
(* handlers share, as operators from a node record to a node record.       *)
(* Cluster has one action per handler and calls these operators.           *)
(*                                                                         *)
(* `followers' maps each follower to its match index.  `broken' collects   *)
(* the debug_asserts that would have fired; it stays empty if none does.   *)
(* The Quorum of a leader is not stored: its value is a function of the    *)
(* match indices and the last index (module QuorumIndex shows that the     *)
(* incremental structure of quorum.rs computes that function).             *)
(***************************************************************************)
EXTENDS RaftLog, FiniteSetsExt

CONSTANTS NodeId, Nil

-----------------------------------------------------------------------------
(* Messages (message.rs). *)

RequestVoteCall(nd, last) ==
  [type |-> "RequestVoteCall", from |-> nd.id, term |-> nd.current_term,
   last_position |-> last]
RequestVoteReply(nd, granted) ==
  [type |-> "RequestVoteReply", from |-> nd.id, term |-> nd.current_term,
   vote_granted |-> granted]
AppendEntriesCall(nd, entries) ==
  [type |-> "AppendEntriesCall", from |-> nd.id, term |-> nd.current_term,
   commit_index |-> nd.commit_index, entries |-> entries]
\* Mutant of AppendEntriesReply: the term of the node in place of its last entry's.
ReplyWithCurrentTerm(nd) ==
  [type |-> "AppendEntriesReply", from |-> nd.id, term |-> nd.current_term,
   last_position |-> Pos(nd.current_term, LastIndex(nd.log.entries))]
AppendEntriesReply(nd) ==
  [type |-> "AppendEntriesReply", from |-> nd.id, term |-> nd.current_term,
   last_position |-> LastPosition(nd.log.entries)]

IsCall(m) == m.type \in {"RequestVoteCall", "AppendEntriesCall"}

\* Message::merge: a queued message absorbs the next one for the same
\* destination; two AppendEntriesCalls join if the second continues the first.
Merge(m0, m1) ==
  IF /\ m0.type = "AppendEntriesCall"
     /\ m1.type = "AppendEntriesCall"
     /\ Contains(m0.entries, m1.entries.prev)
  THEN [m1 EXCEPT !.entries = AppendUnchecked(m0.entries, @)]
  ELSE m1

\* Message::handle_snapshot_installed: a queued message rebased on a snapshot.
RebaseMessage(m, p) ==
  CASE m.type \in {"RequestVoteCall", "AppendEntriesReply"} ->
         IF m.last_position.index < p.index THEN [m EXCEPT !.last_position = p] ELSE m
    [] m.type = "AppendEntriesCall" ->
         [m EXCEPT !.entries = RebaseEntries(@, p)]
    [] m.type = "RequestVoteReply" -> m

-----------------------------------------------------------------------------
(* Actions (action.rs).  An Option is a set of at most one element. *)

NoActions ==
  [set_election_timeout |-> FALSE, save_current_term |-> FALSE, save_voted_for |-> FALSE,
   append_log_entries |-> {}, broadcast_message |-> {}, send_messages |-> <<>>,
   install_snapshots |-> {}]

StorageIdle(actions) ==
  ~actions.save_current_term /\ ~actions.save_voted_for /\ actions.append_log_entries = {}

DebugAssert(nd, name, holds) == IF holds THEN nd ELSE [nd EXCEPT !.broken = @ \cup {name}]

SetElectionTimeout(nd) == [nd EXCEPT !.actions.set_election_timeout = TRUE]

\* Mutant of SetCurrentTerm: the save is not queued.
SetCurrentTermUnsaved(nd, t) == [nd EXCEPT !.current_term = t]

SetCurrentTerm(nd, t) ==
  [nd EXCEPT !.current_term = t, !.actions.save_current_term = TRUE]

\* Mutant of SetVotedFor: the save is not queued.
SetVotedForUnsaved(nd, v) == [nd EXCEPT !.voted_for = v]

SetVotedFor(nd, v) == [nd EXCEPT !.voted_for = v, !.actions.save_voted_for = TRUE]

\* Mutant of QueueAppend: a new AppendLogEntries replaces the queued one.
QueueLastAppend(nd, entries) == [nd EXCEPT !.actions.append_log_entries = {entries}]

\* Mutant of QueueAppend: the write is not queued.
QueueNoAppend(nd, entries) == nd

QueueAppend(nd, entries) ==
  LET merged == {AppendUnchecked(e, entries) : e \in nd.actions.append_log_entries}
  IN  [DebugAssert(nd, "append anchor",
               \A e \in nd.actions.append_log_entries : Contains(e, entries.prev))
       EXCEPT !.actions.append_log_entries = IF merged = {} THEN {entries} ELSE merged]

QueueBroadcast(nd, m) ==
  LET merged == {Merge(q, m) : q \in nd.actions.broadcast_message}
  IN  [DebugAssert(nd, "merge term", \A q \in nd.actions.broadcast_message : q.term <= m.term)
       EXCEPT !.actions.broadcast_message = IF merged = {} THEN {m} ELSE merged]

QueueSend(nd, to, m) ==
  LET queued == nd.actions.send_messages
      old == {queued[d] : d \in DOMAIN queued \cap {to}}
      merged == IF old = {} THEN m ELSE Merge(queued[to], m)
  IN  [DebugAssert(nd, "merge term", \A q \in old : q.term <= m.term)
       EXCEPT !.actions.send_messages =
         [d \in DOMAIN queued \cup {to} |-> IF d = to THEN merged ELSE queued[d]]]

QueueInstallSnapshot(nd, to) == [nd EXCEPT !.actions.install_snapshots = @ \cup {to}]

-----------------------------------------------------------------------------
(* Construction. *)

NewNode(id) ==
  [id |-> id, voted_for |-> Nil, current_term |-> 0, log |-> EmptyLog, commit_index |-> 0,
   role |-> "Follower", granted_votes |-> {}, followers |-> <<>>, actions |-> NoActions,
   broken |-> {}]

\* Node::restart from what storage holds.
Restart(id, stored) ==
  SetElectionTimeout(
    [NewNode(id) EXCEPT !.current_term = stored.current_term,
                        !.voted_for = stored.voted_for,
                        !.log = stored.log,
                        !.commit_index = stored.log.entries.prev.index])

Config(nd) == LatestConfig(nd.log)
Peers(nd) == UniqueNodes(Config(nd)) \ {nd.id}
IsSelfSoloVoter(nd) == UniqueVoters(Config(nd)) = {nd.id} /\ nd.id \in Config(nd).voters

-----------------------------------------------------------------------------
(* Role changes. *)

\* Mutant of SetRole: the data of the role that is left survives.
SetRoleOnly(nd, role) == [nd EXCEPT !.role = role]

\* The enum RoleState drops the data of the role that is left.
SetRole(nd, role) ==
  [nd EXCEPT !.role = role, !.granted_votes = {}, !.followers = <<>>]

TransitionToFollower(nd, term) ==
  LET armed == IF nd.role = "Follower" THEN nd ELSE SetElectionTimeout(nd)
      demoted == SetRole(SetVotedFor(SetCurrentTerm(armed, term), Nil), "Follower")
      stale(m) == IsCall(m) /\ m.term < term
      sends == demoted.actions.send_messages
      kept == {d \in DOMAIN sends : ~stale(sends[d])}
  IN  [DebugAssert(demoted, "term regression", nd.current_term <= term)
       EXCEPT !.actions.broadcast_message = {m \in @ : ~stale(m)},
              !.actions.send_messages = [d \in kept |-> sends[d]]]

\* Mutant of RebuildFollowers: a change of configuration forgets the match indices.
RebuildFromZero(nd) == [nd EXCEPT !.followers = [f \in Peers(nd) |-> 0]]

\* rebuild_followers: known followers keep their match index.
RebuildFollowers(nd) ==
  [nd EXCEPT !.followers =
     [f \in Peers(nd) |-> IF f \in DOMAIN nd.followers THEN nd.followers[f] ELSE 0]]

-----------------------------------------------------------------------------
(* Commit index. *)

\* The match index a leader counts for a voter: its own last index for itself.
\* A voter the followers map does not know counts as zero.
MatchIndex(nd, id) ==
  IF id = nd.id THEN LastIndex(nd.log.entries)
  ELSE IF id \in DOMAIN nd.followers THEN nd.followers[id] ELSE 0

\* The highest index that a majority of the voters have reached.
MajorityIndex(nd, voters) ==
  LET match == [v \in voters |-> MatchIndex(nd, v)]
  IN  CHOOSE i \in {match[v] : v \in voters} : IsMajorityIndex(i, match, voters)

\* Mutant of SmallestMajorityIndex: the new voters of a joint consensus do not count.
OldMajorityIndex(nd) == MajorityIndex(nd, Config(nd).voters)

SmallestMajorityIndex(nd) ==
  LET c == Config(nd)
      old == MajorityIndex(nd, c.voters)
      new == IF IsJointConsensus(c) THEN MajorityIndex(nd, c.new_voters) ELSE old
  IN  IF new < old THEN new ELSE old

\* Mutant of CanCommit: counts replicas of entries of earlier terms.
CanCommitAnyTerm(nd) == SmallestMajorityIndex(nd) > nd.commit_index

\* The early return of update_commit_index_if_possible.
CanCommit(nd) ==
  LET i == SmallestMajorityIndex(nd)
  IN  /\ i > nd.commit_index
      /\ ContainsIndex(nd.log.entries, i)
      /\ TermAt(nd.log.entries, i) = nd.current_term

\* Mutant of AdvanceCommitIndex: commits the whole log.
CommitWholeLog(nd) == [nd EXCEPT !.commit_index = LastIndex(nd.log.entries)]

AdvanceCommitIndex(nd) == [nd EXCEPT !.commit_index = SmallestMajorityIndex(nd)]

\* Mutant of LatestConfigCommitted: off by one.
LatestConfigIsNext(nd) == nd.commit_index + 1 >= LatestConfigIndex(nd.log)

\* Mutant of LatestConfigCommitted: misses a commit that jumps past the configuration.
LatestConfigCommittedNow(nd) == nd.commit_index = LatestConfigIndex(nd.log)

LatestConfigCommitted(nd) == nd.commit_index >= LatestConfigIndex(nd.log)

\* Mutant of CommitThen: a leader that is no voter any more does not step down.
CommitThenStay(nd, finalized) ==
  IF ~CanCommit(nd) THEN nd
  ELSE LET up == AdvanceCommitIndex(nd)
       IN  IF LatestConfigCommitted(up) /\ IsJointConsensus(Config(up)) THEN finalized
           ELSE up

\* update_commit_index_if_possible; `finalized' is the node if the call finalizes
\* a joint consensus.
CommitThen(nd, finalized) ==
  IF ~CanCommit(nd) THEN nd
  ELSE LET up == AdvanceCommitIndex(nd)
       IN  IF ~LatestConfigCommitted(up) THEN up
           ELSE IF IsJointConsensus(Config(up)) THEN finalized
           ELSE IF nd.id \in Config(up).voters THEN up
           ELSE TransitionToFollower(up, up.current_term)

-----------------------------------------------------------------------------
(* Proposals. *)

\* append_proposed_log_entry up to the solo voter's commit.
AppendProposedLogEntry(nd, entry) ==
  LET last == LastPosition(nd.log.entries)
      pushed == [QueueAppend(nd, [prev |-> last, ents |-> <<entry>>])
                 EXCEPT !.log.entries = Push(@, entry)]
  IN  IF entry.kind = "ClusterConfig" THEN RebuildFollowers(pushed) ELSE pushed

\* The rest of propose: the new entry is sent after `last'.  It takes the node
\* to be the leader still.
BroadcastProposal(nd, last, entry) ==
  SetElectionTimeout(
    IF DOMAIN nd.followers = {} THEN DebugAssert(nd, "still leader", nd.role = "Leader")
    ELSE QueueBroadcast(nd, AppendEntriesCall(nd, [prev |-> last, ents |-> <<entry>>])))

\* propose; `committed' is the node if a solo voter commits after the append.
ProposeThen(nd, entry, committed) ==
  LET appended == AppendProposedLogEntry(nd, entry)
  IN  BroadcastProposal(IF IsSelfSoloVoter(appended) THEN committed ELSE appended,
                        LastPosition(nd.log.entries), entry)

\* Mutant of FinalConfig: the joint configuration is left for its old voters.
FinalConfigOfOld(c) == [c EXCEPT !.new_voters = {}]

\* finalize_joint_consensus.  The code's functions call each other; the configuration
\* proposed here is not joint, so the commit inside never finalizes another one.
FinalConfig(c) == [c EXCEPT !.voters = c.new_voters, !.new_voters = {}]

NestedCommit(nd) ==
  CommitThen(nd, DebugAssert(AdvanceCommitIndex(nd), "nested joint consensus", FALSE))

FinalizeJointConsensus(nd) ==
  LET c == FinalConfig(Config(nd))
      checked == DebugAssert(nd, "final config", c.voters \cap c.non_voters = {})
      entry == ConfigEntry(nd.current_term, c)
  IN  ProposeThen(checked, entry, NestedCommit(AppendProposedLogEntry(checked, entry)))

UpdateCommitIndexIfPossible(nd) ==
  CommitThen(nd, FinalizeJointConsensus(AdvanceCommitIndex(nd)))

Propose(nd, entry) ==
  ProposeThen(nd, entry, UpdateCommitIndexIfPossible(AppendProposedLogEntry(nd, entry)))

-----------------------------------------------------------------------------
(* Elections. *)

\* Mutant of TransitionToLeader: a leader proposes nothing at the start of its term.
LeaderWithoutEntry(nd) == RebuildFollowers(SetRole(nd, "Leader"))

TransitionToLeader(nd) ==
  Propose(RebuildFollowers(SetRole(DebugAssert(nd, "leader vote", nd.voted_for = nd.id), "Leader")),
          TermEntry(nd.current_term))

\* Mutant of TransitionToCandidate: a candidate does not set its timer.
CandidateWithoutTimer(nd) ==
  LET voted == SetVotedFor(SetCurrentTerm(nd, nd.current_term + 1), nd.id)
      candidate == [SetRole(voted, "Candidate") EXCEPT !.granted_votes = {nd.id}]
  IN  IF IsSelfSoloVoter(voted) THEN TransitionToLeader(voted)
      ELSE QueueBroadcast(candidate, RequestVoteCall(candidate, LastPosition(nd.log.entries)))

\* transition_to_candidate of a node that is a voter.
TransitionToCandidate(nd) ==
  LET voted == SetVotedFor(SetCurrentTerm(nd, nd.current_term + 1), nd.id)
      candidate == [SetRole(voted, "Candidate") EXCEPT !.granted_votes = {nd.id}]
  IN  IF IsSelfSoloVoter(voted) THEN TransitionToLeader(voted)
      ELSE SetElectionTimeout(
             QueueBroadcast(candidate,
                            RequestVoteCall(candidate, LastPosition(nd.log.entries))))

\* Mutant of ObserveTerm: the node keeps its role.
ObserveTermInRole(nd, term) ==
  IF nd.current_term < term THEN SetVotedFor(SetCurrentTerm(nd, term), Nil) ELSE nd

\* Mutant of ObserveTerm: a follower that sees a later term waits for its timer anew.
ObserveTermWaiting(nd, term) ==
  IF nd.current_term < term THEN SetElectionTimeout(TransitionToFollower(nd, term)) ELSE nd

\* handle_message: a message of a later term demotes its receiver.
ObserveTerm(nd, term) ==
  IF nd.current_term < term THEN TransitionToFollower(nd, term) ELSE nd

Heartbeat(nd) ==
  SetElectionTimeout(
    IF DOMAIN nd.followers = {} THEN nd
    ELSE QueueBroadcast(nd, AppendEntriesCall(nd, NewEntries(LastPosition(nd.log.entries)))))

HasMajority(votes, voters) == Cardinality(votes \cap voters) >= Majority(voters)

\* Mutant of Wins: the new voters of a joint consensus do not count.
WinsOldVoters(votes, config) == HasMajority(votes, config.voters)

Wins(votes, config) ==
  HasMajority(votes, config.voters) /\ HasMajority(votes, config.new_voters)

-----------------------------------------------------------------------------
(* Snapshots. *)

\* is_valid_snapshot.
IsValidSnapshot(nd, p, config) ==
  /\ p.term <= nd.current_term
  /\ IF nd.commit_index < p.index THEN nd.role # "Leader"
     ELSE /\ Contains(nd.log.entries, p)
          /\ GetConfig(nd.log, p.index) = config

\* handle_snapshot_installed of a valid snapshot: the log and every queued
\* action are rebased.
InstallSnapshot(nd, p, config) ==
  LET q == nd.actions
      rebased == {RebaseEntries(e, p) : e \in q.append_log_entries}
  IN  [nd EXCEPT
        !.log = InstallInLog(@, p, config),
        !.commit_index = IF @ < p.index THEN p.index ELSE @,
        !.actions.append_log_entries = {e \in rebased : e.ents # <<>>},
        !.actions.broadcast_message = {RebaseMessage(m, p) : m \in @},
        !.actions.send_messages = [d \in DOMAIN @ |-> RebaseMessage(q.send_messages[d], p)]]

-----------------------------------------------------------------------------
(* get_commit_status of a position. *)

\* Mutant of CommitStatus: does not look for the position in the log.
CommitStatusByIndex(nd, p) ==
  IF p.index < nd.log.entries.prev.index THEN "Unknown"
  ELSE IF p.index <= nd.commit_index THEN "Committed"
  ELSE IF p.term < TermAt(nd.log.entries, nd.commit_index) THEN "Rejected"
  ELSE "InProgress"

CommitStatus(nd, p) ==
  LET es == nd.log.entries
  IN  IF p.index < es.prev.index THEN "Unknown"
      ELSE IF p.index <= nd.commit_index
           THEN IF Contains(es, p) THEN "Committed" ELSE "Rejected"
      ELSE IF ContainsIndex(es, nd.commit_index) /\ p.term < TermAt(es, nd.commit_index)
           THEN "Rejected"
      ELSE "InProgress"
=============================================================================
