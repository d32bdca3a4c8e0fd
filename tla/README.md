# A verification of noraft

TLA+ modules that model [noraft](../src/README.md), TLC configurations that check
them on small instances, and TLAPS proofs. Paths below are relative to the
repository; `node.rs` stands for `src/node.rs`, and so on.

## 1. The system

noraft is a Raft node without I/O. A `Node` is a value that its user calls: each
call changes the node's memory and leaves `Actions`, which the user executes on
storage, network and timers of his own. Everything that makes Raft hard happens
between these calls: what is lost, repeated or reordered, what a crash interrupts,
what is merged when the user does not execute actions at once.

| component | state | operations | interacts with |
|---|---|---|---|
| `Node` (node.rs) | id, current_term, voted_for, log, commit_index, role and its data (granted votes; followers and quorum), queued actions | start/restart, create_cluster, propose_command, propose_config, heartbeat, handle_election_timeout, handle_message, handle_snapshot_installed, get_commit_status | everything below |
| `Log`, `LogEntries` (log.rs) | snapshot configuration and boundary; last position, indices of Term and ClusterConfig entries | push, append, truncate, since, strip_common_prefix, contains, get_config | read and written by Node; part of messages and of the AppendLogEntries action |
| `ClusterConfig` (config.rs) | voters, new_voters, non_voters | is_voter, majorities, to_joint_consensus | held by log entries and by the snapshot |
| `Quorum` (quorum.rs) | two ordered sets of (match index, id), each as large as a majority | update_match_index, smallest_majority_index | rebuilt by a leader on every new configuration |
| `Message` (message.rs) | the four messages of Raft | merge with a queued message, drop a prefix, rebase on a snapshot | queued in Actions, delivered by the user |
| `Actions` (action.rs) | one slot or map per kind of action | set (merges), iterator (order of execution) | filled by Node, drained by the user |
| the user; `TestNode` and `TestCluster` (pbt/src/lib.rs) are one | storage and the write in flight, held outbound, links, election timers, snapshots | executes actions, runs ticks, crashes, restarts | calls Node |
| `could_be_disruptive_request_vote` (node.rs) | - | tells which messages the user may drop | asked by the user before handle_message |
| `NodeMetrics` (node.rs) | counters | increment, reset with the node | read by the user, to whom one of them tells that a log has lost its tail |

What is hard, and what makes each part correct:

- **Elections.** The term and the vote are two storage actions, and a crash can fall
  between them. A leader that is removed steps down *within* its term and forgets its
  vote; an AppendEntriesCall overwrites a vote. Still no term may have two leaders,
  and no node may speak in a term that it can forget.
- **Replication.** Replies may be stale or repeated, calls overtake each other, a
  divergent suffix is truncated in memory but not in storage until something is
  appended. Logs must match, a match index must never claim what a follower's
  storage may lose, and the quorum structure must count correctly.
- **Commitment.** Only entries of the leader's own term are committed by counting; a
  solo voter commits before its write is executed and depends on the order of the
  actions.
- **Reconfiguration.** Committing a joint configuration proposes the final one inside
  the same call, whose commit may demote the leader. Elections need both majorities.
- **Snapshots.** A snapshot replaces the log under queued actions, queued messages and
  late appends.
- **Batching.** Actions that are not executed are merged; each kind has a rule of its own.
- **Writes that take time.** A user may go on while storage is written. What the node
  sends must wait for the write that covers it, however many calls came in between, and
  a write that is lost must take with it what depends on it.
- **Progress.** Nothing in the crate has a clock. That a leader is elected, that its log
  reaches everybody and that a removed node disturbs nobody rests on timers that are set
  again by the right calls, and on replies that are not answered in a circle.
- **The compact log.** An entry's term is not stored but found in a map of term changes;
  truncation, rebasing and appends must keep two maps and a cached last position
  consistent, and the common prefix of two logs is found at term changes alone.

The list of hazards, each with its line and the properties aimed at it, is in
`PROJECT.json`.

## 2. The modules

| module | models | lines of the code |
|---|---|---|
| `RaftLog` | log positions, configurations, entries and logs as sequences, pure operators | log.rs, config.rs |
| `Node` | a node record, messages, actions, and the transitions the handlers share | node.rs (private methods), message.rs, action.rs |
| `Handlers` | extends Node: the public methods, each a function from a node and its input to the node it leaves | node.rs (public methods and handlers) |
| `Cluster` | extends Handlers: one action per public method, composed with storage, links, timers, crashes and snapshot transfers | node.rs, pbt/src/lib.rs |
| `ClusterProperties`, `MCCluster` | what is checked of Cluster; its instances | - |
| `ReplicatedLog` | the abstract specification: leaders, each alone in a term, decide one growing log | - |
| `Harness` | extends Handlers: the tick harness, with writes in flight and held outbound | pbt/src/lib.rs |
| `HarnessProperties`, `MCHarness` | what the harness checks and takes for granted; its instances | - |
| `Progress` | extends Handlers: trouble, then a calm with working links and timers, under fairness | node.rs, pbt/src/lib.rs |
| `ProgressProperties`, `MCProgress` | what eventually happens; its instances | - |
| `NodeMetrics` | extends Cluster: the counters that each call increments | node.rs (NodeMetrics) |
| `NodeMetricsProperties`, `MCNodeMetrics` | what may be concluded from the counters | - |
| `SequenceLog` | a log and a leader's entries as the sequences of RaftLog, under every method | log.rs |
| `CompactLog` | the same as the code keeps them, positions and two maps; implements SequenceLog | log.rs |
| `CompactLogProperties`, `MCCompactLog` | the refinement mapping and the queries; instances | - |
| `QuorumIndex` | the incremental quorum, its properties and its instance | quorum.rs |
| `LogTypes` | the logs that the program can hold, for assumptions and proofs | log.rs (types) |
| `QuorumIndexProofs`, `CompactLogProofs`, `LogProofs`, `VoteProofs`, `ElectionProofs`, `MatchProofs`, `CallProofs`, `SafetyProofs` | theorems and lemmas (section 4); the last six rest on each other in this order | - |

How they compose: `RaftLog` is under everything. `Cluster`, `Harness` and `Progress` are
three environments of the same `Node`: the most general one that the documentation of the
actions allows, the one the repository's property tests run in, and one that
behaves well in the end. All three take the public methods from `Handlers` and differ in
what happens to the actions that a call leaves.

`QuorumIndex` stands beside the others: it shows that the ordered sets of quorum.rs
compute an order statistic of the match indices, and `Node` then uses the statistic
(`SmallestMajorityIndex`) where the code keeps the sets.

### State

| in `Cluster` | in the code |
|---|---|
| `node[id]` | the `Node` value; `followers` is the map of match indices of `RoleState::Leader`, `granted_votes` that of `RoleState::Candidate`; `actions` is `Actions`, an `Option` being a set of at most one element |
| `node[id].broken` | the debug_asserts and `unreachable!`s that would have fired; nothing in the code |
| `timer[id]` | the user's election timer, armed by SetElectionTimeout |
| `stored[id]` | what SaveCurrentTerm, SaveVotedFor and AppendLogEntries have written, and the last snapshot |
| `net` | messages and snapshots in flight |
| `elected`, `committed` | history: leaders by term, from those of `Past` on; entries that a node reported as committed with its storage actions executed |

A `LogEntries` of these modules is its previous position and the *sequence* of its entries,
where the code keeps positions and two index maps, as `CompactLog` does; a Term entry starts a term and every entry
carries the term that the maps would give it. A configuration is a record of sets, a
`Command` has no payload (nor has the code's).

### Steps

A step is one call by the user and what he does with the actions it leaves
(`Return`): executes them all in the order of `Actions::next`, sending any subset of
the messages (the rest is lost); crashes after any of the storage actions and
restarts from storage; or leaves them queued, if `Batching` allows, so that later
calls merge into them and `Execute` runs some of them between calls. An
AppendEntriesCall may be split at both ends (`Slices`) as the user may do. A delivered message leaves
`net`, or stays to be delivered again.

`handle_message` is `HandleMessage`: the receiver first observes the term
(`ObserveTerm`), then the handler of the message's type tells its outcomes apart in the order
of the code's early returns. The mutual calls of
`update_commit_index_if_possible`, `propose` and `finalize_joint_consensus` are kept: `CommitThen` and `ProposeThen` take the outcome of the
call they make as a parameter, and the next level of the recursion, in `NestedCommit`, is
asserted never to be reached.

A user of noraft has obligations, and the model keeps to them: a cluster is created
once (`NoCluster`); a snapshot is taken of committed entries, and is stored in the
same step as `handle_snapshot_installed` is called; storage is not lost; a proposed
non-voter is no voter.

In `Harness` a step is one iteration of the loop of `TestCluster::run_tick` for one node,
or one thing a test does between ticks: a node whose write is in flight only waits for
its end; otherwise the timer, the snapshot and a sequence of the messages that are due are
handled, the storage actions become a write of the node's whole state
(`pending_durable`), and outbound is sent, or held behind the write. Latencies are left
out: what is on its way may be due at any tick. What is held and what is on its way are bags, as
a leader may send two equal heartbeats. No test of this harness compacts a log, which takes
its private fields; `TakeSnapshot` is the command of that name in
tests/cluster_safety.rs, where a write in flight becomes one of the compacted node.

In `Progress` the actions of a call are executed whole before the next call. In the time
of trouble anything may be lost and any timer may expire; `BeginCalm` picks the nodes
that run from then on, a majority of every configuration that some node knows.

## 3. The runs

The runs of `MCCluster` are instances of the same specification; a boot state (`Boot`) says what
storage holds when the nodes start, and `Past` which leaders it tells of, so that the bounds
are spent on what the run is about. `MCCluster` says how the program gets to each. T is MaxTerm, I is MaxIndex (no
proposal after that many entries), F is MaxInFlight (what is sent beyond it is lost).

| run | instance | checks | shows |
|---|---|---|---|
| Election | 3 voters; every node may crash; actions may merge until a message of a later term is handed over; T3 I3 F1 | ElectionSafety, DebugAssertionsHold, SentTermsStored, AppendAnchorStored, UnsavedQueued | two candidates per term and two elections, with crashes between the saves; merging is sound under this discipline |
| Divergence | 3 diverged logs; split and duplicated calls; a change to one voter; T5 I5 F1 | StateMachineSafety, LeaderCompleteness, CommittedOnMajority, CommitStatusAgrees, LogMatching, MatchIndexDurable | the situation of Figure 8 of the Raft paper, truncation, both majorities of a joint configuration |
| Reconfig | 2 voters and a new node; replace one or both, add a learner; duplicates, crashes of the old voters, heartbeats; T3 I4 F1 | TypeOK, JointCommittedFirst, RemovedLeaderStepsDown, VoterTimerRuns, LeaderMonotonic, ImplementsReplicatedLog | joint consensus from both sides, a leader that removes itself; every step decides entries of one log |
| Growth | 2 nodes, nothing stored; one or two initial voters; snapshots, duplicates, crashes; T3 I3 F1 | CommittedOnMajority, SnapshotBoundaryCommitted, DebugAssertionsHold, StorageMonotonic | create_cluster, the commit of a solo voter, growth and hand-over, compaction and transfer against late messages and crashes |
| QuorumIndex | 4 ids, match indices up to 2, every configuration | QuotaKept, SmallestMajorityIndexCorrect | the incremental sets are right, and never empty |
| Logs | one configuration, T2, indices to 3 | RepresentationOK, QueriesAgree, StripLosesNothing, ImplementsSequences | maps, iteration, lookup and the common prefix, after every sequence of methods; every method does to the sequence what RaftLog says |
| Counters | 2 voters and a new node; replace one or both, add a learner; snapshots, restarts between calls; T3 I4 F1 | CountersAccount, NoAlarmWithoutLoss, IgnoredIsCounted | the counters agree with what happened, and the sign of a lost log tail is not given without one |
| Harness | 3 nodes, the four trials below | HarnessElectionSafety, OutboundIsDurable, CommittedIsDurable, SnapshotTermReached, TimerSurvivesTick | a stop in the middle of a write takes back nothing that was sent; outbound waits for the write that covers it |
| Progress | 3 nodes, the four trials below; F1; the calm up to term 9 | TermsSuffice, ProposalsSettle, CreationSucceeds, JointConsensusEnds, LeaderKept | a leader is elected and stays, every log follows, every proposal is settled, a removed node deposes nobody |
| HarnessLostWrite | the trial hasty | OutboundIsDurable | **violated**: section 5 |
| FoundOther | the trial foundingOthers | CreationSucceeds | **violated**: section 5 |
| Merge | 3 voters; unrestricted batching; T3 I4 F2 | AppendAnchorContained | **violated**: section 5 |

`Harness` and `Progress` take a set of *trials*, records of a boot state, of what may happen
and of the bounds; each behaviour follows one, which the variable `trial` names. The bounds of a
trial leave room for what it is about, where one instance of everything would be too large.

| trial of Harness | what happens |
|---|---|
| stops | two of three voters may stop once and start again; T2 I3 |
| compacts | users compact logs, also while a write is in flight; the former leader may stop once, also while a snapshot is on its way to it; T2 I3 |
| batches | one node is down, two messages are on the way to each other node and handled in one tick, proposals between ticks; T3 I4 |
| creates | nodes that never ran; the creator may stop once, in its first write or after; T1 I2 |
| hasty | proposals while a write is in flight; T2 I4 |

| trial of Progress | the time of trouble |
|---|---|
| restarting | elections, proposals and restarts up to term 2, I3 |
| leaving | one of the three voters is removed, I4, term 2; the user drops what `could_be_disruptive_request_vote` tells |
| compacting | nodes compact their logs, I3, term 2; one coincidence of timers in the calm |
| founding | three fresh nodes, one of which creates a cluster of all; restarts; I2, term 1; one coincidence in the calm |
| foundingOthers | one of three fresh nodes creates a cluster of the two others |

The bounds: three terms give a leader, its successor and the return of the first, or
two rival candidates after a stored term; the diverged run starts in term 3 and has
two more. Four entries hold a configuration, a Term entry, and two more that may
conflict; in Election, where each leader brings a Term entry of its own, three are enough for
two leaders' appends to meet. One message in flight already gives every order in which a network may
deliver, since all others count as lost, but only one stale message at a time; with
duplication it may be delivered any number of times, and Merge has
two. Symmetry permutes n2 and n3 only where the boot state and the trials treat them alike, and no
run with symmetry checks liveness. `CHECK_DEADLOCK FALSE` is set in the runs of
`Cluster`, `NodeMetrics` and `Harness` because a system in which every term and index is used up has nothing more
to do; noraft itself only reacts. The runs of
`Progress` and of the logs check for deadlock: there time goes on, and a log has always
something to do.

In most trials of `Harness` one message on the way to each node, and one handled in a tick,
give every order in which *links* deliver; batches has two of each, for what merges
within a tick. Terms and indices leave room for one change of leader (two in
batches) and for an entry in flight behind another. In the trials of `Progress` the trouble
reaches term 2, so that two candidates, or a leader and a candidate, are left behind in
any mixture of logs; `MaxTerm` must not be what ends elections, which
`TermsSuffice` checks: no voter that waits ever reaches it. In `NodeMetrics` the
counters an instance keeps are a parameter (`Counters`), as each multiplies the states; a
counter saturates at `MaxCount`, as it does at u64::MAX, and the bound of the run is
above what three terms can count. NoAlarmWithoutLoss needs links that deliver in order and once: one
message in flight and no duplication.

Every property has a mutant (`\* Mutant of ...` above the definition it replaces): a
plausible bug in one definition, under which the same run finds the property violated.

What the less obvious properties say:

- `DebugAssertionsHold`: of the assertions in the code, those whose truth depends on
  the history are modelled at the place where they stand; the ones that hold by the
  line before them are not.
- `MatchIndexDurable` relates a leader's match index (`follower_match_index`, which answers for
  leaders only) to the follower's *storage*, not its memory.
- `CommittedOnMajority` requires each committed entry in the storage of a majority of the
  voters of the configuration that the latest leader follows.
- `VoterTimerRuns`: `handle_election_timeout` of a non-voter returns early without
  setting the timer again. A non-voter that becomes a voter by an append has its timer
  set by that same call. It is checked without snapshots: a snapshot whose
  configuration makes the node a voter sets no timer, and whether the user does is his
  affair.
- `RemovedLeaderStepsDown` is checked without snapshots, too: a candidate that a snapshot tells
  of its removal stays a candidate, and leads until its first commit if the voters of
  the new configuration elect it.
- `ProposalsSettle`, `JointConsensusEnds` and `CreationSucceeds` presuppose that a node that
  runs in the calm knows a configuration (`Founded`): before that there is no cluster.
- `CommitStatusAgrees` ranges over the positions of all logs in memory, storage and flight.

### Fairness and the calm

`Cluster`, `Harness`, `NodeMetrics` and the logs are checked for safety only and state no
fairness: their users may stop at any time. `Progress` states two assumptions:

- `WF_vars(BeginCalm)`: the trouble ends some time.
- `CalmGoesOn`: weak fairness of `Calm`, a step of which is the delivery of a message, the
  expiry of a timer that has run out, or the end of a period. It is spelled out with the guard `CanMove` in place
  of ENABLED, which TLC evaluates slowly. The formulas are the same because every step of the
  calm changes a variable: a delivery takes a message from `net`, an expiry stops or restarts
  a timer that had run, a period flips `clock`.

The crate has no scheduler and no timers; the harness of the property tests has, and the calm
is what it sets up in the liveness tests: a majority of every configuration runs, links
work, and a period of heartbeats is longer than an exchange of messages. A leader's
timer runs for one period, a follower's for `MaxAge` periods, a candidate's for one to `MaxAge`
(`reset_election_timeout`: minimum, maximum, random). Random timers may coincide so that one
expires among the messages of another, but not for ever; the `splits` of a trial bound how often, as
no deterministic assumption excludes endless split votes. Everything else is
left open: which candidate is first, in which order messages arrive, and what the trouble
left behind.

## 4. The proofs

### Quorum

`QuorumIndexProofs` proves, for every finite set of ids and every bound on the match indices:

- `QuotaIsKept`: each set has as many members as a majority;
- `SmallestMajorityIndexIsCorrect`: smallest_majority_index is defined and is the highest
  index that a majority of the voters (and of the new voters) have reached.

The properties are not inductive: the size and the minimum of a set say nothing of
the voters that are not in it. The invariant `QuorumInv` adds that the entries are
current (`EntriesCurrent`) and that no voter outside is ahead of any entry inside
(`OutsidersBehind`). The step has three cases: an ignored update, one whose old entry
is in the set, and one that pops the first. That an ordered set has a first entry
follows from the well-foundedness of the lexicographic order.

### Durability

`ElectionProofs` proves, for every set of nodes, boot state, configuration change,
batching discipline and bound:

- `SentTermsAreStored`: no message in flight carries a term that its sender's storage
  could lose;
- `UnsavedIsQueued`: what storage lacks of a term or a vote is queued as an action;
- `StoredTermsNeverFall`: no step, a crash between two writes included, lowers a stored term;
- `AlwaysDurable`: the invariant the three follow from.

The first is not inductive: a message is sent from the queue, so the invariant
`Durable` must speak of queued messages too (`OwnMessages`: they carry the node's id and
no later term than the node's), of the queue of unsaved changes (`Backs`), and of
enough types for the operators to be defined. The argument goes through one relation,
`Evolves(nd, nd2)`: the node keeps its id, its term does not fall, and if nothing is
queued to be saved then nothing has changed. `VoteProofs` shows that it is reflexive
and transitive and that every operator of `Node` evolves the node, the mutual calls of
commit and proposal included, and that each public method and handler returns an
evolved node (`...Returns`); `ElectionProofs` shows that whatever `Return` does with one (execute,
crash, queue) preserves `Durable` (`ReturnStep`).

Assumptions: `BootAssumption` (storage holds a term, a vote that is a node's or none,
and a log over the cluster's configurations, for every node; a fresh node's is empty),
`PastAssumption` (the terms of those logs had leaders, each alone in its term and of a stored
term; the logs match), `BoundsAssumption`, and for the quorum `QuorumAssumption` (ids are naturals, finitely many).

### What one node does

`ElectionProofs` proves, again for every cluster, boot state, change of configuration,
batching discipline and bound:

- `LocalAssertionsAlwaysHold`, the part of DebugAssertionsHold that depends on one node
  alone: a term does not fall, a leader has voted for itself, a voter
  is a follower, queued messages merge in term order, propose leads to its end, and the
  configuration that ends a joint consensus is neither joint nor overlapping;
- `LeadersAreMonotonic`: while a node leads a term its log only grows, a snapshot aside, and
  no match index goes back;
- `VotersWait`: as long as no log is compacted, a voter that does not lead has its election timer
  running or queued (VoterTimerRuns);
- `AlwaysTyped`: the invariant of these.

VotersWait says that no call makes a node a voter, or an idle one of a leader, without asking for a timer
(`CallsWait`: if a call leaves the timer alone then the role and the log are as they were), and that no crash or
merge loses the request. Its hypotheses are `~Snapshots` and boot logs from index 0. They are
needed: handle_snapshot_installed replaces the configuration of the log without touching the timer, so a
snapshot may make a voter of a node whose timer expired while it was none. The step for
a snapshot that stands for nothing, which a leader may still send, is `EmptySnapshot`.

The invariant `Typed` is `Durable` with `Sound` for every node: its log, its queued writes
and its queued and travelling messages hold entries over the configurations of the cluster
(`Covering` says that these are closed under what the user may propose); a candidate or
leader has voted for itself, is a voter of *some* configuration and has a log that is not
empty; no assertion has failed. That the final configuration of a joint consensus has no
voter among its non-voters is so a fact about configurations, and that propose still leads
when it broadcasts is the one about commits: a leader that appends an entry and steps down
in the same call is solo, so it has a follower to send to only if it was removed.

`LogProofs` has the operators of `RaftLog` on logs of any length (what is kept, what is
appended, that a leader's log extends the old one). `VoteProofs` then states, once for
all, what a call may do to one node (`Outcome`):

- the term rises, or the vote is kept, or it was for the leader that is followed now, or the
  node was a leader that could be removed (`VoteKept`);
- a new leader is the only voter of a configuration, or was a candidate of the same term
  whose votes, counted or just heard, win one (`LeadsRightly`), and a candidate counts
  only votes of its term (`CountsRightly`);
- what the queue says that it did not say before is a vote for the node's choice,
  requested in this term; a candidacy of its own; or a call of its own leadership
  (`SpeaksRightly`).

`ElectionProofs` first sorts the steps of `Cluster` by what the user does (`NextCases`: a call and
what becomes of its actions, a snapshot, an execution, a crash, or nothing) and then brings every
step to one of three forms: a node moves and
whatever part of its actions is executed (`Moves`), it stores a part and restarts
(`Restarts`), or nothing happens to it (`Rests`). Invariants are shown for these forms and
know nothing of handlers.

### Elections

`FixedVotersElectOneLeader` proves ElectionSafety, and that no leader hears from another one,
for every finite set of voters that does not change: any number of nodes, boot states and
terms, any batching, merging, loss, repetition and reordering, crashes between any two
writes, snapshots, and non-voters that come and go. The assumption on the constants is
`VotersFixed(V)`: no change of voters is proposed, a cluster is created with the voters V,
the logs that storage holds at the start name no other voters (they may be empty: a
cluster that starts from nothing is included, as in the run Growth), and the leaders they tell
of were voted for by a majority of V whose terms are still stored (the run Election is the case
of three voters). Single-voter clusters are included.

ElectionSafety is far from inductive, because what a voter has promised is spread over its
memory, its queue, its storage and the links, and because noraft overwrites votes: a
node that hears a leader of its term takes it for its vote. So "a vote is given once a
term" is false here. `FixedInv` says instead:

- whoever leads, or has a call of a leader queued or in flight, is in `elected` (`LeadersElected`);
- a vote that is queued, in flight or counted binds its voter in memory, and in storage
  once it is sent, and binds the candidate to itself in both (`VotesPledged`); a request for
  votes binds its sender likewise (`CandidatesPledged`). Bound means: past the term, or
  voted in it for the candidate *or for one of its leaders* (`Loyal`, `Pledge`);
- a voter has given votes for two candidates only in a term that has had a leader (`OneVote`);
- whoever has led has a majority that is bound to it alone, and has voted for no other
  candidate (`LeadersChosen`).

A new leader needs the third to conclude that its votes are for itself alone, the fourth to
conclude that there was no leader before it (two majorities meet, `MajoritiesMeet`), and
becomes subject to the fourth. The step has one lemma per conjunct. TLC checked the invariant, over
bounded terms, in the instance of the run Election before it was proved.

### Logs

`MatchProofs` proves LogMatching, for memory, storage and flight at once:

- `LogsMatch`: `Spec /\ []ElectionSafety => []LogMatching`, for any number of nodes and any
  changes of voters, with snapshots, split, lost and repeated calls, and crashes between any
  two writes;
- `FixedVotersMatchLogs`: `Spec => []LogMatching` where the voters stay the same, for which
  `FixedVotersElectOneLeader` gives the rest.

Both assume users of `Batching = "none"`, who execute the actions of a call before the next one
(those who merge them without restriction lose an entry, section 5), and `OneFounding`: at most one
configuration founds the cluster, which is the note of create_cluster that a node belongs to one
cluster. That no term has two leaders is proved where the voters are fixed and otherwise a
hypothesis, checked by the run Election and implied by what Reconfig checks.

A log is seen as the set of its *edges* (`LogTypes`): an entry, its index and the term before
it. Two logs that contain one position agree down from it if, of all edges in the world, only one
has a given index and term (`EdgesAgree`); the term before it is part of the edge, so the
agreement passes on to the index before. This is the first conjunct of `MatchInv` and the others
are what it needs:

- a leader adds edges beyond the end of its log only. So every edge and every boundary
  belongs to a term that *was led*, up to an index that its leader's log reaches for as long as it
  leads (`EdgesLed`, `LogsLed`, `PacketsLed`, by way of `Led`), a leader has an entry of its own term
  (`LeadersRipe`), and who is elected in a term was not elected in it before (ElectionSafety);
- a Term entry starts a term and no other entry does (`TermsStep`);
- between calls nothing is queued (`Idle`).

Everything a call can do to a log is one of three lemmas: followers keep edges or take them from
the message (`Spares`, `Demoted`), leaders add their own (`Grows`), snapshots only drop some
(`InstallEdges`). They are shown for every operator of `Node` and every handler, the nested
calls of commit and proposal included, before the cluster comes in.

### Committed entries

`SafetyProofs` proves what the whole is for. Where the voters stay the same,

- `FixedVotersAgree`: no two nodes see different entries committed at one index
  (StateMachineSafety);
- `FixedVotersComplete`: the leader of the latest term has every entry that was ever
  reported as committed (LeaderCompleteness);
- `FixedVotersStore`: a majority of the voters has each of them in storage
  (CommittedOnMajority);
- `FixedVotersReport`: get_commit_status of no node rejects what another node's calls
  committed (CommitStatusAgrees);
- `FixedVotersKeep`: no truncating write, snapshot or crash takes a committed entry from storage
  (StorageMonotonic);
- `FixedVotersCount`: what a leader counts of a follower's log as replicated is in that follower's
  storage, until the follower enters a later term (MatchIndexDurable);
- `FixedVotersSnapshot`: the boundary of every log, in memory and in storage, is a committed
  position, with the configuration that the committed entries up to it establish (SnapshotBoundaryCommitted);
- `FixedVotersImplement`: nodes, storage and links together implement `ReplicatedLog`, one growing
  log that leaders, each alone in its term, decide (ImplementsReplicatedLog);

for any number of voters and other nodes, any number of terms and entries, any loss, repetition,
reordering and splitting of calls, crashes between any two writes, snapshots taken, sent
and installed at any time, and non-voters that come and go.

None of it can be said of the present logs alone: an entry is committed by replies that are
long gone, to a leader that may be deposed, and noraft's nodes truncate in memory what their storage
keeps. The invariant (`Invariant`, whose new part is `SafeInv` in `CallProofs`) therefore
says that there are two sets with which everything is in line:

- a *tree* `G`: the logs from index 0, as if nothing had ever been compacted, that leaders have had. It only
  grows. Any two agree up to the last position they share, and a term writes one line (`Tree`);
- the *acknowledgements* `A`: `<<w, t, k>>` if the log of w was, in term t, that of the leader
  of t up to index k. It only grows.

From these two and the nodes' terms follow the positions that are *chosen* (a majority has
acknowledged them) and *void* (a majority is past their term and has not), `Chosen` and
`Voided`. Both are for good and exclude each other, as two majorities meet. `Lined` is then Raft's argument in one line: any position of
an earlier term that is not on the way to a position of a later term is void. So what is chosen is on the
way to whatever later leaders write. The rest ties the cluster to the tree:

- every log, in memory and in storage, is a part of a log of the tree, and storage contains the last
  position of memory (`LogsSafe`), although what it has beyond that may be another's;
- what a node has acknowledged is in its log or void (`Keeper`); a leader's match indices
  are acknowledgements (`Matches`), and so are the replies in flight (`PacketSafe`);
- a commit index is on the way to a chosen position, in logs, calls and
  snapshots (`CommitSafe`, `CallSafe`);
- a candidate has in its log, or it is void, what is on the way to the position it calls with, and what those who
  voted for it have acknowledged (`CandidateSafe`): the candidate's log is *not* frozen, as a
  late AppendEntriesCall of its term is handled before the vote is counted;
- what was ever reported as committed is on the way to a chosen position (`HistorySafe`).

`CallProofs` shows what one call does to this and to the two sets (`Acted`), for every public method and every
outcome of the four handlers: what it writes (`Writing`), commits (`Committing`), counts
(`Counting`) and says (`Speaking`), and that a new leader's first entry may be put on the tree, because
a majority voted for it. `CallKeeps` there shows that `SafeInv` holds of the widened tree once the call is executed. `SafetyProofs`
adds the other forms of `ElectionProofs` (a call that is executed in part before a crash, a snapshot). `FixedVotersKeep` needs one more fact, that a leader which cuts a log does not cut
what an earlier one had chosen (`GrownKeeps`, `HeardKeeps`).

`FixedVotersCount` needs to know what has become of a log since a reply spoke of it. A match index
is not an acknowledgement when it lies below the leader's first own entry: the follower's last
entry is then of an earlier term, and nothing keeps it from being cut, except that the leader it
replied to has it. `Shown` (the last part of `Invariant`) says so of every position q that
a reply of the follower's present term names, or that the leader of that term counts: the
follower's log has q or has compacted it away (`Holding`), or q is off the line of a position of
that term, or of one decided by then (`Excluded`). A call cuts a log only by what such a leader sends
(`CallShows`), and a snapshot that drops it lies at a decided position (`SnapshotShows`). A leader of the term has
all of these positions on its own line (`LeadersLine`), so a position that it *counts*, which is on its
log, is not off it. The storage of the follower has what its log has (`LogsSafe`). That a leader counts only
what a reply of its own term said (`CountsHonestly`), and that the follower has then entered the term
(`CountsKnown`), rules out replies of earlier terms and of before a crash.

The refinement rests on one more invariant, `OneRecord`: what was ever reported as committed, by
anybody, are the first n entries of one log h whose terms rise at Term entries only, and no node
takes more than n entries for committed, nor does an AppendEntriesCall or a snapshot in flight say that
more are. A call whose node commits nothing beyond n leaves the record as it is: StateMachineSafety says that what
the node reports is in it already (`RecordSame`). A call whose node commits more is
that of a leader, since a follower commits at most what it is told; its log, put back to full length by the tree, is the new h, up to an
entry of its own term (`Commits`), and what was recorded before
is in it, as both are below chosen positions (`RecordGrows`, by `BelowAgrees`). `RecordIsLog` then
reads a record as the decided log of `ReplicatedLog`, and `AdvanceIsStep` a step of the
cluster as one of its steps or a stutter, commits by solo voters, snapshots and restarts included.

`FixedVotersSnapshot` adds `BoundaryInv`: the boundary of a node's log, and the snapshots in flight, stand for
recorded entries (`Establishes`), and storage carries the same configuration as memory. What a
boundary stands for stays so, as what is recorded later comes after it (`EstablishedStays`). A
snapshot that a user takes stands for the record since its log is in line with it (`TakenEstablishes`), and a call
passes on a boundary of its node only (`CallsBase`, `OutboundSnapshots`).

The hypotheses, beside the fixed voters V, not empty: `Batching = "none"` and `OneFounding`, as
above, and `PlainBoot`: the logs that storage holds at the start have not been compacted yet (they
may be afterwards), and of a term they hold one line. The boot states of all runs satisfy
`PlainBoot` and `OneFounding`; Divergence without its change of voters is an instance, and so is Growth with one
founding and without its change of voters.

The proof found StorageMonotonic, in an earlier and stronger form, to be false: no *stored*
committed entry was to be lost by a node that has seen the terms of all leaders. With five nodes, a leader of term 2 may cut a follower's log
in memory by a call that appends nothing; storage keeps the entries, which a leader of term 3, having
them too, commits with others. A call of that leader, split so that the user hands over its
first entry only, then makes storage drop the rest. Nothing is wrong with that, since the node has
acknowledged none of them; the property now speaks of entries that the log has in memory, too.

### The compact log

`CompactLogProofs` proves, for every set of configurations and
every bound on terms and indices:

- `RepresentationStands`: the keys of both maps lie within the log and apart, and the term
  cached in last_position is the one get_term finds;
- `CompactLogImplementsSequences`: every method of the compact log changes the sequence it
  stands for as the operator of `RaftLog` says. The models of the node and of the cluster,
  which work on sequences, so speak of the maps of the code.
- `StrippingLosesNothing`: a leader that strips what a follower's log seems to have, by
  Term boundaries alone, loses no entry as long as the two logs match; that they do is
  what the runs of the cluster check as LogMatching;
- `LookupsAgree` (QueriesAgree): iteration, which carries the term along, get_term and
  get_entry, which look it up, and the queries for configurations say of every index what
  the sequence says, and from_iter makes of the entries of a log the very same log.

The representation is inductive once it is typed (`Good`): a term that get_term returns is a
natural number because all that are stored are. Lookup is `range(..=i).next_back()`, so the proofs begin with
the value at the last key of a map up to an index; that there is a last key follows from
the well-foundedness of the naturals. `ValueAtSame` (two maps with the same keys up to an
index have the same value there) then carries get_term through truncate, since, push_back and
append_unchecked. For `strip_common_prefix` the proof shows that its cut lies in both logs
(`StripPosition`), which the assertion in append_unchecked needs, and that the last Term
before the first unknown one, found in the map, is the one that `RaftLog` chooses in the
sequence (`StripSame`). What is dropped (`StripAppendsSame`) then
lies up to an index where the terms of both logs agree, and is the same in both. Iteration and
from_iter are recursive functions, over the length of the log. What they compute is shown not by an
induction theorem but by naming the function they should be (the terms that get_term finds; the
log cut off after k entries), showing that it satisfies their equation, and that at a least index
where the two differ they could not (`SameByRecursion`). from_iter gives back the *same* log, so the
invariant says also that a log has its four fields and that two of them are maps (`Shaped`). The assumption is `LogBounds`: two bounds are naturals.

### Only model-checked

- **Changes of voters.** ElectionSafety and the properties of committed entries are proved where voters
  stay the same. Where they change, majorities of neighbouring configurations must meet, and
  which configuration a leader counts with depends on what its own log holds, so that
  elections, logs and commits need *one* invariant. Divergence and Reconfig check them there (one leader
  per term as a part of ImplementsReplicatedLog, since Election has no changes of voters), with the properties
  that are about nothing else (JointCommittedFirst, RemovedLeaderStepsDown). That a joint configuration is
  left before anything else changes is part of ImplementsReplicatedLog; with fixed voters the
  theorem says only that no configuration changes them, and Reconfig checks the rest.
- **Merged actions.** LogMatching, AppendAnchorStored and what follows from them for users who merge
  actions within a term need, beyond `MatchInv`, that storage with the queued write is the
  log in memory. Election checks them.
- VoterTimerRuns where logs are compacted; of DebugAssertionsHold the two places that depend on
  other nodes (that no leader hears of a second one is part of the
  invariant of `FixedVotersElectOneLeader`); TypeOK, the bounds of which are those of the runs (`Typed` is the
  invariant that is proved).
- The properties of `Harness` and of `NodeMetrics`.
- **Progress** rests on fairness, which needs reasoning (liveness, ENABLED) that
  is out of the prover's reach.

## 5. Findings

**A user that merges actions** (run `Merge`). `Actions` documents that "any unconsumed
actions are merged, so users can achieve
pipelining simply by calling multiple Node methods ... and then execute the final
actions" (action.rs:102). The run lets a user do that: a leader of term 2 has a
command at index 4 queued for storage, after position (2, 3), when the
AppendEntriesCall of the leader of term 3 arrives. It replaces the log from position
(1, 2) on, in memory, and queues its entries; `Actions::set` appends them to the queued
ones, which start after (2, 3) and do not contain (1, 2). The
`debug_assert!(self.contains(entries.prev_position))` of `append_unchecked`
(log.rs:616) fails. Without debug assertions the merged action has lost an
entry, and storage does not hold what the node has acknowledged.

The run `Election` shows that a user who executes the queued actions before handing over
a message of a later term is safe, with everything merged within a term.

**The harness loses a write** (run `HarnessLostWrite`). A test proposes to a leader whose
write is in flight. The next tick takes the queued storage actions with the others
(`mem::take`) and returns early because of the write, so that nobody writes them; the AppendEntriesCall that
depends on them is sent when the older write ends. The entry is sent before it is durable, which
the comment on held outbound says cannot happen.

**A cluster of others** (run `FoundOther`). create_cluster with initial voters that do not
include the caller returns a position, but starts no election and sends nothing: the
position never comes to a terminal status.

`PROJECT.json` quotes the lines that each of these contradicts.

## 6. Not modelled, and why

- Durations of timers and links, in `Cluster` and `Harness`: an expiry may happen whenever the
  timer is armed, a message arrives whenever it is in flight. `Progress` has periods.
- Of the harness: changes of membership and the voter flag (`Cluster` has changes of
  membership), the fault that drops the tail of a stored log on purpose, and the clock; ticks of different nodes interleave
  freely where the harness goes round in order.
- A message whose sender is its receiver: `handle_message` ignores it, and no node
  sends to itself (`Peers`).
- The width of u64 (`LogIndex::next` and `Term::next` overflow after 2^64 steps), and
  `LogPosition::INVALID` as the value of a refused call (here the action is disabled).
- Anchors that debug builds reject: `CompactLog` and `SequenceLog` append only at positions
  the log contains. `RaftLog` says what a release build makes of an anchor before the
  snapshot; one in the middle of nowhere is seen in `broken` instead.
- Storage faults: storage is written as asked, or not at all when a crash comes first.
- The `Display`, `Default` and conversion traits, and the getters of public fields.

## 7. Plan

Done: the node, its log in both forms, its quorum and its counters; three environments; the
refinements of `ReplicatedLog` and `SequenceLog`; liveness; the proofs of section 4.

What would come next:

1. Changes of voters in the proofs: `Chosen` and `Voided` by the configuration that a
   position of the tree follows.
2. Changes of membership and the voter flag in `Harness`.
