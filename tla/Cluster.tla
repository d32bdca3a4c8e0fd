------------------------------ MODULE Cluster ------------------------------
(***************************************************************************)
(* A cluster of Nodes and what the crate leaves to its user: storage,      *)
(* links, election timers and snapshot transfers.                          *)
(*                                                                         *)
(* A step is one call of a Node's public method by its user.  The call     *)
(* leaves Actions in the node; Return says what the user does with them:   *)
(*   - executes all of them, in the order of Actions::next;                *)
(*   - crashes on the way, and restarts from what storage holds;           *)
(*   - leaves them queued: later calls merge into them, and Execute runs   *)
(*     some of them between calls.  A user of Batching "none" never does;  *)
(*     one of "within term" executes what is queued before it hands over a *)
(*     message of a later term; one of "free" does as it likes.            *)
(* A link loses a message (it is not put in net), delays and reorders it   *)
(* (net is a set) and delivers it again (it stays in net).                 *)
(***************************************************************************)
EXTENDS Handlers, LogTypes

CONSTANTS
  Boot,            \* NodeId -> stored state the nodes start from
  Past,            \* <<term, id>> of the leaders before that
  VoterChanges,    \* set of <<adding, removing>> given to to_joint_consensus
  NonVoterChanges, \* set of non_voters a leader may propose
  Creations,       \* sets of initial voters given to create_cluster
  Batching,        \* "none", "within term" or "free": see above
  Splitting,       \* does the user split AppendEntriesCalls?
  Duplication,     \* may a message be delivered twice?
  Crashing,        \* the nodes that may crash and restart
  Heartbeats,      \* do leaders send heartbeats?
  Snapshots,       \* are snapshots taken?
  MaxTerm,         \* no node enters a later term
  MaxIndex,        \* nothing is proposed after a log has this many entries
  MaxInFlight      \* capacity of the links: a send beyond it is discarded

ASSUME BoundsAssumption ==
  /\ {MaxTerm, MaxIndex, MaxInFlight} \subseteq Nat
  /\ Batching \in {"none", "within term", "free"}
  /\ {Splitting, Duplication, Heartbeats, Snapshots} \subseteq BOOLEAN
  /\ Crashing \subseteq NodeId
  /\ Nil \notin NodeId

\* The configurations of a log: ids that the user names, and no voter among the
\* non-voters (propose_config refuses any other).
Ids ==
  NodeId \cup (UNION Creations) \cup (UNION NonVoterChanges)
    \cup (UNION {change[1] : change \in VoterChanges})
Configs ==
  {c \in [voters : SUBSET Ids, new_voters : SUBSET Ids, non_voters : SUBSET Ids] :
     c.non_voters \cap UniqueVoters(c) = {}}

BootEdges == UNION {Edges(Boot[id].log.entries) : id \in NodeId}

ASSUME BootAssumption ==
  Boot \in [NodeId -> [current_term : Nat, voted_for : NodeId \cup {Nil},
                      log : Logs(Configs)]]

\* What the nodes start from was written under leaders, each alone in its term and of a
\* term that it has stored; the logs match.
ASSUME PastAssumption ==
  /\ Past \subseteq Nat \X NodeId
  /\ \A a, b \in Past : a[1] = b[1] => a[2] = b[2]
  /\ \A l \in Past : l[1] <= Boot[l[2]].current_term
  /\ \A id \in NodeId : \A t \in Terms(Boot[id].log.entries) :
       t <= Boot[id].current_term /\ (t # 0 => t \in {l[1] : l \in Past})
  /\ \A e \in BootEdges : TermsStep(e)
  /\ Distinct(BootEdges)

VARIABLES
  node,       \* the Node of each id
  timer,      \* is the user's election timer of the node running?
  stored,     \* what the node's storage holds: current_term, voted_for, log
  net,        \* [to, msg] in flight
  elected,    \* history: <<term, id>> of every leader so far
  committed   \* history: <<index, entry>> of every entry a user saw committed

vars == <<node, timer, stored, net, elected, committed>>

-----------------------------------------------------------------------------
(* Executing actions. *)

\* Storage after the first k of SaveCurrentTerm, SaveVotedFor, AppendLogEntries.
Persist(disk, nd, k) ==
  LET q == nd.actions IN
  [current_term |-> IF k >= 1 /\ q.save_current_term
                    THEN nd.current_term ELSE disk.current_term,
   voted_for |-> IF k >= 2 /\ q.save_voted_for THEN nd.voted_for ELSE disk.voted_for,
   log |-> IF k >= 3 /\ q.append_log_entries # {}
           THEN [disk.log EXCEPT !.entries =
                   AppendSuffix(@, CHOOSE e \in q.append_log_entries : TRUE)]
           ELSE disk.log]

\* The node after the actions up to the k-th storage action; after k = 4 it has none.
Executed(nd, k) ==
  LET q == nd.actions IN
  [nd EXCEPT !.actions =
     IF k = 4 THEN NoActions
     ELSE [q EXCEPT !.set_election_timeout = FALSE,
                    !.save_current_term = @ /\ k < 1,
                    !.save_voted_for = @ /\ k < 2,
                    !.append_log_entries = IF k < 3 THEN @ ELSE {}]]

\* The user sends a snapshot that is the boundary of the sender's log.
SnapshotTransfer(nd) ==
  [type |-> "InstallSnapshot", position |-> nd.log.entries.prev,
   config |-> nd.log.snapshot_config]

\* A message as it is sent: the user may drop entries from the end of an
\* AppendEntriesCall (truncate) and from its front (strip_append_entries_prefix).
Slices(m) ==
  IF ~(Splitting /\ m.type = "AppendEntriesCall") THEN {m}
  ELSE UNION {{[m EXCEPT !.entries = Since(es, Pos(TermAt(es, i), i))] :
                 i \in es.prev.index .. LastIndex(es)} :
               es \in {Truncate(m.entries, n) : n \in 0 .. Len(m.entries.ents)}}

\* What a node's actions give to the links.
Broadcasts(nd) ==
  {[to |-> p, msg |-> m] :
     p \in Peers(nd), m \in UNION {Slices(b) : b \in nd.actions.broadcast_message}}
Sends(nd) ==
  UNION {{[to |-> p, msg |-> m] : m \in Slices(nd.actions.send_messages[p])} :
           p \in DOMAIN nd.actions.send_messages}
Transfers(nd) ==
  {[to |-> p, msg |-> SnapshotTransfer(nd)] : p \in nd.actions.install_snapshots}
Outbound(nd) == Broadcasts(nd) \cup Sends(nd) \cup Transfers(nd)

\* Entries of a node's log that it has committed.
CommittedEntries(nd) ==
  LET es == nd.log.entries
  IN  {<<i, EntryAt(es, i)>> :
         i \in {j \in es.prev.index + 1 .. nd.commit_index : ContainsIndex(es, j)}}

\* History: a node whose state is durable may answer its user.
Observe(nd) ==
  /\ elected' = IF nd.role = "Leader" THEN elected \cup {<<nd.current_term, nd.id>>}
                ELSE elected
  /\ committed' = IF StorageIdle(nd.actions) THEN committed \cup CommittedEntries(nd)
                  ELSE committed

\* The first k actions of the node are executed; rest is what is in flight besides.
ExecuteUpTo(nd, k, armed, rest) ==
  /\ node' = [node EXCEPT ![nd.id] = Executed(nd, k)]
  /\ timer' = [timer EXCEPT ![nd.id] = armed \/ nd.actions.set_election_timeout]
  /\ stored' = [stored EXCEPT ![nd.id] = Persist(@, nd, k)]
  /\ Observe(Executed(nd, k))
  /\ \E sent \in SUBSET (IF k = 4 THEN Outbound(nd) ELSE {}) :
       /\ Cardinality(rest \cup sent) <= MaxInFlight
       /\ net' = rest \cup sent

\* The node's memory and queued actions are lost; it restarts.
RestartFrom(id, disk) ==
  /\ id \in Crashing
  /\ stored' = [stored EXCEPT ![id] = disk]
  /\ node' = [node EXCEPT ![id] = [Restart(id, disk) EXCEPT !.actions = NoActions]]
  /\ timer' = [timer EXCEPT ![id] = TRUE]
  /\ UNCHANGED <<elected, committed>>

\* What follows a call that leaves nd, its timer armed or not.
Return(nd, armed, rest) ==
  \/ ExecuteUpTo(nd, 4, armed, rest)
  \/ /\ nd.actions # NoActions
     /\ \E k \in 0..2 : RestartFrom(nd.id, Persist(stored[nd.id], nd, k))
     /\ net' = rest
  \/ /\ Batching # "none"
     /\ node' = [node EXCEPT ![nd.id] = nd]
     /\ timer' = [timer EXCEPT ![nd.id] = armed]
     /\ net' = rest
     /\ Observe(nd)
     /\ UNCHANGED stored

Execute(id) ==
  /\ node[id].actions # NoActions
  /\ \E k \in 1..4 : ExecuteUpTo(node[id], k, timer[id], net)

Crash(id) ==
  /\ RestartFrom(id, stored[id])
  /\ UNCHANGED net

-----------------------------------------------------------------------------
(* Calls by the user. *)

\* A node belongs to one cluster only (create_cluster's note), so the user
\* creates a cluster when there is none.
NoCluster ==
  \A id \in NodeId : ZERO = LastPosition(stored[id].log.entries)
                        /\ ZERO = LastPosition(node[id].log.entries)

CreateCluster(id, voters) ==
  /\ NoCluster
  /\ CanCreate(node[id], voters)
  /\ node[id].current_term < MaxTerm
  /\ Return(Created(node[id], voters), timer[id], net)

ProposeCommand(id) ==
  LET nd == node[id] IN
  /\ nd.role = "Leader"
  /\ LastIndex(nd.log.entries) < MaxIndex
  /\ Return(Propose(nd, CommandEntry(nd.current_term)), timer[id], net)

ProposeConfig(id, c) ==
  LET nd == node[id] IN
  /\ nd.role = "Leader"
  /\ LastIndex(nd.log.entries) < MaxIndex
  /\ c.voters = Config(nd).voters
  /\ c.non_voters \cap (c.voters \cup c.new_voters) = {}
  /\ ~IsJointConsensus(Config(nd))
  /\ Return(Propose(nd, ConfigEntry(nd.current_term, c)), timer[id], net)

\* The configurations a user derives from the current one.
ConfigChanges(c) ==
  {ToJointConsensus(c, change[1], change[2]) : change \in VoterChanges}
    \cup {[c EXCEPT !.non_voters = s] : s \in NonVoterChanges}

LeaderHeartbeat(id) ==
  /\ node[id].role = "Leader"
  /\ Heartbeats
  /\ Return(Heartbeat(node[id]), timer[id], net)

\* handle_election_timeout when the timer of a voter that does not lead expires.
StartElection(id) ==
  LET nd == node[id] IN
  /\ timer[id]
  /\ nd.role # "Leader"
  /\ IsVoter(Config(nd), id)
  /\ nd.current_term < MaxTerm
  /\ Return(TransitionToCandidate(nd), FALSE, net)

\* handle_election_timeout of a node that is not a voter: nothing sets the timer again.
IgnoreElectionTimeout(id) ==
  /\ timer[id]
  /\ node[id].role # "Leader"
  /\ ~IsVoter(Config(node[id]), id)
  /\ timer' = [timer EXCEPT ![id] = FALSE]
  /\ UNCHANGED <<node, stored, net, elected, committed>>

-----------------------------------------------------------------------------
(* Snapshots. *)

\* Storage and log take the snapshot in one step.
InstallStoredSnapshot(nd, p, config) ==
  /\ node' = [node EXCEPT ![nd.id] = InstallSnapshot(nd, p, config)]
  /\ stored' = [stored EXCEPT ![nd.id].log = InstallInLog(@, p, config)]
  /\ Observe(InstallSnapshot(nd, p, config))
  /\ UNCHANGED <<timer>>

\* The user snapshots what a node has committed.
TakeSnapshot(id) ==
  LET nd == node[id]
      es == nd.log.entries
      i == nd.commit_index
  IN  /\ Snapshots
      /\ i > es.prev.index
      /\ StorageIdle(nd.actions)
      /\ IsValidSnapshot(nd, Pos(TermAt(es, i), i), GetConfig(nd.log, i))
      /\ InstallStoredSnapshot(nd, Pos(TermAt(es, i), i), GetConfig(nd.log, i))
      /\ UNCHANGED net

HandleSnapshotInstalled(id, m, rest) ==
  /\ net' = rest
  /\ \/ /\ IsValidSnapshot(node[id], m.position, m.config)
        /\ InstallStoredSnapshot(node[id], m.position, m.config)
     \/ /\ ~IsValidSnapshot(node[id], m.position, m.config)
        /\ UNCHANGED <<node, timer, stored, elected, committed>>

-----------------------------------------------------------------------------
ReceiveMessage(id, m, rest) ==
  /\ (Batching = "within term" /\ m.term > node[id].current_term)
       => node[id].actions = NoActions
  /\ Return(HandleMessage(node[id], m), timer[id], rest)

\* What is in flight once the packet p has been delivered.
AfterDelivery(p) == {net \ {p}} \cup (IF Duplication THEN {net} ELSE {})

Deliver(p) ==
  \E rest \in AfterDelivery(p) :
    IF p.msg.type = "InstallSnapshot" THEN HandleSnapshotInstalled(p.to, p.msg, rest)
    ELSE ReceiveMessage(p.to, p.msg, rest)

Init ==
  /\ stored = Boot
  /\ node = [id \in NodeId |-> [Restart(id, Boot[id]) EXCEPT !.actions = NoActions]]
  /\ timer = [id \in NodeId |-> TRUE]
  /\ net = {}
  /\ elected = Past
  /\ committed = {}

\* A configuration may name a node that does not run; nothing reaches it.
Next ==
  \/ \E p \in net : p.to \in NodeId /\ Deliver(p)
  \/ \E id \in NodeId :
       \/ \E voters \in Creations : CreateCluster(id, voters)
       \/ ProposeCommand(id)
       \/ \E c \in ConfigChanges(Config(node[id])) : ProposeConfig(id, c)
       \/ LeaderHeartbeat(id)
       \/ StartElection(id)
       \/ IgnoreElectionTimeout(id)
       \/ Execute(id)
       \/ Crash(id)
       \/ TakeSnapshot(id)

Spec == Init /\ [][Next]_vars
=============================================================================
