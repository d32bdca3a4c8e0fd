------------------------------ MODULE Harness ------------------------------
(***************************************************************************)
(* The cluster harness of the property tests (src/pbt/src/lib.rs): how it  *)
(* drives Nodes in ticks, with storage writes that take time.              *)
(*                                                                         *)
(* A step is one tick of one node, the part of TestCluster::run_tick that  *)
(* belongs to it included, or a call of a test between ticks.  The nodes'  *)
(* ticks interleave: what a node sends is delivered in a later tick of its *)
(* receiver.  There is no clock: whatever has a due time (timers, writes,  *)
(* messages, snapshots, stop and start) is due at any time after it is     *)
(* set.  An Option is a set of at most one element, and what is held or on *)
(* the way is a bag: two equal messages are two.                           *)
(***************************************************************************)
EXTENDS Handlers, Functions, Bags

Seqs == INSTANCE SequencesExt

CONSTANTS
  Trials   \* what tests do: names -> records; a behaviour follows one of them
    \* boot            NodeId -> durable state the nodes have just started from
    \* lost_writes     proposals a test makes although the harness loses their write:
    \*                 "in flight" (another write is), "before stop" (the node's last tick)
    \* snapshots       does a test compact logs between ticks?
    \* max_term        no node starts an election after this term
    \* max_index       nothing is proposed after a log has this many entries
    \* max_incoming    messages on the way to one node; a send beyond it is dropped
    \* max_due         messages handled in one tick
    \* restarting      the nodes that stop and start (running_ticks is bounded for them)
    \* max_restarts    times such a node starts again
    \* down            nodes that are stopped all the time

ASSUME TrialsAssumption ==
  \A name \in DOMAIN Trials : LET t == Trials[name] IN
    /\ {t.max_term, t.max_index, t.max_incoming, t.max_due, t.max_restarts} \subseteq Nat
    /\ t.lost_writes \subseteq {"in flight", "before stop"}
    /\ t.snapshots \in BOOLEAN
    /\ t.restarting \cup t.down \subseteq NodeId

VARIABLES
  trial,           \* name of the trial this behaviour follows
  nodes,           \* the TestNode of each id
  incoming,        \* bag of the messages on the way to each node
  snapshot,        \* Option: the snapshot each node is about to receive
  leaders_by_term, \* <<term, id>> of every leader seen
  committed        \* history: <<index, entry>> that a running leader reported committed

hvars == <<trial, nodes, incoming, snapshot, leaders_by_term, committed>>

\* The bounds of this behaviour.
This == Trials[trial]

-----------------------------------------------------------------------------
(* TestNode. *)

\* DurableSnapshot::from_node.
FromNode(nd) ==
  [current_term |-> nd.current_term, voted_for |-> nd.voted_for, log |-> nd.log]

NoOutbound == [broadcasts |-> EmptyBag, sends |-> EmptyBag, transfers |-> {}]

Outbound(nd) ==
  LET q == nd.actions IN
  [broadcasts |-> SetToBag(q.broadcast_message),
   sends |-> SetToBag({<<d, q.send_messages[d]>> : d \in DOMAIN q.send_messages}),
   transfers |-> {<<d, nd.log.entries.prev, nd.log.snapshot_config>> : d \in q.install_snapshots}]

Both(a, b) ==
  [broadcasts |-> a.broadcasts (+) b.broadcasts, sends |-> a.sends (+) b.sends,
   transfers |-> a.transfers \cup b.transfers]

\* A node after TestNode::new, or the tick in which it restarted from `disk'.
NewTestNode(id, disk) ==
  [inner |-> [Restart(id, disk) EXCEPT !.actions = NoActions], running |-> TRUE,
   timeout |-> LastPosition(disk.log.entries) # ZERO, durable |-> disk, pending_durable |-> {},
   pending_outbound |-> NoOutbound, restarts |-> 0]

Writing(tn) == tn.pending_durable # {}

\* The crash of run_tick: what is in flight inside the node is lost.
Stopped(tn) ==
  [tn EXCEPT !.running = FALSE, !.timeout = FALSE, !.pending_durable = {},
             !.pending_outbound = NoOutbound]

Started(tn) ==
  [tn EXCEPT !.running = TRUE, !.inner = Restart(tn.inner.id, tn.durable), !.restarts = @ + 1]

\* The write in flight completes.
Finished(tn) ==
  [tn EXCEPT !.durable = CHOOSE d \in tn.pending_durable : TRUE, !.pending_durable = {}]

\* The election timer expires.
Expired(tn) == [tn EXCEPT !.timeout = FALSE, !.inner = HandleElectionTimeout(@)]

CanExpire(tn) == tn.timeout /\ (tn.inner.role = "Leader" \/ tn.inner.current_term < This.max_term)

\* The timer of a tick's node has run out, or not.
Expirations(tn) == {tn} \cup (IF CanExpire(tn) THEN {Expired(tn)} ELSE {})

\* A snapshot is installed and, if the node takes it, folded into the durable state.
Installed(tn, s) ==
  LET checked == DebugAssert(tn.inner, "snapshot term", s.position.term <= tn.inner.current_term)
      nd == InstallSnapshot(checked, s.position, s.config)
  IN  IF IsValidSnapshot(checked, s.position, s.config)
      THEN [tn EXCEPT !.inner = nd, !.durable = FromNode(nd)]
      ELSE [tn EXCEPT !.inner = checked]

\* The messages of `due' are handled one after the other.
Received(tn, due) ==
  LET after[n \in 0 .. Len(due)] ==
        IF n = 0 THEN tn.inner ELSE HandleMessage(after[n - 1], due[n])
  IN  [tn EXCEPT !.inner = after[Len(due)]]

\* Mutant of Captured: the write in flight does not cover the vote.
CapturedWithoutVote(tn) ==
  IF StorageIdle(tn.inner.actions) THEN [tn EXCEPT !.timeout = @ \/ tn.inner.actions.set_election_timeout]
  ELSE [tn EXCEPT !.timeout = @ \/ tn.inner.actions.set_election_timeout,
                  !.pending_durable = {[FromNode(tn.inner) EXCEPT !.voted_for = tn.durable.voted_for]}]

\* The end of TestNode::run_tick: the timer is set again, and the storage actions
\* start a write of the node's whole state.
Captured(tn) ==
  LET q == tn.inner.actions IN
  [tn EXCEPT !.timeout = @ \/ q.set_election_timeout,
             !.pending_durable = IF StorageIdle(q) THEN @ ELSE {FromNode(tn.inner)}]

-----------------------------------------------------------------------------
(* TestCluster. *)

\* Mutant of Holding: outbound does not wait for the write in flight.
NeverHolding(tn) == FALSE

Holding(tn) == Writing(tn)

\* Entries of a node's log that it reports committed.
Reported(nd) ==
  LET es == nd.log.entries IN
  {<<i, EntryAt(es, i)>> : i \in {j \in es.prev.index + 1 .. nd.commit_index : ContainsIndex(es, j)}}

\* What a test sees: the leaders, and what a running leader reports.
Observe(tn) ==
  LET leads == tn.inner.role = "Leader" IN
  /\ leaders_by_term' = leaders_by_term
       \cup (IF leads THEN {<<tn.inner.current_term, tn.inner.id>>} ELSE {})
  /\ committed' = committed \cup (IF leads /\ tn.running THEN Reported(tn.inner) ELSE {})

\* The messages among `sent', a bag of <<destination, message>>, that are for d.
For(d, sent) == LET mine == {p \in BagToSet(sent) : p[1] = d}
                IN  [m \in {p[2] : p \in mine} |-> sent[<<d, m>>]]

\* send_message: what a node sends is lost, or on the way to its destination.
SendMessages(inboxes, packets) ==
  /\ \E sent \in SubBag(packets) :
       /\ \A p \in BagToSet(sent) : p[1] \in NodeId \ This.down
       /\ incoming' = [d \in NodeId |-> inboxes[d] (+) For(d, sent)]
  /\ \A d \in NodeId : BagCardinality(incoming'[d]) <= This.max_incoming

\* send_snapshot: a node that awaits a snapshot already does not take another one;
\* one that does not takes the first that is not lost, which may be any.
SendSnapshots(awaited, transfers) ==
  LET arriving(d) == {[position |-> t[2], config |-> t[3]] : t \in {u \in transfers : u[1] = d}}
      taken(d) == {awaited[d]} \cup (IF awaited[d] = {} THEN {{s} : s \in arriving(d)} ELSE {})
  IN  snapshot' \in {f \in [NodeId -> UNION {taken(d) : d \in NodeId}] :
                       \A d \in NodeId : f[d] \in taken(d)}

\* A copy of every message for every peer.
Broadcast(peers, messages) ==
  [p \in peers \X BagToSet(messages) |-> messages[p[2]]]

\* The part of TestCluster::run_tick that follows the tick of node id: outbound is
\* held or released, and the node's actions are taken.  `inbox' and `transfer' are
\* what is left of the node's messages and snapshot.
Release(id, tn, inbox, transfer) ==
  LET all == Both(tn.pending_outbound, Outbound(tn.inner))
      out == IF Holding(tn) THEN NoOutbound ELSE all
  IN  /\ nodes' = [nodes EXCEPT ![id] =
           [tn EXCEPT !.inner.actions = NoActions,
                      !.pending_outbound = IF Holding(tn) THEN all ELSE NoOutbound]]
      /\ SendMessages([incoming EXCEPT ![id] = inbox],
                      Broadcast(Peers(tn.inner), out.broadcasts) (+) out.sends)
      /\ SendSnapshots([snapshot EXCEPT ![id] = transfer], out.transfers)
      /\ Observe(tn)

\* The messages that are due, in the order of their times.
DueSequences(inbox) ==
  {due \in UNION {[1 .. n -> BagToSet(inbox)] : n \in 0 .. This.max_due} :
     Seqs!ToBag(due) \sqsubseteq inbox}

\* A node that is stopped starts; a write in flight may be over.
Ready(tn) ==
  IF ~tn.running THEN Started(tn) ELSE IF Writing(tn) THEN Finished(tn) ELSE tn

\* What is on the way to a node; while it is stopped, messages that came due were lost.
Kept(id) == IF nodes[id].running THEN {incoming[id]} ELSE SubBag(incoming[id])

\* A tick of a node that runs, or starts, and whose storage is idle.
RunTick(id) ==
  /\ id \notin This.down
  /\ \E inbox \in Kept(id) :
     \E expired \in Expirations(Ready(nodes[id])) :
     \E arrived \in SUBSET snapshot[id] :
     \E due \in DueSequences(inbox) :
       LET installed == IF arrived = {} THEN expired
                        ELSE Installed(expired, CHOOSE s \in arrived : TRUE)
       IN  Release(id, Captured(Received(installed, due)), inbox (-) Seqs!ToBag(due),
                   snapshot[id] \ arrived)

\* A tick of a node whose write is in flight: it does nothing else.
AwaitWrite(id) ==
  /\ nodes[id].running
  /\ Writing(nodes[id])
  /\ Release(id, nodes[id], incoming[id], snapshot[id])

Stop(id) ==
  /\ nodes[id].running
  /\ id \in This.restarting
  /\ nodes[id].restarts < This.max_restarts
  /\ StorageIdle(nodes[id].inner.actions) \/ "before stop" \in This.lost_writes
  /\ Release(id, Stopped(nodes[id]), incoming[id], {})

-----------------------------------------------------------------------------
(* What tests do between ticks. *)

Between(id, nd) ==
  /\ nodes' = [nodes EXCEPT ![id].inner = nd]
  /\ Observe([nodes[id] EXCEPT !.inner = nd])
  /\ UNCHANGED <<incoming, snapshot>>

\* random_node_mut and create_cluster, before anything else.
CreateCluster(id, voters) ==
  LET nd == nodes[id].inner IN
  /\ \A other \in NodeId : LastPosition(nodes[other].inner.log.entries) = ZERO
  /\ nodes[id].restarts = 0
  /\ CanCreate(nd, voters)
  /\ Between(id, Created(nd, voters))

\* leader_node_mut and propose_command.
ProposeCommand(id) ==
  LET nd == nodes[id].inner IN
  /\ nodes[id].running
  /\ nd.role = "Leader"
  /\ Writing(nodes[id]) => "in flight" \in This.lost_writes
  /\ LastIndex(nd.log.entries) < This.max_index
  /\ Between(id, Propose(nd, CommandEntry(nd.current_term)))

\* A user compacts what a node has committed, and stores the snapshot as it does so.
\* The tests of the harness cannot (`durable' is private); this is the command of
\* tests/cluster_safety.rs, fold_snapshot_install_into_durable included: a write in
\* flight becomes one of what the node is now.
TakeSnapshot(id) ==
  LET nd == nodes[id].inner
      es == nd.log.entries
      i == nd.commit_index
      p == Pos(TermAt(es, i), i)
  IN  /\ This.snapshots
      /\ nodes[id].running
      /\ nd.actions = NoActions
      /\ i > es.prev.index
      /\ IsValidSnapshot(nd, p, GetConfig(nd.log, i))
      /\ LET after == InstallSnapshot(nd, p, GetConfig(nd.log, i))
             disk == FromNode(after)
         IN  nodes' = [nodes EXCEPT ![id].inner = after, ![id].durable = disk,
                                    ![id].pending_durable = IF @ = {} THEN {} ELSE {disk}]
      /\ UNCHANGED <<incoming, snapshot, leaders_by_term, committed>>

HarnessInit ==
  /\ trial \in DOMAIN Trials
  /\ nodes = [id \in NodeId |->
                [NewTestNode(id, This.boot[id]) EXCEPT !.running = id \notin This.down]]
  /\ incoming = [id \in NodeId |-> EmptyBag]
  /\ snapshot = [id \in NodeId |-> {}]
  /\ leaders_by_term = {}
  /\ committed = {}

HarnessNext ==
  /\ \E id \in NodeId :
       \/ RunTick(id)
       \/ AwaitWrite(id)
       \/ Stop(id)
       \/ CreateCluster(id, NodeId)
       \/ ProposeCommand(id)
       \/ TakeSnapshot(id)
  /\ UNCHANGED trial

HarnessSpec == HarnessInit /\ [][HarnessNext]_hvars
=============================================================================
