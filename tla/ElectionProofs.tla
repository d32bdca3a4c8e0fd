--------------------------- MODULE ElectionProofs ---------------------------
(***************************************************************************)
(* For every cluster, workload and bound, a node speaks only in terms that *)
(* its storage holds (SentTermsStored), nothing that storage lacks is      *)
(* unqueued (UnsavedQueued), and a stored term never falls; the            *)
(* debug_asserts that depend on one node hold, and a leader's log and      *)
(* match indices only grow; a voter that does not lead has its timer set   *)
(* as long as nothing is compacted; and no term has two leaders as long as *)
(* the voters do not change.                                               *)
(*                                                                         *)
(* The argument has two layers. VoteProofs shows what a call may do to one *)
(* node. Here every action of Cluster is first reduced to Return(nd) for   *)
(* an nd into which the node has evolved, and Return is shown to preserve  *)
(* Durable. Then a step is brought to one of three forms, whatever the     *)
(* call and whatever the user does with its actions (Moves, Restarts,      *)
(* Rests), and the other invariants are shown for these.                   *)
(***************************************************************************)
EXTENDS ClusterProperties, VoteProofs, FiniteSetTheorems

-----------------------------------------------------------------------------
(* What storage backs.                                                     *)

IsDisk(d) == d \in [current_term : Nat, voted_for : {d.voted_for}, log : {d.log}]

\* Storage d holds the term and the vote of node nd, or their save is queued.
Backs(d, nd) ==
  /\ IsDisk(d)
  /\ d.current_term <= nd.current_term
  /\ nd.actions.save_current_term \/ d.current_term = nd.current_term
  /\ nd.actions.save_voted_for \/ d.voted_for = nd.voted_for

NodesDurable ==
  /\ node = [id \in NodeId |-> node[id]]
  /\ stored = [id \in NodeId |-> stored[id]]
  /\ \A id \in NodeId : /\ IsNode(node[id])
                        /\ node[id].id = id
                        /\ Backs(stored[id], node[id])

PacketsDurable ==
  \A p \in net : p.msg.type # "InstallSnapshot" =>
    /\ IsMessage(p.msg)
    /\ p.msg.from \in NodeId
    /\ p.msg.term <= stored[p.msg.from].current_term

Durable == NodesDurable /\ PacketsDurable

StoredTermsRise ==
  \A id \in NodeId : stored[id].current_term <= stored'[id].current_term

\* What a call of node id leads to: the node has evolved into nd.
Called(id, nd, rest) ==
  /\ Evolves(node[id], nd)
  /\ rest \subseteq net

-----------------------------------------------------------------------------
(* Storage. *)

\* The first k storage actions bring storage closer to the node.
LEMMA PersistBacks ==
  ASSUME NEW d, NEW nd, IsNode(nd), Backs(d, nd), NEW k \in 0 .. 4
  PROVE  LET d2 == Persist(d, nd, k) IN
         /\ IsDisk(d2)
         /\ d.current_term <= d2.current_term
         /\ d2.current_term <= nd.current_term
         /\ k >= 1 => d2.current_term = nd.current_term
         /\ k >= 2 => d2.voted_for = nd.voted_for
         /\ d2.voted_for \in {d.voted_for, nd.voted_for}
<1> DEFINE t == IF k >= 1 /\ nd.actions.save_current_term
                THEN nd.current_term ELSE d.current_term
           v == IF k >= 2 /\ nd.actions.save_voted_for THEN nd.voted_for ELSE d.voted_for
           l == IF k >= 3 /\ nd.actions.append_log_entries # {}
                THEN [d.log EXCEPT !.entries =
                        AppendSuffix(@, CHOOSE e \in nd.actions.append_log_entries : TRUE)]
                ELSE d.log
<1>1. Persist(d, nd, k) = [current_term |-> t, voted_for |-> v, log |-> l]
  BY DEF Persist
<1> HIDE DEF l
<1>2. nd.current_term \in Nat /\ d.current_term \in Nat
  BY DEF IsNode, IsRecord, Backs, IsDisk
<1>3. /\ t \in Nat
      /\ d.current_term <= t
      /\ t <= nd.current_term
      /\ k >= 1 => t = nd.current_term
  BY <1>2 DEF Backs
<1>4. k >= 2 => v = nd.voted_for
  BY DEF Backs
<1>5. v \in {d.voted_for, nd.voted_for}
  OBVIOUS
<1> HIDE DEF t, v
<1> QED
  BY <1>1, <1>3, <1>4, <1>5 DEF IsDisk

\* Once they are executed, what remains of the actions backs the node.
LEMMA ExecutedBacked ==
  ASSUME NEW d, NEW nd, IsNode(nd), Backs(d, nd), NEW k \in 1 .. 4
  PROVE  /\ IsNode(Executed(nd, k))
         /\ Executed(nd, k).id = nd.id
         /\ Backs(Persist(d, nd, k), Executed(nd, k))
<1>1. IsRecord(nd) /\ nd.current_term \in Nat
  BY DEF IsNode, IsRecord
<1>2. /\ IsDisk(Persist(d, nd, k))
      /\ Persist(d, nd, k).current_term = nd.current_term
      /\ k >= 2 => Persist(d, nd, k).voted_for = nd.voted_for
      /\ Persist(d, nd, k).voted_for \in {d.voted_for, nd.voted_for}
  BY PersistBacks
<1>3. CASE k = 4
  <2> DEFINE nd2 == [nd EXCEPT !.actions = NoActions]
  <2>1. Executed(nd, k) = nd2
    BY <1>3 DEF Executed
  <2>2. /\ IsNode(nd2)
        /\ nd2.id = nd.id
        /\ nd2.current_term = nd.current_term
        /\ nd2.voted_for = nd.voted_for
    BY <1>1, IdleNode
  <2> HIDE DEF nd2
  <2> QED
    BY <1>1, <1>2, <1>3, <2>1, <2>2 DEF Backs
<1>4. CASE k # 4
  <2> DEFINE saveVote == nd.actions.save_voted_for /\ k < 2
             saveTerm == nd.actions.save_current_term /\ k < 1
             appends == IF k < 3 THEN nd.actions.append_log_entries ELSE {}
             q == [nd.actions EXCEPT !.set_election_timeout = FALSE,
                                     !.save_current_term = saveTerm,
                                     !.save_voted_for = saveVote,
                                     !.append_log_entries = appends]
             nd2 == [nd EXCEPT !.actions = q]
  <2>1. Executed(nd, k) = nd2
    BY <1>4 DEF Executed
  <2>2. saveVote \in BOOLEAN /\ saveTerm \in BOOLEAN
    OBVIOUS
  <2>3. saveVote \/ Persist(d, nd, k).voted_for = nd.voted_for
    <3>1. CASE k >= 2
      BY <1>2, <3>1
    <3>2. CASE k < 2
      BY <1>2, <3>2 DEF Backs
    <3> QED
      BY <3>1, <3>2
  <2> HIDE DEF saveVote, saveTerm, appends
  <2>4. /\ IsActions(q)
        /\ q.save_voted_for = saveVote
        /\ q.broadcast_message = nd.actions.broadcast_message
        /\ q.send_messages = nd.actions.send_messages
    BY <2>2 DEF IsNode, IsActions
  <2>5. OwnMessages(q, nd.id, nd.current_term)
    BY <2>4 DEF IsNode, OwnMessages
  <2> HIDE DEF q
  <2>6. /\ IsRecord(nd2)
        /\ nd2.actions = q
        /\ nd2.id = nd.id
        /\ nd2.current_term = nd.current_term
        /\ nd2.voted_for = nd.voted_for
    BY <1>1, WithActions
  <2> HIDE DEF nd2
  <2> QED
    BY <1>1, <1>2, <2>1, <2>3, <2>4, <2>5, <2>6 DEF IsNode, Backs
<1> QED
  BY <1>3, <1>4

\* A node that evolves is backed by the storage that backed it.
LEMMA EvolvedBacked ==
  ASSUME NEW d, NEW nd, NEW nd2, IsNode(nd), Backs(d, nd), Evolves(nd, nd2)
  PROVE  Backs(d, nd2)
<1>1. nd.current_term \in Nat /\ nd2.current_term \in Nat /\ d.current_term \in Nat
  BY DEF Evolves, IsNode, IsRecord, Backs, IsDisk
<1> QED
  BY <1>1 DEF Evolves, Backs

-----------------------------------------------------------------------------
(* Messages. *)

LEMMA SlicesSpeak ==
  ASSUME NEW m, NEW id, NEW t, Speaks(m, id, t), NEW s \in Slices(m)
  PROVE  Speaks(s, id, t)
<1>1. CASE s = m
  BY <1>1
<1>2. CASE s # m
  <2>1. /\ m.type = "AppendEntriesCall"
        /\ \E es : s = [m EXCEPT !.entries = es]
    BY <1>2 DEF Slices
  <2>2. PICK es : s = [m EXCEPT !.entries = es]
    BY <2>1
  <2>3. m \in [type : {"AppendEntriesCall"}, from : {m.from}, term : Nat,
               commit_index : {m.commit_index}, entries : {m.entries}]
    BY <2>1 DEF Speaks, IsMessage
  <2>4. /\ s \in [type : {"AppendEntriesCall"}, from : {s.from}, term : Nat,
                   commit_index : {s.commit_index}, entries : {s.entries}]
        /\ s.from = m.from
        /\ s.term = m.term
    BY <2>2, <2>3
  <2> QED
    BY <2>4 DEF Speaks, IsMessage
<1> QED
  BY <1>1, <1>2

LEMMA OutboundSpeaks ==
  ASSUME NEW nd, IsNode(nd), NEW p \in Outbound(nd), p.msg.type # "InstallSnapshot"
  PROVE  Speaks(p.msg, nd.id, nd.current_term)
<1>1. CASE \E b \in nd.actions.broadcast_message : p.msg \in Slices(b)
  BY <1>1, SlicesSpeak DEF IsNode, OwnMessages
<1>2. CASE \E d \in DOMAIN nd.actions.send_messages :
             p.msg \in Slices(nd.actions.send_messages[d])
  BY <1>2, SlicesSpeak DEF IsNode, OwnMessages
<1>3. p.msg # SnapshotTransfer(nd)
  BY DEF SnapshotTransfer
<1>4. \/ \E b \in nd.actions.broadcast_message : p.msg \in Slices(b)
      \/ \E d \in DOMAIN nd.actions.send_messages :
           p.msg \in Slices(nd.actions.send_messages[d])
      \/ p.msg = SnapshotTransfer(nd)
  <2>1. ASSUME p \in Broadcasts(nd)
        PROVE  \E b \in nd.actions.broadcast_message : p.msg \in Slices(b)
    BY <2>1 DEF Broadcasts
  <2>2. ASSUME p \in Sends(nd)
        PROVE  \E d \in DOMAIN nd.actions.send_messages :
                 p.msg \in Slices(nd.actions.send_messages[d])
    BY <2>2 DEF Sends
  <2>3. ASSUME p \in Transfers(nd) PROVE p.msg = SnapshotTransfer(nd)
    BY <2>3 DEF Transfers
  <2> QED
    BY <2>1, <2>2, <2>3 DEF Outbound
<1> QED
  BY <1>1, <1>2, <1>3, <1>4

-----------------------------------------------------------------------------
(* Changes of the cluster's state. *)

\* What is known of a node in a Durable state.
LEMMA NodeFacts ==
  ASSUME NodesDurable, NEW id \in NodeId
  PROVE  /\ IsNode(node[id])
         /\ node[id].id = id
         /\ Backs(stored[id], node[id])
         /\ node[id].current_term \in Nat
         /\ stored[id].current_term \in Nat
  BY DEF NodesDurable, IsNode, IsRecord, Backs, IsDisk

\* A step that leaves memory and storage alone and sends nothing.
LEMMA UnchangedStep ==
  ASSUME Durable, UNCHANGED <<node, stored>>, net' \subseteq net
  PROVE  Durable' /\ StoredTermsRise
<1>1. NodesDurable'
  BY DEF Durable, NodesDurable
<1>2. PacketsDurable'
  BY DEF Durable, PacketsDurable
<1>3. \A id \in NodeId : stored[id].current_term \in Nat
  BY NodeFacts DEF Durable
<1> QED
  BY <1>1, <1>2, <1>3 DEF Durable, StoredTermsRise

\* A step that changes one node and its storage for others of the same kind, and
\* adds only messages of that node's stored term, preserves Durable.
LEMMA OneNodeStep ==
  ASSUME Durable, NEW id \in NodeId, NEW nd, NEW d,
         node' = [node EXCEPT ![id] = nd],
         stored' = [stored EXCEPT ![id] = d],
         IsNode(nd), nd.id = id, Backs(d, nd),
         stored[id].current_term <= d.current_term,
         \A p \in net' : p \in net \/ (p.msg.type # "InstallSnapshot"
                                        => Speaks(p.msg, id, d.current_term))
  PROVE  Durable' /\ StoredTermsRise
<1>1. /\ DOMAIN node = NodeId
      /\ DOMAIN stored = NodeId
  BY DEF Durable, NodesDurable
<1>2. /\ node'[id] = nd
      /\ stored'[id] = d
      /\ \A i \in NodeId \ {id} : node'[i] = node[i] /\ stored'[i] = stored[i]
      /\ DOMAIN node' = NodeId
      /\ DOMAIN stored' = NodeId
  BY <1>1
<1>3. NodesDurable'
  BY <1>2 DEF Durable, NodesDurable
<1>4. \A i \in NodeId : stored[i].current_term \in Nat /\ stored'[i].current_term \in Nat
  BY <1>2 DEF Durable, NodesDurable, Backs, IsDisk
<1>5. StoredTermsRise
  BY <1>2, <1>4 DEF StoredTermsRise
<1>6. PacketsDurable'
  <2> SUFFICES ASSUME NEW p \in net', p.msg.type # "InstallSnapshot"
               PROVE  /\ IsMessage(p.msg)
                      /\ p.msg.from \in NodeId
                      /\ p.msg.term <= stored'[p.msg.from].current_term
    BY DEF PacketsDurable
  <2>1. CASE p \in net
    <3>1. /\ IsMessage(p.msg)
          /\ p.msg.from \in NodeId
          /\ p.msg.term <= stored[p.msg.from].current_term
      BY <2>1 DEF Durable, PacketsDurable
    <3>2. p.msg.term \in Nat
      BY <3>1 DEF IsMessage
    <3> QED
      BY <1>4, <1>5, <3>1, <3>2 DEF StoredTermsRise
  <2>2. CASE Speaks(p.msg, id, d.current_term)
    BY <1>2, <2>2 DEF Speaks
  <2> QED
    BY <2>1, <2>2
<1> QED
  BY <1>3, <1>5, <1>6 DEF Durable

\* Executing actions of a node: memory, storage and links move together.
LEMMA ExecuteUpToStep ==
  ASSUME Durable, NEW id \in NodeId, NEW nd, Evolves(node[id], nd),
         NEW k \in 1 .. 4, NEW armed, NEW rest, rest \subseteq net,
         ExecuteUpTo(nd, k, armed, rest)
  PROVE  Durable' /\ StoredTermsRise
<1>1. /\ IsNode(node[id])
      /\ node[id].id = id
      /\ Backs(stored[id], node[id])
      /\ DOMAIN stored = NodeId
  BY NodeFacts DEF Durable, NodesDurable
<1>2. /\ IsNode(nd)
      /\ nd.id = id
      /\ nd.current_term \in Nat
      /\ Backs(stored[id], nd)
  BY <1>1, EvolvedBacked DEF Evolves, IsNode, IsRecord
<1> DEFINE nd2 == Executed(nd, k)
           d == Persist(stored[id], nd, k)
<1>3. /\ IsNode(nd2)
      /\ nd2.id = id
      /\ Backs(d, nd2)
      /\ stored[id].current_term <= d.current_term
      /\ d.current_term = nd.current_term
  <2>1. k \in 0 .. 4 /\ k >= 1
    OBVIOUS
  <2>2. stored[id].current_term <= d.current_term /\ d.current_term = nd.current_term
    BY <1>2, <2>1, PersistBacks
  <2>3. IsNode(nd2) /\ nd2.id = id /\ Backs(d, nd2)
    BY <1>2, ExecutedBacked
  <2> QED
    BY <2>2, <2>3
<1>4. /\ node' = [node EXCEPT ![id] = nd2]
      /\ stored' = [stored EXCEPT ![id] = d]
      /\ net' \subseteq rest \cup Outbound(nd)
  BY <1>1, <1>2 DEF ExecuteUpTo
<1>5. \A p \in net' : p \in net \/ (p.msg.type # "InstallSnapshot"
                                     => Speaks(p.msg, id, d.current_term))
  BY <1>2, <1>3, <1>4, OutboundSpeaks
<1> HIDE DEF nd2, d
<1> QED
  BY <1>3, <1>4, <1>5, OneNodeStep

LEMMA RestartStep ==
  ASSUME Durable, NEW id \in NodeId, NEW d, IsDisk(d),
         stored[id].current_term <= d.current_term,
         RestartFrom(id, d), net' \subseteq net
  PROVE  Durable' /\ StoredTermsRise
<1> DEFINE nd == [Restart(id, d) EXCEPT !.actions = NoActions]
<1>1. /\ node' = [node EXCEPT ![id] = nd]
      /\ stored' = [stored EXCEPT ![id] = d]
  BY DEF RestartFrom
<1>2. d.current_term \in Nat
  BY DEF IsDisk
<1>3. /\ IsNode(nd)
      /\ nd.id = id
      /\ nd.current_term = d.current_term
      /\ nd.voted_for = d.voted_for
  BY <1>2, RestartedNode
<1> HIDE DEF nd
<1>4. Backs(d, nd)
  BY <1>2, <1>3 DEF Backs
<1> QED
  BY <1>1, <1>2, <1>3, <1>4, OneNodeStep

\* Whatever the user does with the actions of a call.
LEMMA ReturnStep ==
  ASSUME Durable, NEW id \in NodeId, NEW nd, Evolves(node[id], nd),
         NEW armed, NEW rest, rest \subseteq net, Return(nd, armed, rest)
  PROVE  Durable' /\ StoredTermsRise
<1>1. /\ IsNode(node[id])
      /\ node[id].id = id
      /\ Backs(stored[id], node[id])
      /\ DOMAIN stored = NodeId
  BY NodeFacts DEF Durable, NodesDurable
<1>2. /\ IsNode(nd)
      /\ nd.id = id
      /\ Backs(stored[id], nd)
  BY <1>1, EvolvedBacked DEF Evolves
<1>3. CASE ExecuteUpTo(nd, 4, armed, rest)
  BY <1>3, ExecuteUpToStep
<1>4. CASE \E k \in 0 .. 2 : RestartFrom(nd.id, Persist(stored[nd.id], nd, k)) /\ net' = rest
  <2>1. PICK k \in 0 .. 2 : RestartFrom(nd.id, Persist(stored[nd.id], nd, k)) /\ net' = rest
    BY <1>4
  <2>2. /\ IsDisk(Persist(stored[id], nd, k))
        /\ stored[id].current_term <= Persist(stored[id], nd, k).current_term
    BY <1>2, PersistBacks
  <2> QED
    BY <1>2, <2>1, <2>2, RestartStep
<1>5. CASE node' = [node EXCEPT ![nd.id] = nd] /\ net' = rest /\ UNCHANGED stored
  <2>1. stored' = [stored EXCEPT ![id] = stored[id]]
    BY <1>5 DEF Durable, NodesDurable
  <2>2. stored[id].current_term <= stored[id].current_term
    BY <1>1 DEF Backs, IsDisk
  <2>3. node' = [node EXCEPT ![id] = nd]
    BY <1>2, <1>5
  <2>4. \A p \in net' : p \in net
    BY <1>5
  <2> QED
    BY <1>2, <2>1, <2>2, <2>3, <2>4, OneNodeStep
<1> QED
  BY <1>3, <1>4, <1>5 DEF Return

-----------------------------------------------------------------------------
(* Actions. *)

LEMMA MessageStep ==
  ASSUME Durable, NEW id \in NodeId, NEW m, IsMessage(m), NEW rest, rest \subseteq net,
         ReceiveMessage(id, m, rest)
  PROVE  Durable' /\ StoredTermsRise
<1>1. Return(HandleMessage(node[id], m), timer[id], rest)
  BY DEF ReceiveMessage
<1>2. Evolves(node[id], HandleMessage(node[id], m))
  BY NodeFacts, HandleMessageEvolves DEF Durable
<1> QED
  BY <1>1, <1>2, ReturnStep

\* A snapshot changes the log, in memory and in storage.
LEMMA InstallStoredSnapshotStep ==
  ASSUME Durable, NEW id \in NodeId, NEW p, NEW config, net' \subseteq net,
         InstallStoredSnapshot(node[id], p, config)
  PROVE  Durable' /\ StoredTermsRise
<1> DEFINE nd == InstallSnapshot(node[id], p, config)
           l == InstallInLog(stored[id].log, p, config)
           d == [stored[id] EXCEPT !.log = l]
<1>1. /\ IsNode(node[id])
      /\ node[id].id = id
      /\ Backs(stored[id], node[id])
      /\ stored[id].current_term \in Nat
  BY NodeFacts DEF Durable
<1>2. /\ node' = [node EXCEPT ![id] = nd]
      /\ stored' = [stored EXCEPT ![id] = d]
  BY <1>1 DEF InstallStoredSnapshot
<1>3. /\ Evolves(node[id], nd)
      /\ nd.current_term = node[id].current_term
      /\ nd.voted_for = node[id].voted_for
      /\ nd.actions.save_current_term = node[id].actions.save_current_term
      /\ nd.actions.save_voted_for = node[id].actions.save_voted_for
  BY <1>1, InstallSnapshotEvolves
<1> HIDE DEF nd, l
<1>4. /\ IsDisk(d)
      /\ d.current_term = stored[id].current_term
      /\ d.voted_for = stored[id].voted_for
  BY <1>1 DEF Backs, IsDisk
<1> HIDE DEF d
<1>5. IsNode(nd) /\ nd.id = id
  BY <1>1, <1>3 DEF Evolves
<1>6. Backs(stored[id], nd)
  BY <1>1, <1>3, EvolvedBacked
<1>7. Backs(d, nd)
  BY <1>4, <1>6 DEF Backs
<1>8. stored[id].current_term <= d.current_term
  BY <1>1, <1>4
<1>9. \A q \in net' : q \in net
  OBVIOUS
<1> QED
  BY <1>2, <1>5, <1>7, <1>8, <1>9, OneNodeStep

LEMMA DeliverStep ==
  ASSUME Durable, NEW p \in net, p.to \in NodeId, Deliver(p)
  PROVE  Durable' /\ StoredTermsRise
<1>1. PICK rest \in AfterDelivery(p) :
        IF p.msg.type = "InstallSnapshot" THEN HandleSnapshotInstalled(p.to, p.msg, rest)
        ELSE ReceiveMessage(p.to, p.msg, rest)
  BY DEF Deliver
<1>2. rest \subseteq net
  BY DEF AfterDelivery
<1>3. CASE p.msg.type # "InstallSnapshot"
  <2>1. IsMessage(p.msg)
    BY <1>3 DEF Durable, PacketsDurable
  <2> QED
    BY <1>1, <1>2, <1>3, <2>1, MessageStep
<1>4. CASE p.msg.type = "InstallSnapshot"
  <2>1. net' \subseteq net
    BY <1>1, <1>2, <1>4 DEF HandleSnapshotInstalled
  <2>2. CASE InstallStoredSnapshot(node[p.to], p.msg.position, p.msg.config)
    BY <2>1, <2>2, InstallStoredSnapshotStep
  <2>3. CASE UNCHANGED <<node, stored>>
    BY <2>1, <2>3, UnchangedStep
  <2> QED
    BY <1>1, <1>4, <2>2, <2>3 DEF HandleSnapshotInstalled
<1> QED
  BY <1>3, <1>4

LEMMA CreateClusterStep ==
  ASSUME Durable, NEW id \in NodeId, NEW voters, CreateCluster(id, voters)
  PROVE  Durable' /\ StoredTermsRise
<1>1. Return(Created(node[id], voters), timer[id], net)
  BY DEF CreateCluster
<1>2. Evolves(node[id], Created(node[id], voters))
  BY NodeFacts, CreatedEvolves DEF Durable
<1> QED
  BY <1>1, <1>2, ReturnStep

LEMMA NextStep ==
  ASSUME Durable, Next
  PROVE  Durable' /\ StoredTermsRise
<1>1. ASSUME NEW p \in net, p.to \in NodeId, Deliver(p)
      PROVE  Durable' /\ StoredTermsRise
  BY <1>1, DeliverStep
<1>2. ASSUME NEW id \in NodeId, NEW voters \in Creations, CreateCluster(id, voters)
      PROVE  Durable' /\ StoredTermsRise
  BY <1>2, CreateClusterStep
<1>3. ASSUME NEW id \in NodeId, ProposeCommand(id)
      PROVE  Durable' /\ StoredTermsRise
  <2> DEFINE nd == Propose(node[id], CommandEntry(node[id].current_term))
  <2>1. Return(nd, timer[id], net)
    BY <1>3 DEF ProposeCommand
  <2>2. Evolves(node[id], nd)
    BY NodeFacts, ProposeEvolves DEF Durable
  <2> HIDE DEF nd
  <2> QED
    BY <2>1, <2>2, ReturnStep
<1>4. ASSUME NEW id \in NodeId, NEW c, ProposeConfig(id, c)
      PROVE  Durable' /\ StoredTermsRise
  <2> DEFINE nd == Propose(node[id], ConfigEntry(node[id].current_term, c))
  <2>1. Return(nd, timer[id], net)
    BY <1>4 DEF ProposeConfig
  <2>2. Evolves(node[id], nd)
    BY NodeFacts, ProposeEvolves DEF Durable
  <2> HIDE DEF nd
  <2> QED
    BY <2>1, <2>2, ReturnStep
<1>5. ASSUME NEW id \in NodeId, LeaderHeartbeat(id)
      PROVE  Durable' /\ StoredTermsRise
  <2>1. Return(Heartbeat(node[id]), timer[id], net)
    BY <1>5 DEF LeaderHeartbeat
  <2>2. Evolves(node[id], Heartbeat(node[id]))
    BY NodeFacts, HeartbeatEvolves DEF Durable
  <2> QED
    BY <2>1, <2>2, ReturnStep
<1>6. ASSUME NEW id \in NodeId, StartElection(id)
      PROVE  Durable' /\ StoredTermsRise
  <2>1. Return(TransitionToCandidate(node[id]), FALSE, net)
    BY <1>6 DEF StartElection
  <2>2. Evolves(node[id], TransitionToCandidate(node[id]))
    BY NodeFacts, TransitionToCandidateEvolves DEF Durable
  <2> QED
    BY <2>1, <2>2, ReturnStep
<1>7. ASSUME NEW id \in NodeId, IgnoreElectionTimeout(id)
      PROVE  Durable' /\ StoredTermsRise
  BY <1>7, UnchangedStep DEF IgnoreElectionTimeout
<1>8. ASSUME NEW id \in NodeId, Execute(id)
      PROVE  Durable' /\ StoredTermsRise
  <2>1. PICK k \in 1 .. 4 : ExecuteUpTo(node[id], k, timer[id], net)
    BY <1>8 DEF Execute
  <2>2. Evolves(node[id], node[id])
    BY NodeFacts, EvolvesReflexive DEF Durable
  <2> QED
    BY <2>1, <2>2, ExecuteUpToStep
<1>9. ASSUME NEW id \in NodeId, Crash(id)
      PROVE  Durable' /\ StoredTermsRise
  <2>1. /\ IsDisk(stored[id])
        /\ stored[id].current_term <= stored[id].current_term
    BY NodeFacts DEF Durable, Backs
  <2>2. RestartFrom(id, stored[id]) /\ net' \subseteq net
    BY <1>9 DEF Crash
  <2> QED
    BY <2>1, <2>2, RestartStep
<1>10. ASSUME NEW id \in NodeId, TakeSnapshot(id)
       PROVE  Durable' /\ StoredTermsRise
  <2>1. /\ \E p, config : InstallStoredSnapshot(node[id], p, config)
        /\ net' \subseteq net
    BY <1>10 DEF TakeSnapshot
  <2> QED
    BY <2>1, InstallStoredSnapshotStep
<1> QED
  BY <1>1, <1>2, <1>3, <1>4, <1>5, <1>6, <1>7, <1>8, <1>9, <1>10 DEF Next

-----------------------------------------------------------------------------
(* Theorems. *)

LEMMA InitDurable == Init => Durable
<1> SUFFICES ASSUME Init PROVE Durable
  OBVIOUS
<1>1. ASSUME NEW id \in NodeId
      PROVE  IsNode(node[id]) /\ node[id].id = id /\ Backs(stored[id], node[id])
  <2> DEFINE nd == [Restart(id, Boot[id]) EXCEPT !.actions = NoActions]
  <2>1. node[id] = nd /\ stored[id] = Boot[id]
    BY DEF Init
  <2>2. IsDisk(Boot[id]) /\ Boot[id].current_term \in Nat
    BY BootAssumption DEF IsDisk
  <2>3. /\ IsNode(nd)
        /\ nd.id = id
        /\ nd.current_term = Boot[id].current_term
        /\ nd.voted_for = Boot[id].voted_for
    BY <2>2, RestartedNode
  <2> HIDE DEF nd
  <2> QED
    BY <2>1, <2>2, <2>3 DEF Backs
<1>2. stored = [id \in NodeId |-> stored[id]]
  BY BootAssumption DEF Init
<1> QED
  BY <1>1, <1>2 DEF Init, Durable, NodesDurable, PacketsDurable

\* Durable is inductive, and no step of the system lowers a stored term.
LEMMA DurableStep == Durable /\ [Next]_vars => Durable' /\ StoredTermsRise
<1>1. ASSUME Durable, Next PROVE Durable' /\ StoredTermsRise
  BY <1>1, NextStep
<1>2. ASSUME Durable, UNCHANGED vars PROVE Durable' /\ StoredTermsRise
  BY <1>2, UnchangedStep DEF vars
<1> QED
  BY <1>1, <1>2

THEOREM AlwaysDurable == Spec => []Durable
  BY InitDurable, DurableStep, PTL DEF Spec

\* The term of a message in flight is stored by its sender (Actions::next gives
\* the storage actions before the messages, and set_current_term queues its save).
THEOREM SentTermsAreStored == Spec => []SentTermsStored
<1>1. Durable => SentTermsStored
  BY DEF Durable, PacketsDurable, SentTermsStored
<1> QED
  BY <1>1, AlwaysDurable, PTL

\* A term or a vote that storage lacks is queued to be saved.
THEOREM UnsavedIsQueued == Spec => []UnsavedQueued
<1>1. Durable => UnsavedQueued
  BY DEF Durable, NodesDurable, Backs, UnsavedQueued
<1> QED
  BY <1>1, AlwaysDurable, PTL

\* The term that a restart would restore never falls.
THEOREM StoredTermsNeverFall == Spec => [][StoredTermsRise]_vars
  BY AlwaysDurable, DurableStep, PTL DEF Spec

-----------------------------------------------------------------------------
(* Votes and leaders.                                                      *)

\* C holds every configuration that the cluster can come to.
Covering(C) ==
  /\ Closed(C)
  /\ \A id \in NodeId : Boot[id].log \in Logs(C)
  /\ \A voters \in Creations : [EmptyConfig EXCEPT !.voters = voters] \in C
  /\ \A c \in C : \A c2 \in ConfigChanges(c) :
       (c2.voters = c.voters /\ c2.non_voters \cap UniqueVoters(c2) = {}) => c2 \in C

PacketOK(p, C) ==
  IF p.msg.type = "InstallSnapshot" THEN IsSnapshot(p.msg.position, p.msg.config, C)
  ELSE MessageOK(p.msg, C)

Typed(C) ==
  /\ Durable
  /\ \A id \in NodeId : Sound(node[id], C) /\ stored[id].log \in Logs(C)
  /\ \A p \in net : PacketOK(p, C)

-----------------------------------------------------------------------------
(* Storage and links. *)

\* The term and the vote of storage move towards the node's, the term first.
Settles(d, nd, d2) ==
  \/ d2.current_term = d.current_term /\ d2.voted_for = d.voted_for
  \/ d2.current_term = nd.current_term /\ d2.voted_for \in {d.voted_for, nd.voted_for}

LEMMA PersistSettles ==
  ASSUME NEW d, NEW nd, IsNode(nd), Backs(d, nd), NEW k \in 0 .. 4
  PROVE  Settles(d, nd, Persist(d, nd, k))
<1>1. CASE k = 0
  BY <1>1 DEF Persist, Settles
<1>2. CASE k # 0
  <2>1. k >= 1
    BY <1>2
  <2> QED
    BY <2>1, PersistBacks DEF Settles
<1> QED
  BY <1>1, <1>2

LEMMA PersistLog ==
  ASSUME NEW C, NEW d, d.log \in Logs(C), NEW nd, Sound(nd, C), NEW k \in 0 .. 4
  PROVE  Persist(d, nd, k).log \in Logs(C)
<1> DEFINE q == nd.actions
           more == CHOOSE e \in q.append_log_entries : TRUE
           es == AppendSuffix(d.log.entries, more)
<1>1. Persist(d, nd, k).log = IF k >= 3 /\ q.append_log_entries # {}
                              THEN [d.log EXCEPT !.entries = es] ELSE d.log
  BY DEF Persist
<1>2. d.log.entries \in Entries(C)
  BY LogFacts
<1>3. CASE q.append_log_entries # {}
  <2>1. more \in Entries(C)
    BY <1>3 DEF Sound, QueuesOK, Writes
  <2> HIDE DEF more
  <2>2. es \in Entries(C) /\ es.prev = d.log.entries.prev
    <3>1. CASE Contains(d.log.entries, more.prev)
      <4>1. d.log.entries.prev.index = 0 /\ d.log.entries.ents = <<>>
              => more.prev.index = 0
        <5>1. /\ more.prev.index \in d.log.entries.prev.index .. LastIndex(d.log.entries)
              /\ LastIndex(d.log.entries) = d.log.entries.prev.index + Len(d.log.entries.ents)
              /\ d.log.entries.ents = <<>> => Len(d.log.entries.ents) = 0
          BY <1>2, <3>1, EntriesFacts DEF Contains, ContainsIndex
        <5> QED
          BY <5>1
      <4>2. es = AppendUnchecked(d.log.entries, more)
        BY <3>1 DEF AppendSuffix
      <4> QED
        BY <1>2, <2>1, <4>1, <4>2, AppendUncheckedTyped
    <3>2. CASE ~Contains(d.log.entries, more.prev)
      BY <1>2, <3>2 DEF AppendSuffix
    <3> QED
      BY <3>1, <3>2
  <2> HIDE DEF es
  <2> QED
    BY <1>1, <2>2, WithEntries
<1> QED
  BY <1>1, <1>3

\* Executing a part of the actions changes nothing of the node but them.
LEMMA ExecutedSound ==
  ASSUME NEW C, NEW nd, Sound(nd, C), NEW k \in 1 .. 4
  PROVE  LET nd2 == Executed(nd, k) IN
         /\ Sound(nd2, C)
         /\ SameState(nd, nd2)
         /\ Quiet(nd.actions, nd2.actions)
         /\ nd2.broken = nd.broken
<1> DEFINE appends == IF k < 3 THEN nd.actions.append_log_entries ELSE {}
           saveTerm == nd.actions.save_current_term /\ k < 1
           saveVote == nd.actions.save_voted_for /\ k < 2
           q == [nd.actions EXCEPT !.set_election_timeout = FALSE,
                                   !.save_current_term = saveTerm,
                                   !.save_voted_for = saveVote,
                                   !.append_log_entries = appends]
           q2 == IF k = 4 THEN NoActions ELSE q
           nd2 == Executed(nd, k)
           d == [current_term |-> nd.current_term, voted_for |-> nd.voted_for, log |-> nd.log]
<1>1. IsNode(nd) /\ IsRecord(nd) /\ IsActions(nd.actions) /\ QueuesOK(nd.actions, C)
  BY DEF Sound, IsNode
<1>2. nd2 = [nd EXCEPT !.actions = q2]
  BY DEF Executed
<1>3. IsNode(nd2)
  <2>1. Backs(d, nd)
    BY <1>1 DEF Backs, IsDisk, IsRecord
  <2> HIDE DEF d, nd2
  <2>2. IsNode(Executed(nd, k))
    BY <1>1, <2>1, ExecutedBacked
  <2> QED
    BY <2>2 DEF nd2
<1>4. appends \subseteq nd.actions.append_log_entries
  OBVIOUS
<1> HIDE DEF appends, saveTerm, saveVote
<1>5. /\ q.append_log_entries = appends
      /\ q.broadcast_message = nd.actions.broadcast_message
      /\ q.send_messages = nd.actions.send_messages
  BY <1>1 DEF IsActions
<1> HIDE DEF q
<1>6. QueuesOK(q2, C) /\ Quiet(nd.actions, q2)
  <2>1. QueuesOK(NoActions, C) /\ Quiet(nd.actions, NoActions)
    BY DEF QueuesOK, Quiet, NoActions, Said
  <2>2. QueuesOK(q, C) /\ Quiet(nd.actions, q)
    BY <1>1, <1>4, <1>5, QuietSame DEF QueuesOK
  <2> QED
    BY <2>1, <2>2
<1> HIDE DEF q2
<1>7. SameState(nd, nd2) /\ nd2.actions = q2 /\ nd2.broken = nd.broken
  BY <1>1, <1>2 DEF IsRecord, SameState
<1> HIDE DEF nd2
<1>8. Sound(nd2, C)
  BY <1>3, <1>6, <1>7, SoundSame DEF Sound
<1> QED
  BY <1>6, <1>7, <1>8 DEF nd2

LEMMA SlicesTyped ==
  ASSUME NEW C, NEW m, IsMessage(m), MessageOK(m, C), NEW s \in Slices(m)
  PROVE  /\ MessageOK(s, C)
         /\ s.type = m.type
         /\ \A type, t : Tells(s, type, t) => Tells(m, type, t)
<1>1. CASE s = m
  BY <1>1
<1>2. CASE s # m
  <2>1. /\ m.type = "AppendEntriesCall"
        /\ \E n \in 0 .. Len(m.entries.ents) :
             \E i \in Truncate(m.entries, n).prev.index .. LastIndex(Truncate(m.entries, n)) :
               s = [m EXCEPT !.entries = Since(Truncate(m.entries, n),
                                               Pos(TermAt(Truncate(m.entries, n), i), i))]
    BY <1>2 DEF Slices
  <2>2. PICK n \in 0 .. Len(m.entries.ents) :
          \E i \in Truncate(m.entries, n).prev.index .. LastIndex(Truncate(m.entries, n)) :
            s = [m EXCEPT !.entries = Since(Truncate(m.entries, n),
                                            Pos(TermAt(Truncate(m.entries, n), i), i))]
    BY <2>1
  <2> DEFINE es == Truncate(m.entries, n)
  <2>3. PICK i \in es.prev.index .. LastIndex(es) :
          s = [m EXCEPT !.entries = Since(es, Pos(TermAt(es, i), i))]
    BY <2>2
  <2>4. m.entries \in Entries(C) /\ m.commit_index \in Nat
    BY <2>1 DEF MessageOK
  <2>5. es \in Entries(C)
    BY <2>4, TruncateTyped
  <2> HIDE DEF es
  <2> DEFINE p == Pos(TermAt(es, i), i)
             s2 == Since(es, p)
  <2>6. p \in Position /\ ContainsIndex(es, p.index)
    BY <2>5, PositionTyped DEF ContainsIndex, Pos
  <2> HIDE DEF p
  <2>7. s2 \in Entries(C)
    BY <2>5, <2>6, SinceTyped
  <2>8. s = [m EXCEPT !.entries = s2]
    BY <2>3 DEF p
  <2> HIDE DEF s2
  <2>9. m = [type |-> m.type, from |-> m.from, term |-> m.term,
             commit_index |-> m.commit_index, entries |-> m.entries]
    BY <2>1 DEF IsMessage
  <2>10. /\ s.type = "AppendEntriesCall"
         /\ s.term = m.term
         /\ s.entries = s2
         /\ s.commit_index = m.commit_index
    BY <2>1, <2>8, <2>9
  <2> QED
    BY <2>1, <2>4, <2>7, <2>10 DEF MessageOK, Tells
<1> QED
  BY <1>1, <1>2

\* What a node sends is well typed, and binds it to nothing but what it has queued.
LEMMA OutboundTyped ==
  ASSUME NEW C, NEW nd, Sound(nd, C), NEW p \in Outbound(nd)
  PROVE  /\ PacketOK(p, C)
         /\ \A type \in Binding : \A t :
              Tells(p.msg, type, t)
              => p.msg.from = nd.id /\ Said(nd.actions, type, t, p.to)
<1>1. /\ \A b \in nd.actions.broadcast_message : IsMessage(b) /\ MessageOK(b, C)
      /\ \A d \in DOMAIN nd.actions.send_messages :
           /\ IsMessage(nd.actions.send_messages[d])
           /\ MessageOK(nd.actions.send_messages[d], C)
  BY DEF Sound, QueuesOK, IsNode, OwnMessages, Speaks
<1>2. CASE p \in Transfers(nd)
  <2>1. /\ p.msg.type = "InstallSnapshot"
        /\ p.msg.position = nd.log.entries.prev
        /\ p.msg.config = nd.log.snapshot_config
    BY <1>2 DEF Transfers, SnapshotTransfer
  <2>2. nd.log \in Logs(C) /\ nd.log.entries \in Entries(C)
    BY SoundLog
  <2>3. /\ nd.log.entries.prev \in Position
        /\ nd.log.entries.prev.index = 0 => nd.log.snapshot_config = EmptyConfig
        /\ nd.log.entries.prev.index # 0 => nd.log.snapshot_config \in C
    BY <2>2, LogFacts, EntriesFacts
  <2>4. \A type \in Binding : \A t : ~Tells(p.msg, type, t)
    BY <2>1 DEF Tells, Binding
  <2> QED
    BY <2>1, <2>3, <2>4 DEF PacketOK, IsSnapshot
<1>3. ASSUME NEW m, IsMessage(m), MessageOK(m, C), p.msg \in Slices(m)
      PROVE  /\ PacketOK(p, C)
             /\ p.msg.type # "InstallSnapshot"
             /\ \A type, t : Tells(p.msg, type, t) => Tells(m, type, t)
  <2>1. p.msg.type = m.type /\ m.type # "InstallSnapshot"
    BY <1>3, SlicesTyped DEF IsMessage
  <2> QED
    BY <1>3, <2>1, SlicesTyped DEF PacketOK
<1>4. CASE p \in Broadcasts(nd)
  <2>1. PICK b \in nd.actions.broadcast_message : p.msg \in Slices(b)
    BY <1>4 DEF Broadcasts
  <2>2. p.msg.from = nd.id
    BY <1>1, <1>3, <2>1, OutboundSpeaks DEF Sound, Speaks
  <2> QED
    BY <1>1, <1>3, <2>1, <2>2 DEF Said
<1>5. CASE p \in Sends(nd)
  <2>1. PICK d \in DOMAIN nd.actions.send_messages :
          p.to = d /\ p.msg \in Slices(nd.actions.send_messages[d])
    BY <1>5 DEF Sends
  <2>2. p.msg.from = nd.id
    BY <1>1, <1>3, <2>1, OutboundSpeaks DEF Sound, Speaks
  <2> QED
    BY <1>1, <1>3, <2>1, <2>2 DEF Said
<1> QED
  BY <1>2, <1>4, <1>5 DEF Outbound

\* The only snapshot a node sends is its own.
LEMMA OutboundSnapshots ==
  ASSUME NEW C, NEW nd, Sound(nd, C), NEW p \in Outbound(nd), p.msg.type = "InstallSnapshot"
  PROVE  p.msg.position = nd.log.entries.prev /\ p.msg.config = nd.log.snapshot_config
<1>1. /\ \A m \in nd.actions.broadcast_message : IsMessage(m) /\ MessageOK(m, C)
      /\ \A d \in DOMAIN nd.actions.send_messages :
           /\ IsMessage(nd.actions.send_messages[d])
           /\ MessageOK(nd.actions.send_messages[d], C)
  BY DEF Sound, QueuesOK, IsNode, OwnMessages, Speaks
<1>2. ASSUME NEW m, IsMessage(m), MessageOK(m, C), p.msg \in Slices(m) PROVE FALSE
  <2>1. p.msg.type = m.type
    BY <1>2, SlicesTyped
  <2> QED
    BY <1>2, <2>1 DEF IsMessage
<1>3. p \in Transfers(nd)
  <2>1. p \notin Broadcasts(nd)
    BY <1>1, <1>2 DEF Broadcasts
  <2>2. p \notin Sends(nd)
    BY <1>1, <1>2 DEF Sends
  <2> QED
    BY <2>1, <2>2 DEF Outbound
<1> QED
  BY <1>3 DEF Transfers, SnapshotTransfer

-----------------------------------------------------------------------------
(* The forms of a step. *)

\* Who has said a message of the type in flight, in which term.
Spoken(type) == {<<p.msg.term, p.msg.from>> : p \in {q \in net : q.msg.type = type}}

\* Whose votes are on the way to the node.
Votes(id) ==
  {p.msg.from : p \in {q \in net : /\ q.to = id
                                   /\ Tells(q.msg, "RequestVoteReply", node[id].current_term)}}

\* A call takes node id to nd.
Turns(id, nd, C) ==
  \E W \in SUBSET (node[id].granted_votes \cup Votes(id)) :
    Outcome(node[id], nd, C, W, Spoken("AppendEntriesCall"), Spoken("RequestVoteCall"))

OthersRest(id) ==
  \A i \in NodeId \ {id} : node'[i] = node[i] /\ stored'[i] = stored[i]

\* A call takes node id to nd, of whose actions a part is executed.
Moves(id, nd, C) ==
  /\ Turns(id, nd, C)
  /\ OthersRest(id)
  /\ SameState(nd, node'[id])
  /\ Quiet(nd.actions, node'[id].actions)
  /\ node'[id].broken = nd.broken
  /\ Settles(stored[id], nd, stored'[id])
  /\ \A p \in net' :
       \/ p \in net
       \/ /\ p \in Outbound(nd)
          /\ stored'[id].current_term = nd.current_term
          /\ stored'[id].voted_for = nd.voted_for
  /\ elected' = IF nd.role = "Leader" THEN elected \cup {<<nd.current_term, id>>} ELSE elected

\* A call takes node id to nd, which stores a part of its state and restarts.
Restarts(id, nd, C) ==
  /\ Turns(id, nd, C)
  /\ OthersRest(id)
  /\ node'[id].current_term = stored'[id].current_term
  /\ node'[id].voted_for = stored'[id].voted_for
  /\ node'[id].role = "Follower"
  /\ node'[id].actions = NoActions
  /\ node'[id].broken = {}
  /\ Settles(stored[id], nd, stored'[id])
  /\ net' \subseteq net
  /\ elected' = elected

Rests == UNCHANGED <<node, stored, elected, committed>> /\ net' \subseteq net

StepForm(C) ==
  \/ \E id \in NodeId : \E nd : Moves(id, nd, C) \/ Restarts(id, nd, C)
  \/ Rests

\* Nodes, storage and links stay typed, Durable aside.
StaysTyped(C) ==
  /\ \A id \in NodeId : Sound(node'[id], C) /\ stored'[id].log \in Logs(C)
  /\ \A p \in net' : PacketOK(p, C)

LEMMA TypedFacts ==
  ASSUME NEW C, Typed(C), NEW id \in NodeId
  PROVE  /\ Sound(node[id], C)
         /\ IsNode(node[id])
         /\ node[id].id = id
         /\ id # Nil
         /\ stored[id].log \in Logs(C)
         /\ Backs(stored[id], node[id])
         /\ DOMAIN node = NodeId
         /\ DOMAIN stored = NodeId
  BY BoundsAssumption DEF Typed, Durable, NodesDurable

LEMMA TurnsEvolves ==
  ASSUME NEW C, NEW id, NEW nd, Turns(id, nd, C)
  PROVE  Sound(nd, C) /\ Evolves(node[id], nd)
  BY DEF Turns, Outcome

\* A call that leaves the node as it is.
LEMMA TurnsReflexive ==
  ASSUME NEW C, Typed(C), NEW id \in NodeId
  PROVE  Turns(id, node[id], C)
<1> DEFINE W == node[id].granted_votes
<1>1. Sound(node[id], C)
  BY TypedFacts
<1>2. Outcome(node[id], node[id], C, W, Spoken("AppendEntriesCall"), Spoken("RequestVoteCall"))
  BY <1>1, IdlesReflexive, IdlesOutcome
<1> QED
  BY <1>2 DEF Turns

LEMMA OneTyped ==
  ASSUME NEW C, Typed(C), NEW id \in NodeId, NEW nd, NEW d,
         node' = [node EXCEPT ![id] = nd], stored' = [stored EXCEPT ![id] = d],
         Sound(nd, C), d.log \in Logs(C),
         \A p \in net' : p \in net \/ PacketOK(p, C)
  PROVE  /\ StaysTyped(C)
         /\ OthersRest(id)
         /\ node'[id] = nd
         /\ stored'[id] = d
<1>1. /\ node'[id] = nd
      /\ stored'[id] = d
      /\ OthersRest(id)
  BY TypedFacts DEF OthersRest
<1>2. \A i \in NodeId : Sound(node'[i], C) /\ stored'[i].log \in Logs(C)
  BY <1>1, TypedFacts DEF OthersRest
<1>3. \A p \in net' : PacketOK(p, C)
  BY DEF Typed
<1> QED
  BY <1>1, <1>2, <1>3 DEF StaysTyped

\* A step that leaves nodes and storage alone and sends nothing.
LEMMA RestForm ==
  ASSUME NEW C, Typed(C), UNCHANGED <<node, stored, elected, committed>>, net' \subseteq net
  PROVE  StaysTyped(C) /\ Rests
  BY DEF Typed, StaysTyped, Rests

\* What storage holds after some of the actions of a call.
LEMMA PersistForm ==
  ASSUME NEW C, Typed(C), NEW id \in NodeId, NEW nd, Turns(id, nd, C), NEW k \in 0 .. 4
  PROVE  LET d == Persist(stored[id], nd, k) IN
         /\ Settles(stored[id], nd, d)
         /\ d.current_term \in Nat
         /\ d.log \in Logs(C)
         /\ k = 4 => d.current_term = nd.current_term /\ d.voted_for = nd.voted_for
<1>1. /\ Sound(nd, C)
      /\ IsNode(nd)
      /\ Backs(stored[id], nd)
      /\ stored[id].log \in Logs(C)
  BY TypedFacts, TurnsEvolves, EvolvedBacked DEF Evolves
<1>2. Settles(stored[id], nd, Persist(stored[id], nd, k))
  BY <1>1, PersistSettles
<1>3. Persist(stored[id], nd, k).log \in Logs(C)
  BY <1>1, PersistLog
<1>4. Persist(stored[id], nd, k).current_term \in Nat
  BY <1>1, PersistBacks DEF IsDisk
<1>5. k = 4 => /\ Persist(stored[id], nd, k).current_term = nd.current_term
              /\ Persist(stored[id], nd, k).voted_for = nd.voted_for
  BY <1>1, PersistBacks
<1> QED
  BY <1>2, <1>3, <1>4, <1>5

LEMMA ExecuteUpToForm ==
  ASSUME NEW C, Typed(C), NEW id \in NodeId, NEW nd, Turns(id, nd, C), NEW k \in 1 .. 4,
         NEW armed, NEW rest, rest \subseteq net, ExecuteUpTo(nd, k, armed, rest)
  PROVE  StaysTyped(C) /\ Moves(id, nd, C)
<1> DEFINE nd2 == Executed(nd, k)
           d == Persist(stored[id], nd, k)
<1>1. /\ Sound(nd, C)
      /\ IsNode(nd)
      /\ nd.id = id
      /\ Backs(stored[id], nd)
      /\ stored[id].log \in Logs(C)
      /\ DOMAIN stored = NodeId
  BY TypedFacts, TurnsEvolves, EvolvedBacked DEF Evolves
<1>2. /\ Sound(nd2, C)
      /\ SameState(nd, nd2)
      /\ Quiet(nd.actions, nd2.actions)
      /\ nd2.broken = nd.broken
  BY <1>1, ExecutedSound
<1>3. k \in 0 .. 4
  OBVIOUS
<1>4. /\ Settles(stored[id], nd, d)
      /\ d.log \in Logs(C)
      /\ k = 4 => d.current_term = nd.current_term /\ d.voted_for = nd.voted_for
  BY <1>3, PersistForm
<1>6. /\ node' = [node EXCEPT ![id] = nd2]
      /\ stored' = [stored EXCEPT ![id] = d]
      /\ \A p \in net' : p \in net \/ (k = 4 /\ p \in Outbound(nd))
      /\ Observe(nd2)
  BY <1>1 DEF ExecuteUpTo
<1> HIDE DEF nd2, d
<1>7. \A p \in net' : p \in net \/ PacketOK(p, C)
  BY <1>1, <1>6, OutboundTyped
<1>8. StaysTyped(C)
  BY <1>2, <1>4, <1>6, <1>7, OneTyped
<1>10. OthersRest(id)
  BY <1>2, <1>4, <1>6, <1>7, OneTyped
<1>11. node'[id] = nd2 /\ stored'[id] = d
  BY <1>6, TypedFacts
<1>9. elected' = IF nd.role = "Leader" THEN elected \cup {<<nd.current_term, id>>} ELSE elected
  BY <1>1, <1>2, <1>6 DEF Observe, SameState
<1> QED
  BY <1>2, <1>4, <1>6, <1>8, <1>9, <1>10, <1>11 DEF Moves

LEMMA RestartFacts ==
  ASSUME NEW C, NEW id \in NodeId, NEW d, d.current_term \in Nat, d.log \in Logs(C)
  PROVE  /\ Sound(Restarted(id, d), C)
         /\ Restarted(id, d).current_term = d.current_term
         /\ Restarted(id, d).voted_for = d.voted_for
         /\ Restarted(id, d).role = "Follower"
         /\ Restarted(id, d).actions = NoActions
         /\ Restarted(id, d).broken = {}
<1>1. id # Nil
  BY BoundsAssumption
<1>2. Sound(Restarted(id, d), C)
  BY <1>1, RestartSound
<1>3. /\ Restarted(id, d).current_term = d.current_term
      /\ Restarted(id, d).voted_for = d.voted_for
      /\ Restarted(id, d).role = "Follower"
      /\ Restarted(id, d).actions = NoActions
      /\ Restarted(id, d).broken = {}
  BY DEF Restarted, Restart, SetElectionTimeout, NewNode
<1> QED
  BY <1>2, <1>3

LEMMA RestartForm ==
  ASSUME NEW C, Typed(C), NEW id \in NodeId, NEW nd, Turns(id, nd, C),
         NEW d, Settles(stored[id], nd, d), d.current_term \in Nat, d.log \in Logs(C),
         RestartFrom(id, d), net' \subseteq net
  PROVE  StaysTyped(C) /\ Restarts(id, nd, C)
<1>1. /\ node' = [node EXCEPT ![id] = Restarted(id, d)]
      /\ stored' = [stored EXCEPT ![id] = d]
      /\ elected' = elected
  BY DEF RestartFrom, Restarted
<1>2. Sound(Restarted(id, d), C)
  BY RestartFacts
<1>3. \A p \in net' : p \in net \/ PacketOK(p, C)
  OBVIOUS
<1>4. StaysTyped(C)
  BY <1>1, <1>2, <1>3, OneTyped
<1>5. OthersRest(id)
  BY <1>1, <1>2, <1>3, OneTyped
<1>6. node'[id] = Restarted(id, d) /\ stored'[id] = d
  BY <1>1, TypedFacts
<1> QED
  BY <1>1, <1>4, <1>5, <1>6, RestartFacts DEF Restarts

LEMMA ReturnForm ==
  ASSUME NEW C, Typed(C), NEW id \in NodeId, NEW nd, Turns(id, nd, C), NEW armed,
         NEW rest, rest \subseteq net, Return(nd, armed, rest)
  PROVE  StaysTyped(C) /\ (Moves(id, nd, C) \/ Restarts(id, nd, C))
<1>1. Sound(nd, C) /\ nd.id = id
  BY TypedFacts, TurnsEvolves DEF Evolves
<1>2. CASE ExecuteUpTo(nd, 4, armed, rest)
  BY <1>2, ExecuteUpToForm
<1>3. CASE \E k \in 0 .. 2 : RestartFrom(nd.id, Persist(stored[nd.id], nd, k)) /\ net' = rest
  <2>1. PICK k \in 0 .. 2 : RestartFrom(nd.id, Persist(stored[nd.id], nd, k)) /\ net' = rest
    BY <1>3
  <2>2. k \in 0 .. 4
    OBVIOUS
  <2>3. RestartFrom(id, Persist(stored[id], nd, k)) /\ net' \subseteq net
    BY <1>1, <2>1
  <2> QED
    BY <2>2, <2>3, PersistForm, RestartForm
<1>4. CASE node' = [node EXCEPT ![nd.id] = nd] /\ net' = rest /\ Observe(nd) /\ UNCHANGED stored
  <2>1. node' = [node EXCEPT ![id] = nd] /\ stored' = [stored EXCEPT ![id] = stored[id]]
    BY <1>1, <1>4, TypedFacts DEF Typed, Durable, NodesDurable
  <2>2. \A p \in net' : p \in net
    BY <1>4
  <2>3. /\ StaysTyped(C)
        /\ OthersRest(id)
        /\ node'[id] = nd
        /\ stored'[id] = stored[id]
    BY <1>1, <2>1, <2>2, TypedFacts, OneTyped, ZenonT(60)
  <2>4. Quiet(nd.actions, nd.actions) /\ SameState(nd, nd)
    BY QuietReflexive DEF SameState
  <2>5. Settles(stored[id], nd, stored[id])
    BY DEF Settles
  <2> QED
    BY <1>1, <1>4, <2>2, <2>3, <2>4, <2>5 DEF Moves, Observe
<1> QED
  BY <1>2, <1>3, <1>4 DEF Return

\* A snapshot, in memory and in storage.
LEMMA SnapshotForm ==
  ASSUME NEW C, Typed(C), NEW id \in NodeId, NEW p, NEW config, IsSnapshot(p, config, C),
         IsValidSnapshot(node[id], p, config), InstallStoredSnapshot(node[id], p, config),
         net' \subseteq net
  PROVE  StaysTyped(C) /\ \E nd : Moves(id, nd, C)
<1> DEFINE nd == InstallSnapshot(node[id], p, config)
           l == InstallInLog(stored[id].log, p, config)
           d == [stored[id] EXCEPT !.log = l]
<1>1. /\ Sound(node[id], C)
      /\ node[id].id = id
      /\ stored[id].log \in Logs(C)
      /\ stored[id] = [current_term |-> stored[id].current_term,
                       voted_for |-> stored[id].voted_for, log |-> stored[id].log]
  BY TypedFacts DEF Backs, IsDisk
<1>2. /\ node' = [node EXCEPT ![id] = nd]
      /\ stored' = [stored EXCEPT ![id] = d]
      /\ Observe(nd)
  BY <1>1 DEF InstallStoredSnapshot
<1>3. Installed(node[id], nd, C)
  BY <1>1, InstallSnapshotInstalls
<1>4. l \in Logs(C)
  BY <1>1, InstallInLogTyped DEF IsSnapshot
<1> HIDE DEF nd, l
<1>5. /\ d.log \in Logs(C)
      /\ d.current_term = stored[id].current_term
      /\ d.voted_for = stored[id].voted_for
  BY <1>1, <1>4
<1> HIDE DEF d
<1>6. Sound(nd, C) /\ nd.id = id
  BY <1>1, <1>3 DEF Installed, Evolves
<1>7. \A q \in net' : q \in net
  OBVIOUS
<1>8. StaysTyped(C)
  BY <1>2, <1>5, <1>6, <1>7, OneTyped
<1>9. OthersRest(id)
  BY <1>2, <1>5, <1>6, <1>7, OneTyped
<1>10. node'[id] = nd /\ stored'[id] = d
  BY <1>2, TypedFacts
<1>11. Turns(id, nd, C)
  <2> DEFINE W == node[id].granted_votes
  <2>1. Outcome(node[id], nd, C, W, Spoken("AppendEntriesCall"), Spoken("RequestVoteCall"))
    BY <1>1, <1>3, InstalledOutcome
  <2> QED
    BY <2>1 DEF Turns
<1>12. Settles(stored[id], nd, d)
  BY <1>5 DEF Settles
<1>13. Quiet(nd.actions, nd.actions) /\ SameState(nd, nd)
  BY QuietReflexive DEF SameState
<1>14. elected' = IF nd.role = "Leader" THEN elected \cup {<<nd.current_term, id>>} ELSE elected
  BY <1>2, <1>6 DEF Observe
<1> QED
  BY <1>7, <1>8, <1>9, <1>10, <1>11, <1>12, <1>13, <1>14 DEF Moves

-----------------------------------------------------------------------------
(* The calls. *)

\* What a message or a public method makes of node id.
Calls(id, nd) ==
  LET old == node[id] IN
  \/ \E p \in net : /\ p.to = id /\ p.msg.type # "InstallSnapshot"
                    /\ nd = HandleMessage(old, p.msg)
  \/ \E voters \in Creations : CanCreate(old, voters) /\ nd = Created(old, voters)
  \/ old.role = "Leader" /\ nd = Propose(old, CommandEntry(old.current_term))
  \/ \E c \in ConfigChanges(Config(old)) :
       /\ old.role = "Leader"
       /\ c.voters = Config(old).voters
       /\ c.non_voters \cap UniqueVoters(c) = {}
       /\ nd = Propose(old, ConfigEntry(old.current_term, c))
  \/ old.role = "Leader" /\ nd = Heartbeat(old)
  \/ IsVoter(Config(old), id) /\ nd = TransitionToCandidate(old)

\* A snapshot at p that the node has taken or was sent.
Snapped(id, p, config) ==
  \/ /\ node[id].commit_index > node[id].log.entries.prev.index
     /\ p = Pos(TermAt(node[id].log.entries, node[id].commit_index), node[id].commit_index)
     /\ config = GetConfig(node[id].log, node[id].commit_index)
  \/ \E q \in net : /\ q.to = id /\ q.msg.type = "InstallSnapshot"
                    /\ q.msg.position = p /\ q.msg.config = config

\* The cases of Next.
CallStep(id) == \E nd, armed, rest : Calls(id, nd) /\ rest \subseteq net /\ Return(nd, armed, rest)

SnapshotStep(id) ==
  \E p, config : /\ Snapped(id, p, config)
                 /\ IsValidSnapshot(node[id], p, config)
                 /\ InstallStoredSnapshot(node[id], p, config)
                 /\ net' \subseteq net

LEMMA NextCases ==
  ASSUME Next
  PROVE  \/ \E id \in NodeId : CallStep(id) \/ SnapshotStep(id) \/ Execute(id) \/ Crash(id)
         \/ Rests
<1> DEFINE Some == \E id \in NodeId : CallStep(id) \/ SnapshotStep(id) \/ Execute(id) \/ Crash(id)
<1>1. ASSUME NEW p \in net, p.to \in NodeId, Deliver(p) PROVE Some \/ Rests
  <2>1. PICK rest \in AfterDelivery(p) :
          IF p.msg.type = "InstallSnapshot" THEN HandleSnapshotInstalled(p.to, p.msg, rest)
          ELSE ReceiveMessage(p.to, p.msg, rest)
    BY <1>1 DEF Deliver
  <2>2. rest \subseteq net
    BY DEF AfterDelivery
  <2>3. CASE p.msg.type # "InstallSnapshot"
    <3>1. Return(HandleMessage(node[p.to], p.msg), timer[p.to], rest)
      BY <2>1, <2>3 DEF ReceiveMessage
    <3>2. Calls(p.to, HandleMessage(node[p.to], p.msg))
      BY <2>3 DEF Calls
    <3> QED
      BY <1>1, <2>2, <3>1, <3>2 DEF CallStep
  <2>4. CASE p.msg.type = "InstallSnapshot"
    <3>1. HandleSnapshotInstalled(p.to, p.msg, rest) /\ net' \subseteq net
      BY <2>1, <2>2, <2>4 DEF HandleSnapshotInstalled
    <3>2. Snapped(p.to, p.msg.position, p.msg.config)
      BY <2>4 DEF Snapped
    <3>3. CASE /\ IsValidSnapshot(node[p.to], p.msg.position, p.msg.config)
               /\ InstallStoredSnapshot(node[p.to], p.msg.position, p.msg.config)
      BY <1>1, <3>1, <3>2, <3>3 DEF SnapshotStep
    <3>4. CASE UNCHANGED <<node, timer, stored, elected, committed>>
      BY <3>1, <3>4 DEF Rests
    <3> QED
      BY <3>1, <3>3, <3>4 DEF HandleSnapshotInstalled
  <2> QED
    BY <2>3, <2>4
<1>2. ASSUME NEW id \in NodeId, NEW nd, NEW armed, Calls(id, nd), Return(nd, armed, net)
      PROVE  Some
  BY <1>2 DEF CallStep
<1>3. ASSUME NEW id \in NodeId, NEW voters \in Creations, CreateCluster(id, voters) PROVE Some
  <2>1. /\ CanCreate(node[id], voters)
        /\ Return(Created(node[id], voters), timer[id], net)
    BY <1>3 DEF CreateCluster
  <2>2. Calls(id, Created(node[id], voters))
    BY <2>1 DEF Calls
  <2> QED
    BY <1>2, <2>1, <2>2
<1>4. ASSUME NEW id \in NodeId, ProposeCommand(id) PROVE Some
  <2> DEFINE nd == Propose(node[id], CommandEntry(node[id].current_term))
  <2>1. node[id].role = "Leader" /\ Return(nd, timer[id], net)
    BY <1>4 DEF ProposeCommand
  <2>2. Calls(id, nd)
    BY <2>1 DEF Calls
  <2> QED
    BY <1>2, <2>1, <2>2
<1>5. ASSUME NEW id \in NodeId, NEW c \in ConfigChanges(Config(node[id])), ProposeConfig(id, c)
      PROVE  Some
  <2> DEFINE nd == Propose(node[id], ConfigEntry(node[id].current_term, c))
  <2>1. /\ node[id].role = "Leader"
        /\ c.voters = Config(node[id]).voters
        /\ c.non_voters \cap UniqueVoters(c) = {}
        /\ Return(nd, timer[id], net)
    BY <1>5 DEF ProposeConfig, UniqueVoters
  <2>2. Calls(id, nd)
    BY <2>1 DEF Calls
  <2> QED
    BY <1>2, <2>1, <2>2
<1>6. ASSUME NEW id \in NodeId, LeaderHeartbeat(id) PROVE Some
  <2>1. node[id].role = "Leader" /\ Return(Heartbeat(node[id]), timer[id], net)
    BY <1>6 DEF LeaderHeartbeat
  <2>2. Calls(id, Heartbeat(node[id]))
    BY <2>1 DEF Calls
  <2> QED
    BY <1>2, <2>1, <2>2
<1>7. ASSUME NEW id \in NodeId, StartElection(id) PROVE Some
  <2>1. /\ IsVoter(Config(node[id]), id)
        /\ Return(TransitionToCandidate(node[id]), FALSE, net)
    BY <1>7 DEF StartElection
  <2>2. Calls(id, TransitionToCandidate(node[id]))
    BY <2>1 DEF Calls
  <2> QED
    BY <1>2, <2>1, <2>2
<1>8. ASSUME NEW id \in NodeId, IgnoreElectionTimeout(id) PROVE Rests
  BY <1>8 DEF IgnoreElectionTimeout, Rests
<1>9. ASSUME NEW id \in NodeId, TakeSnapshot(id) PROVE Some
  <2> DEFINE i == node[id].commit_index
             p == Pos(TermAt(node[id].log.entries, i), i)
             config == GetConfig(node[id].log, i)
  <2>1. /\ i > node[id].log.entries.prev.index
        /\ IsValidSnapshot(node[id], p, config)
        /\ InstallStoredSnapshot(node[id], p, config)
        /\ net' \subseteq net
    BY <1>9 DEF TakeSnapshot
  <2>2. Snapped(id, p, config)
    BY <2>1 DEF Snapped
  <2> HIDE DEF p, config
  <2> QED
    BY <2>1, <2>2 DEF SnapshotStep
<1>10. ASSUME NEW id \in NodeId, Execute(id) \/ Crash(id) PROVE Some
  BY <1>10
<1> HIDE DEF Some
<1>11. Some \/ Rests
  BY <1>1, <1>3, <1>4, <1>5, <1>6, <1>7, <1>8, <1>9, <1>10 DEF Next
<1> QED
  BY <1>11 DEF Some

\* A message that is not a snapshot.
LEMMA ReceivedTurns ==
  ASSUME NEW C, Typed(C), Covering(C), NEW p \in net, p.to \in NodeId,
         p.msg.type # "InstallSnapshot"
  PROVE  Turns(p.to, HandleMessage(node[p.to], p.msg), C)
<1> DEFINE id == p.to
           m == p.msg
           nd == HandleMessage(node[id], m)
           W == Ballot(node[id], m)
           E == Spoken("AppendEntriesCall")
           H == Spoken("RequestVoteCall")
<1>1. /\ Sound(node[id], C)
      /\ IsMessage(m)
      /\ MessageOK(m, C)
      /\ Closed(C)
  BY TypedFacts DEF Typed, Durable, PacketsDurable, PacketOK, Covering
<1>2. /\ m.type = "AppendEntriesCall" => <<m.term, m.from>> \in E
      /\ m.type = "RequestVoteCall" => <<m.term, m.from>> \in H
  BY DEF Spoken
<1>3. W \subseteq node[id].granted_votes \cup Votes(id)
  <2>1. ASSUME m.type = "RequestVoteReply", CountsVote(node[id], m)
        PROVE  m.from \in Votes(id)
    <3>1. Tells(m, "RequestVoteReply", node[id].current_term)
      BY <2>1 DEF CountsVote, Tells
    <3> QED
      BY <3>1 DEF Votes
  <2> QED
    BY <2>1 DEF Ballot
<1> HIDE DEF W, E, H
<1>4. Outcome(node[id], nd, C, W, E, H)
  BY <1>1, <1>2, HandleMessageOutcome DEF W
<1> QED
  BY <1>3, <1>4 DEF Turns, E, H

LEMMA CallsTurns ==
  ASSUME NEW C, Typed(C), Covering(C), NEW id \in NodeId, NEW nd, Calls(id, nd)
  PROVE  Turns(id, nd, C)
<1> DEFINE W == node[id].granted_votes
<1>1. Sound(node[id], C) /\ node[id].id = id /\ Closed(C)
  BY TypedFacts DEF Covering
<1>2. ASSUME Outcome(node[id], nd, C, W, Spoken("AppendEntriesCall"), Spoken("RequestVoteCall"))
      PROVE  Turns(id, nd, C)
  BY <1>2 DEF Turns
<1>3. ASSUME node[id].role = "Leader", Tenure(node[id], nd, C)
      PROVE  Turns(id, nd, C)
  BY <1>1, <1>2, <1>3, TenureOutcome
<1>4. ASSUME NEW p \in net, p.to = id, p.msg.type # "InstallSnapshot",
             nd = HandleMessage(node[id], p.msg)
      PROVE  Turns(id, nd, C)
  BY <1>4, ReceivedTurns
<1>5. ASSUME NEW voters \in Creations, CanCreate(node[id], voters),
             nd = Created(node[id], voters)
      PROVE  Turns(id, nd, C)
  <2>1. [EmptyConfig EXCEPT !.voters = voters] \in C
    BY DEF Covering
  <2> QED
    BY <1>1, <1>2, <1>5, <2>1, CreatedOutcome
<1>6. ASSUME node[id].role = "Leader", NEW e \in Entry(C), nd = Propose(node[id], e)
      PROVE  Turns(id, nd, C)
  BY <1>1, <1>3, <1>6, ProposeTenure
<1>7. CommandEntry(node[id].current_term) \in Entry(C)
  BY <1>1 DEF CommandEntry, Entry, Sound, IsNode, IsRecord
<1>8. ASSUME NEW c \in ConfigChanges(Config(node[id])), node[id].role = "Leader",
             c.voters = Config(node[id]).voters, c.non_voters \cap UniqueVoters(c) = {}
      PROVE  ConfigEntry(node[id].current_term, c) \in Entry(C)
  <2>1. Config(node[id]) \in C
    BY <1>1, <1>8, ConfigOfLeader
  <2>2. c \in C
    BY <1>8, <2>1 DEF Covering
  <2> QED
    BY <1>1, <2>2 DEF ConfigEntry, Entry, Sound, IsNode, IsRecord
<1>9. ASSUME node[id].role = "Leader", nd = Heartbeat(node[id])
      PROVE  Turns(id, nd, C)
  BY <1>1, <1>3, <1>9, HeartbeatTenure
<1>10. ASSUME IsVoter(Config(node[id]), id), nd = TransitionToCandidate(node[id])
       PROVE  Turns(id, nd, C)
  BY <1>1, <1>2, <1>10, StartElectionOutcome
<1> QED
  BY <1>4, <1>5, <1>6, <1>7, <1>8, <1>9, <1>10 DEF Calls

-----------------------------------------------------------------------------
(* What a call leaves alone: the boundary of the log. *)

\* The log of nd starts where the log b does, with its configuration.
OnBase(b, nd) ==
  /\ "log" \in DOMAIN nd
  /\ {"snapshot_config", "entries"} \subseteq DOMAIN nd.log
  /\ "prev" \in DOMAIN nd.log.entries
  /\ nd.log.snapshot_config = b.snapshot_config
  /\ nd.log.entries.prev = b.entries.prev

LEMMA BaseAssert ==
  ASSUME NEW b, NEW nd, OnBase(b, nd), NEW name, NEW holds
  PROVE  OnBase(b, DebugAssert(nd, name, holds))
  BY DEF DebugAssert, OnBase

LEMMA BaseTimer ==
  ASSUME NEW b, NEW nd, OnBase(b, nd)
  PROVE  OnBase(b, SetElectionTimeout(nd))
  BY DEF SetElectionTimeout, OnBase

LEMMA BaseTerm ==
  ASSUME NEW b, NEW nd, OnBase(b, nd), NEW t
  PROVE  OnBase(b, SetCurrentTerm(nd, t))
  BY DEF SetCurrentTerm, OnBase

LEMMA BaseVote ==
  ASSUME NEW b, NEW nd, OnBase(b, nd), NEW v
  PROVE  OnBase(b, SetVotedFor(nd, v))
  BY DEF SetVotedFor, OnBase

LEMMA BaseRole ==
  ASSUME NEW b, NEW nd, OnBase(b, nd), NEW role
  PROVE  OnBase(b, SetRole(nd, role))
  BY DEF SetRole, OnBase

LEMMA BaseAppend ==
  ASSUME NEW b, NEW nd, OnBase(b, nd), NEW es
  PROVE  OnBase(b, QueueAppend(nd, es))
<1> DEFINE anchored == DebugAssert(nd, "append anchor",
                         \A e \in nd.actions.append_log_entries : Contains(e, es.prev))
<1>1. OnBase(b, anchored)
  BY BaseAssert
<1> HIDE DEF anchored
<1>2. \A s : OnBase(b, [anchored EXCEPT !.actions.append_log_entries = s])
  BY <1>1 DEF OnBase
<1> QED
  BY <1>2 DEF QueueAppend, anchored

LEMMA BaseBroadcast ==
  ASSUME NEW b, NEW nd, OnBase(b, nd), NEW m
  PROVE  OnBase(b, QueueBroadcast(nd, m))
<1> DEFINE checked == DebugAssert(nd, "merge term",
                        \A q \in nd.actions.broadcast_message : q.term <= m.term)
<1>1. OnBase(b, checked)
  BY BaseAssert
<1> HIDE DEF checked
<1>2. \A s : OnBase(b, [checked EXCEPT !.actions.broadcast_message = s])
  BY <1>1 DEF OnBase
<1> QED
  BY <1>2 DEF QueueBroadcast, checked

LEMMA BaseSend ==
  ASSUME NEW b, NEW nd, OnBase(b, nd), NEW to, NEW m
  PROVE  OnBase(b, QueueSend(nd, to, m))
<1> DEFINE queued == nd.actions.send_messages
           old == {queued[d] : d \in DOMAIN queued \cap {to}}
           checked == DebugAssert(nd, "merge term", \A q \in old : q.term <= m.term)
<1>1. OnBase(b, checked)
  BY BaseAssert
<1> HIDE DEF checked
<1>2. \A s : OnBase(b, [checked EXCEPT !.actions.send_messages = s])
  BY <1>1 DEF OnBase
<1> QED
  BY <1>2 DEF QueueSend, checked

LEMMA BaseInstall ==
  ASSUME NEW b, NEW nd, OnBase(b, nd), NEW to
  PROVE  OnBase(b, QueueInstallSnapshot(nd, to))
  BY DEF QueueInstallSnapshot, OnBase

LEMMA BaseRebuild ==
  ASSUME NEW b, NEW nd, OnBase(b, nd)
  PROVE  OnBase(b, RebuildFollowers(nd))
  BY DEF RebuildFollowers, OnBase

LEMMA BaseAdvance ==
  ASSUME NEW b, NEW nd, OnBase(b, nd)
  PROVE  OnBase(b, AdvanceCommitIndex(nd))
  BY DEF AdvanceCommitIndex, OnBase

\* Entries are replaced after the boundary only.
LEMMA BaseEntries ==
  ASSUME NEW b, NEW nd, OnBase(b, nd), NEW es, "prev" \in DOMAIN es,
         es.prev = nd.log.entries.prev
  PROVE  OnBase(b, [nd EXCEPT !.log.entries = es])
  BY DEF OnBase

LEMMA BaseFollower ==
  ASSUME NEW b, NEW nd, OnBase(b, nd), NEW term
  PROVE  OnBase(b, TransitionToFollower(nd, term))
<1> DEFINE armed == IF nd.role = "Follower" THEN nd ELSE SetElectionTimeout(nd)
           demoted == SetRole(SetVotedFor(SetCurrentTerm(armed, term), Nil), "Follower")
<1>1. OnBase(b, armed)
  BY BaseTimer
<1>2. OnBase(b, demoted)
  <2> HIDE DEF armed
  <2> QED
    BY <1>1, BaseTerm, BaseVote, BaseRole
<1> HIDE DEF demoted
<1>3. OnBase(b, DebugAssert(demoted, "term regression", nd.current_term <= term))
  BY <1>2, BaseAssert
<1> QED
  BY <1>3 DEF TransitionToFollower, OnBase, demoted

LEMMA BaseCommit ==
  ASSUME NEW b, NEW nd, OnBase(b, nd), NEW finalized, OnBase(b, finalized)
  PROVE  OnBase(b, CommitThen(nd, finalized))
  BY BaseAdvance, BaseFollower DEF CommitThen

LEMMA BaseProposed ==
  ASSUME NEW b, NEW nd, OnBase(b, nd), NEW entry
  PROVE  OnBase(b, AppendProposedLogEntry(nd, entry))
<1> DEFINE queued == QueueAppend(nd, [prev |-> LastPosition(nd.log.entries), ents |-> <<entry>>])
           pushed == [queued EXCEPT !.log.entries = Push(@, entry)]
<1>1. OnBase(b, queued)
  BY BaseAppend
<1>2. OnBase(b, pushed)
  <2> HIDE DEF queued
  <2> QED
    BY <1>1 DEF OnBase, Push
<1>3. AppendProposedLogEntry(nd, entry)
        = IF entry.kind = "ClusterConfig" THEN RebuildFollowers(pushed) ELSE pushed
  BY DEF AppendProposedLogEntry
<1> HIDE DEF pushed
<1> QED
  BY <1>2, <1>3, BaseRebuild

LEMMA BasePropose ==
  ASSUME NEW b, NEW nd, OnBase(b, nd), NEW entry, NEW committing, OnBase(b, committing)
  PROVE  OnBase(b, ProposeThen(nd, entry, committing))
<1>1. ASSUME NEW a, OnBase(b, a), NEW last PROVE OnBase(b, BroadcastProposal(a, last, entry))
  BY <1>1, BaseAssert, BaseBroadcast, BaseTimer DEF BroadcastProposal
<1> QED
  BY <1>1, BaseProposed DEF ProposeThen

LEMMA BaseFinalize ==
  ASSUME NEW b, NEW nd, OnBase(b, nd)
  PROVE  OnBase(b, FinalizeJointConsensus(nd))
<1>1. ASSUME NEW a, OnBase(b, a) PROVE OnBase(b, NestedCommit(a))
  BY <1>1, BaseAdvance, BaseAssert, BaseCommit DEF NestedCommit
<1> QED
  BY <1>1, BaseAssert, BaseProposed, BasePropose DEF FinalizeJointConsensus

LEMMA BaseUpdate ==
  ASSUME NEW b, NEW nd, OnBase(b, nd)
  PROVE  OnBase(b, UpdateCommitIndexIfPossible(nd))
  BY BaseAdvance, BaseFinalize, BaseCommit DEF UpdateCommitIndexIfPossible

LEMMA BaseProposal ==
  ASSUME NEW b, NEW nd, OnBase(b, nd), NEW entry
  PROVE  OnBase(b, Propose(nd, entry))
  BY BaseProposed, BaseUpdate, BasePropose DEF Propose

LEMMA BaseLeader ==
  ASSUME NEW b, NEW nd, OnBase(b, nd)
  PROVE  OnBase(b, TransitionToLeader(nd))
  BY BaseAssert, BaseRole, BaseRebuild, BaseProposal DEF TransitionToLeader

LEMMA BaseCandidate ==
  ASSUME NEW b, NEW nd, OnBase(b, nd)
  PROVE  OnBase(b, TransitionToCandidate(nd))
<1> DEFINE voted == SetVotedFor(SetCurrentTerm(nd, nd.current_term + 1), nd.id)
           candidate == [SetRole(voted, "Candidate") EXCEPT !.granted_votes = {nd.id}]
<1>1. OnBase(b, voted)
  BY BaseTerm, BaseVote
<1> HIDE DEF voted
<1>2. OnBase(b, candidate)
  <2>1. OnBase(b, SetRole(voted, "Candidate"))
    BY <1>1, BaseRole
  <2> QED
    BY <2>1 DEF OnBase
<1> HIDE DEF candidate
<1>3. OnBase(b, TransitionToLeader(voted))
  BY <1>1, BaseLeader
<1>4. ASSUME NEW m PROVE OnBase(b, SetElectionTimeout(QueueBroadcast(candidate, m)))
  BY <1>2, BaseBroadcast, BaseTimer
<1> QED
  BY <1>3, <1>4 DEF TransitionToCandidate, voted, candidate

LEMMA BaseHeartbeat ==
  ASSUME NEW b, NEW nd, OnBase(b, nd)
  PROVE  OnBase(b, Heartbeat(nd))
  BY BaseBroadcast, BaseTimer DEF Heartbeat

LEMMA BaseVoteCall ==
  ASSUME NEW b, NEW nd, OnBase(b, nd), NEW m
  PROVE  OnBase(b, HandleRequestVoteCall(nd, m))
<1> DEFINE voted == IF nd.voted_for = Nil THEN SetVotedFor(nd, m.from) ELSE nd
           reply == QueueSend(voted, m.from, RequestVoteReply(nd, TRUE))
<1>1. OnBase(b, voted)
  BY BaseVote
<1> HIDE DEF voted
<1>2. OnBase(b, SetElectionTimeout(DebugAssert(reply, "voter is follower", nd.role = "Follower")))
  BY <1>1, BaseSend, BaseAssert, BaseTimer
<1>3. OnBase(b, QueueSend(nd, m.from, RequestVoteReply(nd, FALSE)))
  BY BaseSend
<1> QED
  BY <1>1, <1>2, <1>3 DEF HandleRequestVoteCall, voted

LEMMA BaseVoteReply ==
  ASSUME NEW b, NEW nd, OnBase(b, nd), NEW m
  PROVE  OnBase(b, HandleRequestVoteReply(nd, m))
<1> DEFINE voted == [nd EXCEPT !.granted_votes = @ \cup {m.from}]
<1>1. OnBase(b, voted)
  BY DEF OnBase
<1> HIDE DEF voted
<1>2. OnBase(b, TransitionToLeader(voted))
  BY <1>1, BaseLeader
<1> QED
  BY <1>1, <1>2 DEF HandleRequestVoteReply, voted

LEMMA BaseAppendCall ==
  ASSUME NEW b, NEW nd, OnBase(b, nd), NEW m
  PROVE  OnBase(b, HandleAppendEntriesCall(nd, m))
<1> DEFINE follower == IF nd.role = "Follower" THEN nd ELSE SetRole(nd, "Follower")
           voted == IF follower.voted_for = m.from THEN follower
                    ELSE SetVotedFor(follower, m.from)
           result == AppendFromLeader(voted, m.entries)
           known == Min({m.commit_index, LastIndex(result.nd.log.entries)})
           updated == IF result.agrees
                      THEN [result.nd EXCEPT !.commit_index = Max({@, known})]
                      ELSE result.nd
           queued(es) == QueueAppend(voted, es)
<1>1. OnBase(b, voted)
  BY BaseRole, BaseVote
<1> HIDE DEF voted
<1>2. OnBase(b, result.nd)
  <2> DEFINE local == voted.log.entries
             es == m.entries
             delta == StripCommonPrefix(es, local)
             kept == Truncate(local, es.prev.index - local.prev.index - 1)
             written == [QueueAppend(voted, delta)
                         EXCEPT !.log.entries = AppendUnchecked(local, delta)]
             cut == [voted EXCEPT !.log.entries = kept]
  <2>1. OnBase(b, written)
    <3>1. OnBase(b, QueueAppend(voted, delta))
      BY <1>1, BaseAppend
    <3>2. /\ "prev" \in DOMAIN AppendUnchecked(local, delta)
          /\ AppendUnchecked(local, delta).prev = b.entries.prev
      BY <1>1 DEF OnBase, AppendUnchecked
    <3> HIDE DEF delta, local
    <3> QED
      BY <3>1, <3>2 DEF OnBase
  <2>2. OnBase(b, cut)
    <3>1. "prev" \in DOMAIN kept /\ kept.prev = b.entries.prev
      BY <1>1 DEF OnBase, Truncate
    <3> HIDE DEF kept
    <3> QED
      BY <1>1, <3>1 DEF OnBase
  <2>3. result.nd \in {voted, written, cut}
    BY DEF AppendFromLeader
  <2> HIDE DEF result, written, cut
  <2> QED
    BY <1>1, <2>1, <2>2, <2>3
<1> HIDE DEF result
<1>3. OnBase(b, updated)
  BY <1>2 DEF OnBase
<1> HIDE DEF updated
<1>4. OnBase(b, SetElectionTimeout(QueueSend(updated, m.from, AppendEntriesReply(updated))))
  BY <1>3, BaseSend, BaseTimer
<1>5. /\ OnBase(b, QueueSend(nd, m.from, AppendEntriesReply(nd)))
      /\ OnBase(b, DebugAssert(nd, "two leaders", FALSE))
      /\ OnBase(b, DebugAssert(voted, "LocalSnapshotMismatch", FALSE))
  BY <1>1, BaseSend, BaseAssert
<1> QED
  BY <1>4, <1>5 DEF HandleAppendEntriesCall, voted, result, updated

LEMMA BaseAppendReply ==
  ASSUME NEW b, NEW nd, OnBase(b, nd), NEW m
  PROVE  OnBase(b, HandleAppendEntriesReply(nd, m))
<1> DEFINE p == m.last_position
           matched == [nd EXCEPT !.followers[m.from] = p.index]
           advanced == IF nd.followers[m.from] = p.index THEN nd
                       ELSE IF nd.commit_index < p.index THEN UpdateCommitIndexIfPossible(matched)
                       ELSE matched
           call == AppendEntriesCall(advanced, Since(advanced.log.entries, p))
<1>1. OnBase(b, matched)
  BY DEF OnBase
<1> HIDE DEF matched
<1>2. OnBase(b, advanced)
  BY <1>1, BaseUpdate
<1> HIDE DEF advanced
<1>3. OnBase(b, QueueSend(advanced, m.from, call))
  BY <1>2, BaseSend
<1>4. OnBase(b, RepairFollower(nd, m.from, p))
  BY BaseSend, BaseInstall DEF RepairFollower
<1> QED
  BY <1>2, <1>3, <1>4 DEF HandleAppendEntriesReply, matched, advanced

LEMMA BaseMessage ==
  ASSUME NEW b, NEW nd, OnBase(b, nd), NEW m, IsMessage(m)
  PROVE  OnBase(b, HandleMessage(nd, m))
<1>1. OnBase(b, ObserveTerm(nd, m.term))
  BY BaseFollower DEF ObserveTerm
<1>2. ASSUME NEW a, OnBase(b, a) PROVE OnBase(b, Dispatch(a, m))
  BY <1>2, BaseVoteCall, BaseVoteReply, BaseAppendCall, BaseAppendReply DEF Dispatch, IsMessage
<1> QED
  BY <1>1, <1>2 DEF HandleMessage

LEMMA BaseCreated ==
  ASSUME NEW b, NEW nd, OnBase(b, nd), NEW voters
  PROVE  OnBase(b, Created(nd, voters))
<1> DEFINE config == [EmptyConfig EXCEPT !.voters = voters]
           e == ConfigEntry(0, config)
           queued == QueueAppend(nd, [prev |-> ZERO, ents |-> <<e>>])
           created == [queued EXCEPT !.log.entries = Push(@, e)]
<1>1. OnBase(b, queued)
  BY BaseAppend
<1>2. OnBase(b, created)
  <2> HIDE DEF queued
  <2> QED
    BY <1>1 DEF OnBase, Push
<1> HIDE DEF created
<1>3. OnBase(b, TransitionToCandidate(created))
  BY <1>2, BaseCandidate
<1> QED
  BY <1>2, <1>3 DEF Created, created

\* A call moves neither the boundary of a log nor its configuration.
LEMMA CallsBase ==
  ASSUME NEW C, Typed(C), NEW id \in NodeId, NEW nd, Calls(id, nd)
  PROVE  /\ nd.log.entries.prev = node[id].log.entries.prev
         /\ nd.log.snapshot_config = node[id].log.snapshot_config
<1> DEFINE b == node[id].log
<1>1. OnBase(b, node[id])
  <2>1. IsRecord(node[id]) /\ b \in Logs(C)
    BY TypedFacts DEF Sound, IsNode
  <2>2. b = [snapshot_config |-> b.snapshot_config, entries |-> b.entries] /\ b.entries \in Entries(C)
    BY <2>1, LogFacts
  <2>3. "prev" \in DOMAIN b.entries
    BY <2>2 DEF Entries
  <2>4. "log" \in DOMAIN node[id]
    BY <2>1 DEF IsRecord
  <2>5. {"snapshot_config", "entries"} \subseteq DOMAIN b
    BY <2>2
  <2> QED
    BY <2>3, <2>4, <2>5 DEF OnBase
<1> HIDE DEF b
<1>2. \A p \in net : p.msg.type # "InstallSnapshot" => IsMessage(p.msg)
  BY DEF Typed, Durable, PacketsDurable
<1>3. OnBase(b, nd)
  <2>1. ASSUME NEW p \in net, p.msg.type # "InstallSnapshot", nd = HandleMessage(node[id], p.msg)
        PROVE  OnBase(b, nd)
    BY <1>1, <1>2, <2>1, BaseMessage
  <2> QED
    BY <1>1, <2>1, BaseCreated, BaseProposal, BaseHeartbeat, BaseCandidate DEF Calls
<1> QED
  BY <1>3 DEF OnBase, b

-----------------------------------------------------------------------------
(* Snapshots, and every step. *)

\* A snapshot that the node has taken or was sent is well typed.
LEMMA SnappedTyped ==
  ASSUME NEW C, Typed(C), NEW id \in NodeId, NEW p, NEW config, Snapped(id, p, config),
         IsValidSnapshot(node[id], p, config)
  PROVE  IsSnapshot(p, config, C)
<1> DEFINE es == node[id].log.entries
           i == node[id].commit_index
<1>1. CASE /\ p = Pos(TermAt(es, i), i)
           /\ config = GetConfig(node[id].log, i)
  <2>1. /\ node[id].log \in Logs(C)
        /\ es \in Entries(C)
        /\ i \in Nat
    BY TypedFacts, SoundLog DEF Sound
  <2>2. p.index = i
    BY <1>1 DEF Pos
  <2>3. Contains(es, p)
    <3>1. ~(i < p.index)
      BY <2>1, <2>2
    <3> QED
      BY <3>1 DEF IsValidSnapshot
  <2>4. ContainsIndex(es, i)
    BY <2>2, <2>3 DEF Contains
  <2> QED
    BY <1>1, <2>1, <2>2, <2>4, PositionTyped, GetConfigTyped DEF IsSnapshot
<1>2. CASE \E q \in net : /\ q.to = id /\ q.msg.type = "InstallSnapshot"
                          /\ q.msg.position = p /\ q.msg.config = config
  BY <1>2 DEF Typed, PacketOK
<1> QED
  BY <1>1, <1>2 DEF Snapped

\* Every action is one of the forms.
LEMMA NextForm ==
  ASSUME NEW C, Typed(C), Covering(C), Next
  PROVE  StaysTyped(C) /\ StepForm(C)
<1> DEFINE Good == StaysTyped(C) /\ StepForm(C)
<1>1. ASSUME NEW id \in NodeId, CallStep(id) PROVE Good
  BY <1>1, CallsTurns, ReturnForm DEF CallStep, StepForm
<1>2. ASSUME NEW id \in NodeId, SnapshotStep(id) PROVE Good
  BY <1>2, SnappedTyped, SnapshotForm DEF SnapshotStep, StepForm
<1>3. ASSUME NEW id \in NodeId, Execute(id) PROVE Good
  <2>1. PICK k \in 1 .. 4 : ExecuteUpTo(node[id], k, timer[id], net)
    BY <1>3 DEF Execute
  <2> QED
    BY <2>1, TurnsReflexive, ExecuteUpToForm DEF StepForm
<1>4. ASSUME NEW id \in NodeId, Crash(id) PROVE Good
  <2>1. /\ RestartFrom(id, stored[id])
        /\ net' \subseteq net
        /\ stored[id].log \in Logs(C)
        /\ stored[id].current_term \in Nat
    BY <1>4, TypedFacts DEF Crash, Backs, IsDisk
  <2>2. Settles(stored[id], node[id], stored[id])
    BY DEF Settles
  <2> QED
    BY <2>1, <2>2, TurnsReflexive, RestartForm DEF StepForm
<1>5. ASSUME Rests PROVE Good
  BY <1>5, RestForm DEF Rests, StepForm
<1> HIDE DEF Good
<1>6. Good
  BY <1>1, <1>2, <1>3, <1>4, <1>5, NextCases
<1> QED
  BY <1>6 DEF Good

-----------------------------------------------------------------------------
(* Nodes, storage and links stay typed. *)

LEMMA InitTyped ==
  ASSUME NEW C, Covering(C), Init
  PROVE  Typed(C)
<1>1. Durable
  BY InitDurable
<1>2. ASSUME NEW id \in NodeId
      PROVE  Sound(node[id], C) /\ stored[id].log \in Logs(C)
  <2>1. node[id] = Restarted(id, Boot[id]) /\ stored[id] = Boot[id]
    BY DEF Init, Restarted
  <2>2. Boot[id].current_term \in Nat /\ Boot[id].log \in Logs(C)
    BY BootAssumption DEF Covering
  <2> QED
    BY <2>1, <2>2, RestartFacts
<1>3. net = {}
  BY DEF Init
<1> QED
  BY <1>1, <1>2, <1>3 DEF Typed

LEMMA TypedStep ==
  ASSUME NEW C, Typed(C), Covering(C), [Next]_vars
  PROVE  Typed(C)' /\ StepForm(C)
<1>1. Durable'
  BY DurableStep DEF Typed
<1>2. StaysTyped(C) /\ StepForm(C)
  <2>1. CASE Next
    BY <2>1, NextForm
  <2>2. CASE UNCHANGED vars
    BY <2>2, RestForm DEF vars, StepForm
  <2> QED
    BY <2>1, <2>2
<1> QED
  BY <1>1, <1>2 DEF Typed, StaysTyped

-----------------------------------------------------------------------------
(* Every cluster. *)

ConfigsOf(I) == [voters : SUBSET I, new_voters : SUBSET I, non_voters : SUBSET I]

LEMMA DerivedTyped ==
  ASSUME NEW I, NEW c \in ConfigsOf(I), NEW s \in SUBSET I, NEW removing
  PROVE  /\ ToJointConsensus(c, s, removing) \in ConfigsOf(I)
         /\ [c EXCEPT !.non_voters = s] \in ConfigsOf(I)
<1>1. [c EXCEPT !.non_voters = s] \in ConfigsOf(I)
  BY DEF ConfigsOf
<1>2. ToJointConsensus(c, s, removing) \in ConfigsOf(I)
  <2> DEFINE new == (c.voters \cup s) \ removing
             non == c.non_voters \ new
  <2>1. ToJointConsensus(c, s, removing) = [c EXCEPT !.new_voters = new, !.non_voters = non]
    BY DEF ToJointConsensus
  <2>2. new \in SUBSET I /\ non \in SUBSET I
    BY DEF ConfigsOf
  <2> HIDE DEF new, non
  <2> QED
    BY <2>1, <2>2 DEF ConfigsOf
<1> QED
  BY <1>1, <1>2

LEMMA FinalTyped ==
  ASSUME NEW I, NEW c \in ConfigsOf(I), c.non_voters \cap UniqueVoters(c) = {}
  PROVE  /\ FinalConfig(c) \in ConfigsOf(I)
         /\ FinalConfig(c).non_voters \cap UniqueVoters(FinalConfig(c)) = {}
<1>1. /\ FinalConfig(c) \in ConfigsOf(I)
      /\ UniqueVoters(FinalConfig(c)) \subseteq c.new_voters
      /\ FinalConfig(c).non_voters = c.non_voters
  BY DEF FinalConfig, UniqueVoters, ConfigsOf
<1> QED
  BY <1>1 DEF UniqueVoters

\* What a change derives from a configuration of known ids has known ids.
LEMMA ChangesKnown ==
  ASSUME NEW c \in Configs, NEW c2 \in ConfigChanges(c),
         c2.non_voters \cap UniqueVoters(c2) = {}
  PROVE  c2 \in Configs
<1>1. c \in ConfigsOf(Ids)
  BY DEF Configs, ConfigsOf
<1>2. \A change \in VoterChanges : ToJointConsensus(c, change[1], change[2]) \in ConfigsOf(Ids)
  <2> TAKE change \in VoterChanges
  <2>1. change[1] \in SUBSET Ids
    BY DEF Ids
  <2> QED
    BY <1>1, <2>1, DerivedTyped
<1>3. \A s \in NonVoterChanges : [c EXCEPT !.non_voters = s] \in ConfigsOf(Ids)
  <2> TAKE s \in NonVoterChanges
  <2>1. s \in SUBSET Ids
    BY DEF Ids
  <2> QED
    BY <1>1, <2>1, DerivedTyped
<1>4. c2 \in ConfigsOf(Ids)
  BY <1>2, <1>3 DEF ConfigChanges
<1> QED
  BY <1>4 DEF Configs, ConfigsOf

LEMMA ConfigsCover == Covering(Configs)
<1>1. Closed(Configs)
  <2> SUFFICES ASSUME NEW c \in Configs
               PROVE  /\ c = [voters |-> c.voters, new_voters |-> c.new_voters,
                              non_voters |-> c.non_voters]
                      /\ c.non_voters \cap UniqueVoters(c) = {}
                      /\ FinalConfig(c) \in Configs
    BY DEF Closed
  <2>1. c \in ConfigsOf(Ids) /\ c.non_voters \cap UniqueVoters(c) = {}
    BY DEF Configs, ConfigsOf
  <2>2. FinalConfig(c) \in Configs
    BY <2>1, FinalTyped DEF Configs, ConfigsOf
  <2>3. c = [voters |-> c.voters, new_voters |-> c.new_voters, non_voters |-> c.non_voters]
    BY <2>1 DEF ConfigsOf
  <2> QED
    BY <2>1, <2>2, <2>3
<1>2. \A id \in NodeId : Boot[id].log \in Logs(Configs)
  BY BootAssumption
<1>3. \A voters \in Creations : [EmptyConfig EXCEPT !.voters = voters] \in Configs
  <2> TAKE voters \in Creations
  <2> DEFINE f == [voters |-> voters, new_voters |-> {}, non_voters |-> {}]
  <2>1. [EmptyConfig EXCEPT !.voters = voters] = f
    BY DEF EmptyConfig
  <2>2. voters \subseteq Ids
    BY DEF Ids
  <2>3. f \in Configs
    BY <2>2 DEF Configs
  <2> QED
    BY <2>1, <2>3
<1> QED
  BY <1>1, <1>2, <1>3, ChangesKnown DEF Covering

THEOREM AlwaysTyped == Spec => []Typed(Configs)
<1>1. Init => Typed(Configs)
  BY ConfigsCover, InitTyped
<1>2. Typed(Configs) /\ [Next]_vars => Typed(Configs)'
  BY ConfigsCover, TypedStep
<1> QED
  BY <1>1, <1>2, PTL DEF Spec

\* The part of DebugAssertionsHold that depends on one node and not on its cluster.
LocalAssertionsHold == \A id \in NodeId : node[id].broken \cap NodeAssertions = {}

\* The debug_asserts that depend on one node hold even where a user merges actions as in
\* AppendAnchorContained or changes the voters: a term does not fall, a leader voted for
\* itself, a voter follows, queued messages merge in term order, propose leads to the
\* end, and the configuration that ends a joint consensus is disjoint and not joint itself.
THEOREM LocalAssertionsAlwaysHold == Spec => []LocalAssertionsHold
<1>1. Typed(Configs) => LocalAssertionsHold
  <2>1. ASSUME Typed(Configs), NEW id \in NodeId
        PROVE  node[id].broken \cap NodeAssertions = {}
    BY <2>1, TypedFacts DEF Sound
  <2> QED
    BY <2>1 DEF LocalAssertionsHold
<1> QED
  BY <1>1, AlwaysTyped, PTL

\* While a node leads a term its log only grows and no match index goes back,
\* whatever it receives and however its configuration changes.
THEOREM LeadersAreMonotonic == Spec => LeaderMonotonic
<1> DEFINE Rises ==
      \A id \in NodeId : SameTenure(id) =>
        LET old == node[id].log.entries
            new == node[id]'.log.entries
        IN  /\ \A f \in DOMAIN node[id].followers \cap DOMAIN node[id]'.followers :
                 node[id].followers[f] <= node[id]'.followers[f]
            /\ LastIndex(old) <= LastIndex(new)
            /\ \A i \in new.prev.index + 1 .. LastIndex(old) : EntryAt(old, i) = EntryAt(new, i)
<1>1. ASSUME Typed(Configs), [Next]_vars
      PROVE  Rises
  <2> SUFFICES ASSUME NEW id \in NodeId, SameTenure(id)
               PROVE  /\ FollowersRise(node[id], node'[id])
                      /\ Extends(node[id].log.entries, node'[id].log.entries)
    BY DEF FollowersRise, Extends
  <2>1. Sound(node[id], Configs)
    BY <1>1, TypedFacts
  <2>2. /\ node[id].role = "Leader"
        /\ node'[id].role = "Leader"
        /\ node'[id].current_term = node[id].current_term
    BY DEF SameTenure, Leads
  <2>3. CASE node'[id] = node[id]
    <3>1. Extends(node[id].log.entries, node[id].log.entries)
      BY <2>1, SoundLog, ExtendsReflexive
    <3>2. FollowersRise(node[id], node[id])
      BY <2>1, FollowersSame
    <3> QED
      BY <2>3, <3>1, <3>2
  <2>4. ASSUME NEW nd, Moves(id, nd, Configs)
        PROVE  /\ FollowersRise(node[id], node'[id])
               /\ Extends(node[id].log.entries, node'[id].log.entries)
    <3>1. SameState(nd, node'[id])
      BY <2>4 DEF Moves
    <3>2. PICK W : LeadsRightly(node[id], nd, Configs, W)
      BY <2>4 DEF Moves, Turns, Outcome
    <3>3. /\ nd.role = "Leader"
          /\ nd.current_term = node[id].current_term
      BY <2>2, <3>1 DEF SameState
    <3>5. node[id].current_term \in Nat
      BY <2>1 DEF Sound, IsNode, IsRecord
    <3>6. ~(node[id].current_term < nd.current_term)
      BY <3>3, <3>5
    <3>4. FollowersRise(node[id], nd) /\ Extends(node[id].log.entries, nd.log.entries)
      BY <2>2, <3>2, <3>3, <3>6 DEF LeadsRightly
    <3> QED
      BY <3>1, <3>4 DEF SameState, FollowersRise
  <2>5. StepForm(Configs)
    BY <1>1, ConfigsCover, TypedStep
  <2>6. CASE Rests
    BY <2>3, <2>6 DEF Rests
  <2>7. ASSUME NEW i \in NodeId, NEW nd, Moves(i, nd, Configs) \/ Restarts(i, nd, Configs)
        PROVE  \/ node'[id] = node[id]
               \/ i = id /\ Moves(id, nd, Configs)
    <3>1. CASE i # id
      BY <2>7, <3>1 DEF Moves, Restarts, OthersRest
    <3>2. CASE i = id
      BY <2>2, <2>7, <3>2 DEF Restarts
    <3> QED
      BY <3>1, <3>2
  <2> QED
    BY <2>3, <2>4, <2>5, <2>6, <2>7 DEF StepForm
<1>2. LeaderMonotonic <=> [][Rises]_vars
  BY DEF LeaderMonotonic
<1> HIDE DEF Rises
<1> QED
  BY <1>1, <1>2, AlwaysTyped, PTL DEF Spec

-----------------------------------------------------------------------------
(* Fixed voters.  The configurations of every log have the voters V, alone *)
(* (non-voters come and go).  ElectionSafety is then inductive together    *)
(* with the following:                                                     *)
(*   - a vote that is given, or on its way, binds the voter and, once it   *)
(*     is sent, the voter's storage; it binds the candidate to the vote    *)
(*     for itself, in memory and in storage (VotesPledged).  What it binds *)
(*     them to is the candidate or a leader of the term: a voter follows   *)
(*     the leader it hears, whomever it voted for;                         *)
(*   - so a voter gives two votes in a term only once the term has a       *)
(*     leader (OneVote), and a leader keeps a majority that votes for      *)
(*     nobody else (LeadersChosen).                                        *)

FixedConfigs(V) == {c \in Configs : c.voters = V /\ c.new_voters = {}}

\* The node, or the storage, d is past term t or has voted in it for one of S.
Loyal(d, t, S) == d.current_term > t \/ (d.current_term = t /\ d.voted_for \in S)

\* A majority of V elected the leader d of term t before the nodes started.
PastElected(V, t, d) ==
  \E Q \in SUBSET (V \cap NodeId) :
    /\ Cardinality(Q) >= Majority(V)
    /\ \A w \in Q : Loyal(Boot[w], t, {d})

VotersFixed(V) ==
  /\ IsFiniteSet(V)
  /\ VoterChanges = {}
  /\ Creations \subseteq {V}
  /\ \A id \in NodeId : Boot[id].log \in Logs(FixedConfigs(V))
  /\ \A l \in Past : l[2] \in V /\ (V = {l[2]} \/ PastElected(V, l[1], l[2]))

LEMMA FixedCover ==
  ASSUME NEW V, VotersFixed(V)
  PROVE  Covering(FixedConfigs(V))
<1> DEFINE C == FixedConfigs(V)
<1>1. Closed(C)
  BY ConfigsCover DEF Covering, Closed, FixedConfigs, IsJointConsensus
<1>2. \A id \in NodeId : Boot[id].log \in Logs(C)
  BY DEF VotersFixed
<1>3. \A voters \in Creations : [EmptyConfig EXCEPT !.voters = voters] \in C
  <2> TAKE voters \in Creations
  <2> DEFINE c == [EmptyConfig EXCEPT !.voters = voters]
  <2>1. c \in Configs
    BY ConfigsCover DEF Covering
  <2>2. c.voters = V /\ c.new_voters = {}
    BY DEF VotersFixed, EmptyConfig
  <2> HIDE DEF c
  <2> QED
    BY <2>1, <2>2 DEF FixedConfigs, c
<1>4. ASSUME NEW c \in C, NEW c2 \in ConfigChanges(c), c2.non_voters \cap UniqueVoters(c2) = {}
      PROVE  c2 \in C
  <2>1. c \in Configs /\ c.voters = V /\ c.new_voters = {}
    BY DEF FixedConfigs
  <2>2. c2 \in Configs
    BY <1>4, <2>1, ChangesKnown
  <2>3. PICK s \in NonVoterChanges : c2 = [c EXCEPT !.non_voters = s]
    BY DEF VotersFixed, ConfigChanges
  <2>4. c \in ConfigsOf(Ids)
    BY <2>1 DEF Configs, ConfigsOf
  <2>5. c2.voters = V /\ c2.new_voters = {}
    BY <2>1, <2>3, <2>4 DEF ConfigsOf
  <2> QED
    BY <2>2, <2>5 DEF FixedConfigs
<1> QED
  BY <1>1, <1>2, <1>3, <1>4 DEF Covering

\* What the voters' being fixed says of the sets of VoteProofs.
LEMMA FixedFacts ==
  ASSUME NEW V, VotersFixed(V), NEW id, NEW W
  PROVE  LET C == FixedConfigs(V) IN
         /\ id \in V => ~Removable(id, C)
         /\ Solo(id, C) => V = {id}
         /\ \A c \in C : IsVoter(c, id) <=> id \in V
         /\ \A c \in C : Wins(W, c) => Cardinality(W \cap V) >= Majority(V)
  BY DEF FixedConfigs, Removable, Solo, IsVoter, IsJointConsensus, UniqueVoters, Wins, HasMajority

\* The leaders that a term has had.
Leaders(t) == {l[2] : l \in {e \in elected : e[1] = t}}

Safe(x, t, S) == Loyal(node[x], t, S) /\ Loyal(stored[x], t, S)

\* A vote for c binds to this in term t.
Pledge(t, c) == {c} \cup Leaders(t)

\* The vote of w for candidate c is counted or in flight; it is queued.
Granted(w, t, c) ==
  \/ \E p \in net : p.to = c /\ p.msg.from = w /\ Tells(p.msg, "RequestVoteReply", t)
  \/ node[c].role = "Candidate" /\ node[c].current_term = t /\ w \in node[c].granted_votes
Pending(w, t, c) == w \in NodeId /\ Said(node[w].actions, "RequestVoteReply", t, c)

\* w has voted in term t for the candidate c, another node.
Voted(w, t, c) == w # c /\ (Granted(w, t, c) \/ Pending(w, t, c))

LeadersElected ==
  /\ \A id \in NodeId :
       /\ node[id].role = "Leader" => <<node[id].current_term, id>> \in elected
       /\ \A t, to : Said(node[id].actions, "AppendEntriesCall", t, to) => <<t, id>> \in elected
  /\ Spoken("AppendEntriesCall") \subseteq elected

CandidatesPledged(V) ==
  /\ \A id \in NodeId : \A t, to :
       Said(node[id].actions, "RequestVoteCall", t, to)
       => t \in Nat /\ id \in V /\ Loyal(node[id], t, Pledge(t, id))
  /\ \A t, c : <<t, c>> \in Spoken("RequestVoteCall")
       => t \in Nat /\ c \in V \cap NodeId /\ Safe(c, t, Pledge(t, c))

VotesPledged(V) ==
  \A w, t : \A c \in NodeId : Voted(w, t, c) =>
    /\ t \in Nat /\ w \in NodeId /\ c \in V
    /\ Safe(c, t, Pledge(t, c))
    /\ w \in V => /\ Loyal(node[w], t, Pledge(t, c))
                  /\ Granted(w, t, c) => Loyal(stored[w], t, Pledge(t, c))

\* For whom w has voted in term t.
Favoured(w, t) == {c \in NodeId : Voted(w, t, c)}

OneVote(V) ==
  \A w \in V : \A t : \A c, d \in Favoured(w, t) : c # d => Leaders(t) # {}

\* Everyone in Q has voted in term t for d only.
Elects(Q, t, d) ==
  \A w \in Q : w \in NodeId /\ Safe(w, t, {d}) /\ Favoured(w, t) \subseteq {d}

LeadersChosen(V) ==
  \A t, d : <<t, d>> \in elected =>
    \/ V = {d}
    \/ \E Q \in SUBSET V : Cardinality(Q) >= Majority(V) /\ Elects(Q, t, d)

FixedInv(V) ==
  /\ elected \subseteq Nat \X (V \cap NodeId)
  /\ LeadersElected
  /\ CandidatesPledged(V)
  /\ VotesPledged(V)
  /\ OneVote(V)
  /\ LeadersChosen(V)
  /\ ElectionSafety

LEMMA LeadersFacts ==
  ASSUME NEW V, elected \subseteq Nat \X V, NEW t
  PROVE  \A x : x \in Leaders(t) <=> <<t, x>> \in elected
  BY DEF Leaders

LEMMA LoyalMore ==
  ASSUME NEW d, NEW t, NEW S, NEW S2, S \subseteq S2, Loyal(d, t, S)
  PROVE  Loyal(d, t, S2)
  BY DEF Loyal

\* A node that keeps its vote, or follows one of S, stays loyal.
LEMMA LoyalKept ==
  ASSUME NEW a, NEW b, NEW t \in Nat, NEW S, Loyal(a, t, S), Nil \notin S,
         a.current_term \in Nat, b.current_term \in Nat, a.current_term <= b.current_term,
         b.current_term = a.current_term
           => a.voted_for \in {Nil, b.voted_for} \/ (b.current_term = t => b.voted_for \in S)
  PROVE  Loyal(b, t, S)
  BY DEF Loyal

\* Storage that moves towards a loyal node stays loyal.
LEMMA LoyalSettles ==
  ASSUME NEW d, NEW nd, NEW d2, NEW t \in Nat, NEW S, Loyal(d, t, S), Loyal(nd, t, S),
         Settles(d, nd, d2), d.current_term \in Nat, nd.current_term \in Nat,
         d.current_term <= nd.current_term
  PROVE  Loyal(d2, t, S)
<1>1. CASE d2.current_term = d.current_term /\ d2.voted_for = d.voted_for
  BY <1>1 DEF Loyal
<1>2. CASE d2.current_term = nd.current_term /\ d2.voted_for \in {d.voted_for, nd.voted_for}
  BY <1>2 DEF Loyal
<1> QED
  BY <1>1, <1>2 DEF Settles

\* What a call may do to node id when the voters are fixed.
Turned(V, id, nd) ==
  LET a == node[id] IN
  /\ a.current_term \in Nat /\ nd.current_term \in Nat
  /\ a.current_term <= nd.current_term
  /\ nd.id = id
  /\ (id \in V /\ nd.current_term = a.current_term)
       => a.voted_for \in {Nil, nd.voted_for} \/ nd.voted_for \in Leaders(nd.current_term)
  /\ nd.role # "Follower" => id \in V /\ nd.voted_for = id
  /\ nd.role = "Leader" =>
       \/ <<nd.current_term, id>> \in elected
       \/ V = {id}
       \/ /\ nd.current_term = a.current_term
          /\ a.role = "Candidate"
          /\ \E Q \in SUBSET V : /\ Cardinality(Q) >= Majority(V)
                                 /\ \A w \in Q \ {id} : Granted(w, nd.current_term, id)
  /\ nd.role = "Candidate" =>
       \A w \in nd.granted_votes \ {id} : Granted(w, nd.current_term, id)
  /\ \A t, to : Said(nd.actions, "RequestVoteReply", t, to) =>
       \/ Said(a.actions, "RequestVoteReply", t, to)
       \/ t = nd.current_term /\ to = nd.voted_for /\ <<t, to>> \in Spoken("RequestVoteCall")
  /\ \A t, to : Said(nd.actions, "RequestVoteCall", t, to) =>
       \/ Said(a.actions, "RequestVoteCall", t, to)
       \/ t = nd.current_term /\ nd.role = "Candidate"
  /\ \A t, to : Said(nd.actions, "AppendEntriesCall", t, to) =>
       \/ <<t, id>> \in elected
       \/ t = nd.current_term /\ nd.role = "Leader"

LEMMA TurnsTurned ==
  ASSUME NEW V, VotersFixed(V), Typed(FixedConfigs(V)), FixedInv(V), NEW id \in NodeId,
         NEW nd, Turns(id, nd, FixedConfigs(V))
  PROVE  Turned(V, id, nd)
<1> DEFINE C == FixedConfigs(V)
           a == node[id]
           E == Spoken("AppendEntriesCall")
           H == Spoken("RequestVoteCall")
<1>1. PICK W \in SUBSET (a.granted_votes \cup Votes(id)) : Outcome(a, nd, C, W, E, H)
  BY DEF Turns
<1>2. /\ Sound(a, C) /\ Sound(nd, C)
      /\ a.id = id
      /\ nd.id = id
      /\ a.current_term <= nd.current_term
  BY <1>1, TypedFacts DEF Outcome, Evolves
<1>3. a.current_term \in Nat /\ nd.current_term \in Nat
  BY <1>2 DEF Sound, IsNode, IsRecord
<1>4. /\ id \in V => ~Removable(id, C)
      /\ Solo(id, C) => V = {id}
      /\ \A c \in C : IsVoter(c, id) <=> id \in V
      /\ \A c \in C : Wins(W, c) => Cardinality(W \cap V) >= Majority(V)
  BY FixedFacts
<1>5. E \subseteq elected /\ \A t, x : x \in Leaders(t) <=> <<t, x>> \in elected
  BY LeadersFacts DEF FixedInv, LeadersElected
<1> HIDE DEF C, E, H
<1>6. (id \in V /\ nd.current_term = a.current_term)
        => a.voted_for \in {Nil, nd.voted_for} \/ nd.voted_for \in Leaders(nd.current_term)
  BY <1>1, <1>2, <1>4, <1>5 DEF Outcome, VoteKept
<1>7. nd.role # "Follower" => id \in V /\ nd.voted_for = id
  BY <1>2, <1>4 DEF Sound, Stands
<1>8. ASSUME a.role = "Candidate", nd.current_term = a.current_term, NEW w \in W
      PROVE  Granted(w, nd.current_term, id)
  <2>1. CASE w \in a.granted_votes
    BY <1>8, <2>1 DEF Granted
  <2>2. CASE w \in Votes(id)
    <3>1. PICK p \in net : /\ p.to = id
                           /\ Tells(p.msg, "RequestVoteReply", a.current_term)
                           /\ w = p.msg.from
      BY <2>2 DEF Votes
    <3> QED
      BY <1>8, <3>1 DEF Granted
  <2> QED
    BY <1>8, <2>1, <2>2
<1>9. nd.role = "Leader" =>
       \/ <<nd.current_term, id>> \in elected
       \/ V = {id}
       \/ /\ nd.current_term = a.current_term
          /\ a.role = "Candidate"
          /\ \E Q \in SUBSET V : /\ Cardinality(Q) >= Majority(V)
                                 /\ \A w \in Q \ {id} : Granted(w, nd.current_term, id)
  <2> SUFFICES ASSUME nd.role = "Leader"
               PROVE  \/ <<nd.current_term, id>> \in elected
                      \/ V = {id}
                      \/ /\ nd.current_term = a.current_term
                         /\ a.role = "Candidate"
                         /\ \E Q \in SUBSET V :
                              /\ Cardinality(Q) >= Majority(V)
                              /\ \A w \in Q \ {id} : Granted(w, nd.current_term, id)
    OBVIOUS
  <2>1. CASE a.role = "Leader" /\ nd.current_term = a.current_term
    BY <2>1 DEF FixedInv, LeadersElected
  <2>2. CASE Solo(id, C)
    BY <1>4, <2>2
  <2>3. CASE /\ a.role = "Candidate"
             /\ nd.current_term = a.current_term
             /\ \E c \in C : Wins(W, c)
    <3>1. Cardinality(W \cap V) >= Majority(V)
      BY <1>4, <2>3
    <3>2. W \cap V \in SUBSET V /\ \A w \in (W \cap V) \ {id} : Granted(w, nd.current_term, id)
      BY <1>8, <2>3
    <3> QED
      BY <2>3, <3>1, <3>2
  <2> QED
    BY <1>1, <1>2, <2>1, <2>2, <2>3 DEF Outcome, LeadsRightly
<1>10. nd.role = "Candidate" => \A w \in nd.granted_votes \ {id} : Granted(w, nd.current_term, id)
  BY <1>1, <1>2, <1>8 DEF Outcome, CountsRightly
<1>11. \A type \in Binding : \A t, to :
         Said(nd.actions, type, t, to) =>
           \/ Said(a.actions, type, t, to)
           \/ type = "RequestVoteReply" /\ t = nd.current_term /\ to = nd.voted_for
                /\ <<t, to>> \in H
           \/ type = "RequestVoteCall" /\ t = nd.current_term /\ nd.role = "Candidate"
           \/ type = "AppendEntriesCall" /\ t = nd.current_term
                /\ "Leader" \in {a.role, nd.role}
                /\ (nd.role # "Leader" => nd.current_term = a.current_term)
  BY <1>1 DEF Outcome, SpeaksRightly
<1>12. \A t, to : Said(nd.actions, "RequestVoteReply", t, to) =>
         \/ Said(a.actions, "RequestVoteReply", t, to)
         \/ t = nd.current_term /\ to = nd.voted_for /\ <<t, to>> \in H
  BY <1>11 DEF Binding
<1>13. \A t, to : Said(nd.actions, "RequestVoteCall", t, to) =>
         \/ Said(a.actions, "RequestVoteCall", t, to)
         \/ t = nd.current_term /\ nd.role = "Candidate"
  BY <1>11 DEF Binding
<1>14. \A t, to : Said(nd.actions, "AppendEntriesCall", t, to) =>
         \/ <<t, id>> \in elected
         \/ t = nd.current_term /\ nd.role = "Leader"
  <2>1. \A t, to : Said(a.actions, "AppendEntriesCall", t, to) => <<t, id>> \in elected
    BY DEF FixedInv, LeadersElected
  <2>2. a.role = "Leader" => <<a.current_term, id>> \in elected
    BY DEF FixedInv, LeadersElected
  <2> QED
    BY <1>11, <2>1, <2>2 DEF Binding
<1> QED
  BY <1>2, <1>3, <1>6, <1>7, <1>9, <1>10, <1>12, <1>13, <1>14 DEF Turned, H

\* A step of the node id, whose call ends in nd.
Acts(V, id, nd) ==
  /\ Turned(V, id, nd)
  /\ Moves(id, nd, FixedConfigs(V)) \/ Restarts(id, nd, FixedConfigs(V))

\* What one node promised before a call it promises after it.
LEMMA TurnLoyal ==
  ASSUME NEW V, NEW id \in V, NEW nd, Turned(V, id, nd), NEW t \in Nat, NEW S, Nil \notin S,
         Leaders(t) \subseteq S, Loyal(node[id], t, S)
  PROVE  Loyal(nd, t, S)
<1>1. /\ node[id].current_term \in Nat /\ nd.current_term \in Nat
      /\ node[id].current_term <= nd.current_term
      /\ nd.current_term = node[id].current_term
           => \/ node[id].voted_for \in {Nil, nd.voted_for}
              \/ nd.voted_for \in Leaders(nd.current_term)
  BY DEF Turned
<1>2. nd.voted_for \in Leaders(nd.current_term) => (nd.current_term = t => nd.voted_for \in S)
  OBVIOUS
<1> QED
  BY <1>1, <1>2, LoyalKept

LEMMA SettledLoyal ==
  ASSUME NEW V, Typed(FixedConfigs(V)), NEW id \in NodeId, NEW nd, Acts(V, id, nd),
         NEW t \in Nat, NEW S, Loyal(stored[id], t, S), Loyal(nd, t, S)
  PROVE  Loyal(stored'[id], t, S)
<1>1. stored[id].current_term \in Nat /\ stored[id].current_term <= node[id].current_term
  BY TypedFacts DEF Backs, IsDisk
<1>2. /\ node[id].current_term \in Nat /\ nd.current_term \in Nat
      /\ node[id].current_term <= nd.current_term
      /\ Settles(stored[id], nd, stored'[id])
  BY DEF Acts, Turned, Moves, Restarts
<1>3. stored[id].current_term <= nd.current_term
  BY <1>1, <1>2
<1> QED
  BY <1>1, <1>2, <1>3, LoyalSettles

LEMMA MovesLoyal ==
  ASSUME NEW V, NEW id \in NodeId, NEW nd, Turned(V, id, nd), Moves(id, nd, FixedConfigs(V)),
         NEW x \in V \cap NodeId, NEW t \in Nat, NEW S, Nil \notin S, Leaders(t) \subseteq S,
         Loyal(node[x], t, S)
  PROVE  Loyal(node'[x], t, S)
<1>1. CASE x # id
  BY <1>1 DEF Moves, OthersRest
<1>2. CASE x = id
  <2>1. Loyal(nd, t, S)
    BY <1>2, TurnLoyal
  <2> QED
    BY <1>2, <2>1 DEF Moves, SameState, Loyal
<1> QED
  BY <1>1, <1>2

LEMMA SafeKept ==
  ASSUME NEW V, Typed(FixedConfigs(V)), NEW id \in NodeId, NEW nd, Acts(V, id, nd),
         NEW x \in V \cap NodeId, NEW t \in Nat, NEW S, Nil \notin S, Leaders(t) \subseteq S,
         Safe(x, t, S)
  PROVE  Loyal(node'[x], t, S) /\ Loyal(stored'[x], t, S)
<1>1. CASE x # id
  BY <1>1 DEF Acts, Moves, Restarts, OthersRest, Safe
<1>2. CASE x = id
  <2>1. Loyal(nd, t, S)
    BY <1>2, TurnLoyal DEF Acts, Safe
  <2>2. Loyal(stored'[id], t, S)
    BY <1>2, <2>1, SettledLoyal DEF Safe
  <2>3. CASE Moves(id, nd, FixedConfigs(V))
    BY <1>2, <2>1, <2>2, <2>3 DEF Moves, SameState, Loyal
  <2>4. CASE Restarts(id, nd, FixedConfigs(V))
    BY <1>2, <2>2, <2>4 DEF Restarts, Loyal
  <2> QED
    BY <2>3, <2>4 DEF Acts
<1> QED
  BY <1>1, <1>2

\* What a node says in a step: only what it said, or has queued in nd.
LEMMA SaidStep ==
  ASSUME NEW V, NEW id \in NodeId, NEW nd, Acts(V, id, nd), NEW x \in NodeId,
         NEW type \in Binding, NEW t, NEW to, Said(node'[x].actions, type, t, to)
  PROVE  \/ x # id /\ Said(node[x].actions, type, t, to)
         \/ x = id /\ Moves(id, nd, FixedConfigs(V)) /\ Said(nd.actions, type, t, to)
<1>1. CASE x # id
  BY <1>1 DEF Acts, Moves, Restarts, OthersRest
<1>2. CASE x = id /\ Moves(id, nd, FixedConfigs(V))
  BY <1>2 DEF Moves, Quiet
<1>3. CASE x = id /\ Restarts(id, nd, FixedConfigs(V))
  BY <1>3, IdleSaysNothing DEF Restarts
<1> QED
  BY <1>1, <1>2, <1>3 DEF Acts

\* What is in flight after a step: what was, or what nd has queued and stored.
LEMMA SentStep ==
  ASSUME NEW V, Typed(FixedConfigs(V)), NEW id \in NodeId, NEW nd, Acts(V, id, nd), NEW p \in net',
         NEW type \in Binding, NEW t, Tells(p.msg, type, t)
  PROVE  \/ p \in net
         \/ /\ p.msg.from = id
            /\ Moves(id, nd, FixedConfigs(V))
            /\ Said(nd.actions, type, t, p.to)
            /\ stored'[id].current_term = nd.current_term
            /\ stored'[id].voted_for = nd.voted_for
<1>1. CASE p \in net
  BY <1>1
<1>2. CASE p \notin net
  <2>1. /\ Moves(id, nd, FixedConfigs(V))
        /\ p \in Outbound(nd)
        /\ stored'[id].current_term = nd.current_term
        /\ stored'[id].voted_for = nd.voted_for
    BY <1>2 DEF Acts, Moves, Restarts
  <2>2. Sound(nd, FixedConfigs(V)) /\ nd.id = id
    BY <2>1, TurnsEvolves DEF Moves, Acts, Turned
  <2>3. p.msg.from = nd.id /\ Said(nd.actions, type, t, p.to)
    BY <2>1, <2>2, OutboundTyped
  <2> QED
    BY <2>1, <2>2, <2>3
<1> QED
  BY <1>1, <1>2

LEMMA LeadersStep ==
  ASSUME NEW V, NEW id \in NodeId, NEW nd, Acts(V, id, nd)
  PROVE  /\ elected \subseteq elected'
         /\ \A t : Leaders(t) \subseteq Leaders(t)'
         /\ \A e \in elected' :
              \/ e \in elected
              \/ /\ Moves(id, nd, FixedConfigs(V))
                 /\ nd.role = "Leader"
                 /\ e = <<nd.current_term, id>>
         /\ Moves(id, nd, FixedConfigs(V)) /\ nd.role = "Leader"
              => <<nd.current_term, id>> \in elected'
<1>1. /\ elected \subseteq elected'
      /\ \A e \in elected' :
           \/ e \in elected
           \/ /\ Moves(id, nd, FixedConfigs(V))
              /\ nd.role = "Leader"
              /\ e = <<nd.current_term, id>>
      /\ Moves(id, nd, FixedConfigs(V)) /\ nd.role = "Leader"
           => <<nd.current_term, id>> \in elected'
  BY DEF Acts, Moves, Restarts
<1>2. \A t : Leaders(t) \subseteq Leaders(t)'
  BY <1>1 DEF Leaders
<1> QED
  BY <1>1, <1>2

LEMMA GrantedStep ==
  ASSUME NEW V, Typed(FixedConfigs(V)), NEW id \in NodeId, NEW nd, Acts(V, id, nd),
         NEW w, NEW t, NEW c \in NodeId, w # c, Granted(w, t, c)'
  PROVE  \/ Granted(w, t, c)
         \/ /\ w = id
            /\ Moves(id, nd, FixedConfigs(V))
            /\ Said(nd.actions, "RequestVoteReply", t, c)
            /\ stored'[id].current_term = nd.current_term
            /\ stored'[id].voted_for = nd.voted_for
<1>1. ASSUME NEW p \in net', p.to = c, p.msg.from = w, Tells(p.msg, "RequestVoteReply", t)
      PROVE  \/ Granted(w, t, c)
             \/ /\ w = id
                /\ Moves(id, nd, FixedConfigs(V))
                /\ Said(nd.actions, "RequestVoteReply", t, c)
                /\ stored'[id].current_term = nd.current_term
                /\ stored'[id].voted_for = nd.voted_for
  <2>1. "RequestVoteReply" \in Binding
    BY DEF Binding
  <2>2. CASE p \in net
    BY <1>1, <2>2 DEF Granted
  <2>3. CASE p \notin net
    BY <1>1, <2>1, <2>3, SentStep
  <2> QED
    BY <2>2, <2>3
<1>2. CASE node'[c].role = "Candidate" /\ node'[c].current_term = t /\ w \in node'[c].granted_votes
  <2>1. CASE c # id
    BY <1>2, <2>1 DEF Acts, Moves, Restarts, OthersRest, Granted
  <2>2. CASE c = id /\ Moves(id, nd, FixedConfigs(V))
    <3>1. nd.role = "Candidate" /\ nd.current_term = t /\ w \in nd.granted_votes
      BY <1>2, <2>2 DEF Moves, SameState
    <3> QED
      BY <2>2, <3>1 DEF Acts, Turned
  <2>3. CASE c = id /\ Restarts(id, nd, FixedConfigs(V))
    BY <1>2, <2>3 DEF Restarts
  <2> QED
    BY <2>1, <2>2, <2>3 DEF Acts
<1> QED
  BY <1>1, <1>2 DEF Granted

LEMMA PendingStep ==
  ASSUME NEW V, NEW id \in NodeId, NEW nd, Acts(V, id, nd),
         NEW w, NEW t, NEW c \in NodeId, Pending(w, t, c)'
  PROVE  \/ w # id /\ Pending(w, t, c)
         \/ /\ w = id
            /\ Moves(id, nd, FixedConfigs(V))
            /\ Said(nd.actions, "RequestVoteReply", t, c)
<1>1. w \in NodeId /\ Said(node'[w].actions, "RequestVoteReply", t, c)
  BY DEF Pending
<1>2. "RequestVoteReply" \in Binding
  BY DEF Binding
<1> QED
  BY <1>1, <1>2, SaidStep DEF Pending

\* A vote that is new is for the candidate that the node has voted for, which it has heard.
LEMMA VotedStep ==
  ASSUME NEW V, Typed(FixedConfigs(V)), NEW id \in NodeId, NEW nd, Acts(V, id, nd),
         NEW w, NEW t, NEW c \in NodeId, Voted(w, t, c)'
  PROVE  \/ Voted(w, t, c)
         \/ /\ w = id
            /\ Moves(id, nd, FixedConfigs(V))
            /\ nd.current_term = t
            /\ nd.voted_for = c
            /\ <<t, c>> \in Spoken("RequestVoteCall")
<1>1. w # c /\ (Granted(w, t, c)' \/ Pending(w, t, c)')
  BY DEF Voted
<1>2. \/ Granted(w, t, c)
      \/ Pending(w, t, c)
      \/ w = id /\ Moves(id, nd, FixedConfigs(V)) /\ Said(nd.actions, "RequestVoteReply", t, c)
  BY <1>1, GrantedStep, PendingStep
<1>3. Said(nd.actions, "RequestVoteReply", t, c) =>
        \/ Pending(id, t, c)
        \/ t = nd.current_term /\ c = nd.voted_for /\ <<t, c>> \in Spoken("RequestVoteCall")
  BY DEF Acts, Turned, Pending
<1> QED
  BY <1>1, <1>2, <1>3 DEF Voted

LEMMA FavouredStep ==
  ASSUME NEW V, Typed(FixedConfigs(V)), NEW id \in NodeId, NEW nd, Acts(V, id, nd), NEW w, NEW t
  PROVE  \A c \in Favoured(w, t)' : /\ c \in NodeId
                                   /\ \/ Voted(w, t, c)
                                      \/ w = id /\ nd.current_term = t /\ nd.voted_for = c
<1> TAKE c \in Favoured(w, t)'
<1>1. c \in NodeId /\ Voted(w, t, c)'
  BY DEF Favoured
<1> QED
  BY <1>1, VotedStep, ZenonT(60)

LEMMA PledgeFacts ==
  ASSUME NEW V, FixedInv(V), NEW t, NEW c \in NodeId
  PROVE  /\ Nil \notin Pledge(t, c)
         /\ Leaders(t) \subseteq Pledge(t, c)
         /\ c \in Pledge(t, c)
<1>1. elected \subseteq Nat \X (V \cap NodeId)
  BY DEF FixedInv
<1>2. Leaders(t) \subseteq NodeId
  BY <1>1 DEF Leaders
<1> QED
  BY <1>2, BoundsAssumption DEF Pledge

LEMMA PledgeStep ==
  ASSUME NEW V, NEW id \in NodeId, NEW nd, Acts(V, id, nd), NEW t, NEW c
  PROVE  Pledge(t, c) \subseteq Pledge(t, c)'
  BY LeadersStep DEF Pledge

\* A candidate stays bound to its vote for itself.
LEMMA PledgeKept ==
  ASSUME NEW V, Typed(FixedConfigs(V)), FixedInv(V), NEW id \in NodeId, NEW nd, Acts(V, id, nd),
         NEW x \in V \cap NodeId, NEW t \in Nat, NEW c \in NodeId, Safe(x, t, Pledge(t, c))
  PROVE  Safe(x, t, Pledge(t, c))'
<1> DEFINE S == Pledge(t, c)
<1>1. Nil \notin S /\ Leaders(t) \subseteq S
  BY PledgeFacts
<1>2. Loyal(node'[x], t, S) /\ Loyal(stored'[x], t, S)
  BY <1>1, SafeKept
<1>3. S \subseteq Pledge(t, c)'
  BY PledgeStep
<1> QED
  BY <1>2, <1>3, LoyalMore DEF Safe

LEMMA VotesPledgedStep ==
  ASSUME NEW V, Typed(FixedConfigs(V)), FixedInv(V), NEW id \in NodeId, NEW nd, Acts(V, id, nd)
  PROVE  VotesPledged(V)'
<1> SUFFICES ASSUME NEW w, NEW t, NEW c \in NodeId, Voted(w, t, c)'
             PROVE  /\ t \in Nat /\ w \in NodeId /\ c \in V
                    /\ Safe(c, t, Pledge(t, c))'
                    /\ w \in V => /\ Loyal(node'[w], t, Pledge(t, c)')
                                  /\ Granted(w, t, c)' => Loyal(stored'[w], t, Pledge(t, c)')
  BY DEF VotesPledged
<1> DEFINE S == Pledge(t, c)
<1>1. Nil \notin S /\ Leaders(t) \subseteq S /\ c \in S /\ S \subseteq Pledge(t, c)'
  BY PledgeFacts, PledgeStep
<1>2. \/ Voted(w, t, c)
      \/ /\ w = id
         /\ Moves(id, nd, FixedConfigs(V))
         /\ nd.current_term = t
         /\ nd.voted_for = c
         /\ <<t, c>> \in Spoken("RequestVoteCall")
  BY VotedStep
<1>3. Voted(w, t, c) =>
        /\ t \in Nat /\ w \in NodeId /\ c \in V
        /\ Safe(c, t, S)
        /\ w \in V => /\ Loyal(node[w], t, S)
                      /\ Granted(w, t, c) => Loyal(stored[w], t, S)
  BY DEF FixedInv, VotesPledged
<1>4. <<t, c>> \in Spoken("RequestVoteCall") => t \in Nat /\ c \in V /\ Safe(c, t, S)
  BY DEF FixedInv, CandidatesPledged
<1>5. t \in Nat /\ w \in NodeId /\ c \in V /\ Safe(c, t, S)
  BY <1>2, <1>3, <1>4
<1>6. Safe(c, t, Pledge(t, c))'
  BY <1>5, PledgeKept
<1>7. w # c /\ (Granted(w, t, c)' \/ Pending(w, t, c)')
  BY DEF Voted
<1>8. \/ Granted(w, t, c)' => Granted(w, t, c)
      \/ /\ w = id
         /\ Moves(id, nd, FixedConfigs(V))
         /\ stored'[id].current_term = nd.current_term
         /\ stored'[id].voted_for = nd.voted_for
  BY <1>7, GrantedStep
<1> HIDE DEF S
<1>9. ASSUME w \in V, Granted(w, t, c)
      PROVE  Loyal(node'[w], t, S) /\ Loyal(stored'[w], t, S)
  <2>1. Safe(w, t, S)
    BY <1>3, <1>7, <1>9 DEF Voted, Safe
  <2> QED
    BY <1>1, <1>5, <1>9, <2>1, SafeKept
<1>10. ASSUME w \in V PROVE Loyal(node'[w], t, S)
  <2>1. CASE Moves(id, nd, FixedConfigs(V)) /\ Voted(w, t, c)
    BY <1>1, <1>3, <1>5, <1>10, <2>1, MovesLoyal DEF Acts
  <2>2. CASE /\ w = id
             /\ Moves(id, nd, FixedConfigs(V))
             /\ nd.current_term = t
             /\ nd.voted_for = c
    BY <1>1, <2>2 DEF Moves, SameState, Loyal
  <2>3. CASE ~Moves(id, nd, FixedConfigs(V))
    <3>1. CASE Granted(w, t, c)
      BY <1>9, <1>10, <3>1
    <3>2. CASE ~Granted(w, t, c)
      <4>1. w # id /\ Voted(w, t, c)
        BY <1>2, <1>7, <1>8, <2>3, <3>2, PendingStep
      <4>2. node'[w] = node[w]
        BY <1>5, <2>3, <4>1 DEF Acts, Restarts, OthersRest
      <4> QED
        BY <1>3, <1>10, <4>1, <4>2
    <3> QED
      BY <3>1, <3>2
  <2> QED
    BY <1>2, <2>1, <2>2, <2>3
<1>11. ASSUME w \in V, Granted(w, t, c)' PROVE Loyal(stored'[w], t, S)
  <2>1. CASE Granted(w, t, c)
    BY <1>9, <1>11, <2>1
  <2>2. CASE /\ w = id
             /\ Moves(id, nd, FixedConfigs(V))
             /\ stored'[id].current_term = nd.current_term
             /\ stored'[id].voted_for = nd.voted_for
    BY <1>10, <1>11, <2>2 DEF Moves, SameState, Loyal
  <2> QED
    BY <1>8, <1>11, <2>1, <2>2
<1> QED
  BY <1>1, <1>5, <1>6, <1>10, <1>11, LoyalMore

LEMMA OneVoteStep ==
  ASSUME NEW V, Typed(FixedConfigs(V)), FixedInv(V), NEW id \in NodeId, NEW nd, Acts(V, id, nd)
  PROVE  OneVote(V)'
<1>1. ASSUME NEW w \in V, NEW t, NEW c \in NodeId, NEW d \in NodeId, c # d, Voted(w, t, d),
             w = id, nd.current_term = t, nd.voted_for = c
      PROVE  Leaders(t) # {}
  <2>1. t \in Nat /\ Loyal(node[w], t, Pledge(t, d))
    BY <1>1 DEF FixedInv, VotesPledged
  <2>2. Loyal(nd, t, Pledge(t, d))
    BY <1>1, <2>1, PledgeFacts, TurnLoyal DEF Acts
  <2>3. c \in Pledge(t, d)
    BY <1>1, <2>1, <2>2 DEF Loyal
  <2> QED
    BY <1>1, <2>3 DEF Pledge
<1>2. ASSUME NEW w \in V, NEW t, NEW c \in Favoured(w, t)', NEW d \in Favoured(w, t)', c # d
      PROVE  Leaders(t) # {}
  <2>1. \A e \in Favoured(w, t)' : /\ e \in NodeId
                                  /\ \/ Voted(w, t, e)
                                     \/ w = id /\ nd.current_term = t /\ nd.voted_for = e
    BY FavouredStep
  <2>2. CASE Voted(w, t, c) /\ Voted(w, t, d)
    BY <1>2, <2>1, <2>2 DEF FixedInv, OneVote, Favoured
  <2> QED
    BY <1>1, <1>2, <2>1, <2>2
<1>3. \A t : Leaders(t) \subseteq Leaders(t)'
  BY LeadersStep
<1> QED
  BY <1>2, <1>3 DEF OneVote

LEMMA LeadersElectedStep ==
  ASSUME NEW V, Typed(FixedConfigs(V)), FixedInv(V), NEW id \in NodeId, NEW nd, Acts(V, id, nd)
  PROVE  LeadersElected'
<1> DEFINE M == Moves(id, nd, FixedConfigs(V))
<1>1. /\ elected \subseteq elected'
      /\ M /\ nd.role = "Leader" => <<nd.current_term, id>> \in elected'
  BY LeadersStep
<1>2. /\ \A x \in NodeId : node[x].role = "Leader" => <<node[x].current_term, x>> \in elected
      /\ \A x \in NodeId : \A t, to :
           Said(node[x].actions, "AppendEntriesCall", t, to) => <<t, x>> \in elected
      /\ Spoken("AppendEntriesCall") \subseteq elected
  BY DEF FixedInv, LeadersElected
<1>3. \A t, to : Said(nd.actions, "AppendEntriesCall", t, to) =>
        \/ <<t, id>> \in elected
        \/ t = nd.current_term /\ nd.role = "Leader"
  BY DEF Acts, Turned
<1>4. "AppendEntriesCall" \in Binding
  BY DEF Binding
<1>5. ASSUME NEW x \in NodeId, node'[x].role = "Leader"
      PROVE  <<node'[x].current_term, x>> \in elected'
  <2>1. CASE x # id
    BY <1>1, <1>2, <1>5, <2>1 DEF Acts, Moves, Restarts, OthersRest
  <2>2. CASE x = id /\ M
    BY <1>1, <1>5, <2>2 DEF Moves, SameState
  <2>3. CASE x = id /\ Restarts(id, nd, FixedConfigs(V))
    BY <1>5, <2>3 DEF Restarts
  <2> QED
    BY <2>1, <2>2, <2>3 DEF Acts
<1> HIDE DEF M
<1>6. ASSUME NEW x \in NodeId, NEW t, NEW to, Said(node'[x].actions, "AppendEntriesCall", t, to)
      PROVE  <<t, x>> \in elected'
  <2>1. \/ x # id /\ Said(node[x].actions, "AppendEntriesCall", t, to)
        \/ x = id /\ M /\ Said(nd.actions, "AppendEntriesCall", t, to)
    BY <1>4, <1>6, SaidStep DEF M
  <2> QED
    BY <1>1, <1>2, <1>3, <2>1
<1>7. ASSUME NEW p \in net', p.msg.type = "AppendEntriesCall"
      PROVE  <<p.msg.term, p.msg.from>> \in elected'
  <2>1. CASE p \in net
    BY <1>1, <1>2, <1>7, <2>1 DEF Spoken
  <2>2. CASE p \notin net
    <3>1. Tells(p.msg, "AppendEntriesCall", p.msg.term)
      BY <1>7 DEF Tells
    <3>2. p.msg.from = id /\ M /\ Said(nd.actions, "AppendEntriesCall", p.msg.term, p.to)
      BY <1>4, <2>2, <3>1, SentStep DEF M
    <3> QED
      BY <1>1, <1>3, <3>2
  <2> QED
    BY <2>1, <2>2
<1>8. Spoken("AppendEntriesCall")' \subseteq elected'
  BY <1>7 DEF Spoken
<1> QED
  BY <1>5, <1>6, <1>8 DEF LeadersElected

LEMMA CandidatesPledgedStep ==
  ASSUME NEW V, Typed(FixedConfigs(V)), FixedInv(V), NEW id \in NodeId, NEW nd, Acts(V, id, nd)
  PROVE  CandidatesPledged(V)'
<1> DEFINE M == Moves(id, nd, FixedConfigs(V))
<1>1. /\ \A x \in NodeId : \A t, to :
           Said(node[x].actions, "RequestVoteCall", t, to)
           => t \in Nat /\ x \in V /\ Loyal(node[x], t, Pledge(t, x))
      /\ \A t, c : <<t, c>> \in Spoken("RequestVoteCall")
           => t \in Nat /\ c \in V \cap NodeId /\ Safe(c, t, Pledge(t, c))
  BY DEF FixedInv, CandidatesPledged
<1>2. "RequestVoteCall" \in Binding
  BY DEF Binding
<1>3. ASSUME NEW t, NEW to, Said(nd.actions, "RequestVoteCall", t, to)
      PROVE  t \in Nat /\ id \in V /\ Loyal(nd, t, Pledge(t, id))
  <2>1. \/ Said(node[id].actions, "RequestVoteCall", t, to)
        \/ t = nd.current_term /\ nd.role = "Candidate"
    BY <1>3 DEF Acts, Turned
  <2>2. CASE Said(node[id].actions, "RequestVoteCall", t, to)
    <3>1. t \in Nat /\ id \in V /\ Loyal(node[id], t, Pledge(t, id))
      BY <1>1, <2>2
    <3> QED
      BY <3>1, PledgeFacts, TurnLoyal DEF Acts
  <2>3. CASE t = nd.current_term /\ nd.role = "Candidate"
    <3>1. t \in Nat /\ id \in V /\ nd.voted_for = id
      BY <2>3 DEF Acts, Turned
    <3>2. id \in Pledge(t, id)
      BY DEF Pledge
    <3> QED
      BY <2>3, <3>1, <3>2 DEF Loyal
  <2> QED
    BY <2>1, <2>2, <2>3
<1>4. ASSUME NEW x \in NodeId, NEW t, NEW to, Said(node'[x].actions, "RequestVoteCall", t, to)
      PROVE  t \in Nat /\ x \in V /\ Loyal(node'[x], t, Pledge(t, x)')
  <2>1. \/ x # id /\ Said(node[x].actions, "RequestVoteCall", t, to)
        \/ x = id /\ M /\ Said(nd.actions, "RequestVoteCall", t, to)
    BY <1>2, <1>4, SaidStep
  <2>2. CASE x # id /\ Said(node[x].actions, "RequestVoteCall", t, to)
    <3>1. t \in Nat /\ x \in V /\ Loyal(node[x], t, Pledge(t, x))
      BY <1>1, <2>2
    <3>2. node'[x] = node[x]
      BY <2>2 DEF Acts, Moves, Restarts, OthersRest
    <3>3. Pledge(t, x) \subseteq Pledge(t, x)'
      BY PledgeStep
    <3> QED
      BY <3>1, <3>2, <3>3, LoyalMore
  <2>3. CASE x = id /\ M /\ Said(nd.actions, "RequestVoteCall", t, to)
    <3>1. t \in Nat /\ x \in V /\ Loyal(nd, t, Pledge(t, x))
      BY <1>3, <2>3
    <3>2. Loyal(node'[x], t, Pledge(t, x))
      BY <2>3, <3>1 DEF Moves, SameState, Loyal
    <3>3. Pledge(t, x) \subseteq Pledge(t, x)'
      BY PledgeStep
    <3> QED
      BY <3>1, <3>2, <3>3, LoyalMore
  <2> QED
    BY <2>1, <2>2, <2>3
<1>5. ASSUME NEW t, NEW c, <<t, c>> \in Spoken("RequestVoteCall")'
      PROVE  t \in Nat /\ c \in V \cap NodeId /\ Safe(c, t, Pledge(t, c))'
  <2>1. PICK p \in net' : p.msg.type = "RequestVoteCall" /\ p.msg.term = t /\ p.msg.from = c
    BY <1>5 DEF Spoken
  <2>2. CASE p \in net
    <3>1. <<t, c>> \in Spoken("RequestVoteCall")
      BY <2>1, <2>2 DEF Spoken
    <3>2. t \in Nat /\ c \in V \cap NodeId /\ Safe(c, t, Pledge(t, c))
      BY <1>1, <3>1
    <3> QED
      BY <3>2, PledgeKept
  <2>3. CASE p \notin net
    <3>1. Tells(p.msg, "RequestVoteCall", t)
      BY <2>1 DEF Tells
    <3>2. /\ c = id /\ M /\ Said(nd.actions, "RequestVoteCall", t, p.to)
          /\ stored'[id].current_term = nd.current_term
          /\ stored'[id].voted_for = nd.voted_for
      BY <1>2, <2>1, <2>3, <3>1, SentStep
    <3>3. t \in Nat /\ c \in V \cap NodeId /\ Loyal(nd, t, Pledge(t, c))
      BY <1>3, <3>2
    <3>4. Loyal(node'[c], t, Pledge(t, c)) /\ Loyal(stored'[c], t, Pledge(t, c))
      BY <3>2, <3>3 DEF Moves, SameState, Loyal
    <3>5. Pledge(t, c) \subseteq Pledge(t, c)'
      BY PledgeStep
    <3> QED
      BY <3>3, <3>4, <3>5, LoyalMore DEF Safe
  <2> QED
    BY <2>2, <2>3
<1> QED
  BY <1>4, <1>5 DEF CandidatesPledged

LEMMA MajoritiesMeet ==
  ASSUME NEW V, IsFiniteSet(V), V # {}, NEW Q \in SUBSET V, NEW R \in SUBSET V,
         Cardinality(Q) >= Majority(V), Cardinality(R) >= Majority(V)
  PROVE  Q \cap R # {}
<1>1. Cardinality(V) \in Nat /\ Cardinality(Q) \in Nat /\ Cardinality(R) \in Nat
  BY FS_Subset, FS_CardinalityType
<1>2. Majority(V) = Cardinality(V) \div 2 + 1
  BY DEF Majority
<1>3. ASSUME NEW n \in Nat, NEW q \in Nat, NEW r \in Nat, q >= n \div 2 + 1, r >= n \div 2 + 1
      PROVE  q + r > n
  BY <1>3
<1>4. Cardinality(Q) + Cardinality(R) > Cardinality(V)
  BY <1>1, <1>2, <1>3
<1> QED
  BY <1>4, FS_MajoritiesIntersect

LEMMA MajorityOfOne ==
  ASSUME NEW V, IsFiniteSet(V), NEW x \in V, NEW Q \in SUBSET V, Cardinality(Q) >= Majority(V),
         Q \subseteq {x}
  PROVE  V = {x}
<1>0. IsFiniteSet({x}) /\ Cardinality({x}) = 1
  BY FS_Singleton
<1>1. IsFiniteSet(Q) /\ Cardinality(Q) <= 1
  BY <1>0, FS_Subset
<1>2. Cardinality(V) \in Nat /\ Cardinality(Q) \in Nat
  BY <1>1, FS_CardinalityType
<1>3. Majority(V) = Cardinality(V) \div 2 + 1
  BY DEF Majority
<1>4. Cardinality(V) <= 1
  BY <1>1, <1>2, <1>3
<1>5. {x} \in SUBSET V
  OBVIOUS
<1>6. Cardinality({x}) <= Cardinality(V)
  BY <1>5, FS_Subset
<1>7. Cardinality({x}) = Cardinality(V)
  BY <1>0, <1>2, <1>4, <1>6
<1> QED
  BY <1>5, <1>7, FS_Subset

\* A leader keeps those that elected it.
LEMMA ChosenKept ==
  ASSUME NEW V, Typed(FixedConfigs(V)), NEW id \in NodeId, NEW nd, Acts(V, id, nd),
         NEW t \in Nat, NEW d \in NodeId, Leaders(t) \subseteq {d},
         NEW Q \in SUBSET V, Elects(Q, t, d)
  PROVE  Elects(Q, t, d)'
<1>1. Nil \notin {d}
  BY BoundsAssumption
<1>2. ASSUME NEW w \in Q
      PROVE  /\ w \in NodeId
             /\ Safe(w, t, {d})'
             /\ Favoured(w, t)' \subseteq {d}
  <2>1. w \in V \cap NodeId /\ Safe(w, t, {d}) /\ Favoured(w, t) \subseteq {d}
    BY <1>2 DEF Elects
  <2>2. Safe(w, t, {d})'
    BY <1>1, <2>1, SafeKept DEF Safe
  <2>3. ASSUME NEW c \in Favoured(w, t)', c # d PROVE FALSE
    <3>1. c \in NodeId /\ ~Voted(w, t, c)
      BY <2>1, <2>3, FavouredStep DEF Favoured
    <3>2. w = id /\ nd.current_term = t /\ nd.voted_for = c
      BY <3>1, FavouredStep
    <3>3. Loyal(node[id], t, {d})
      BY <2>1, <3>2 DEF Safe
    <3>4. Loyal(nd, t, {d})
      BY <1>1, <2>1, <3>2, <3>3, TurnLoyal DEF Acts
    <3> QED
      BY <2>3, <3>2, <3>4 DEF Loyal
  <2> QED
    BY <2>1, <2>2, <2>3
<1> QED
  BY <1>2 DEF Elects

\* The majority that has voted for a new leader has voted for nobody else.
LEMMA ChosenNew ==
  ASSUME NEW V, IsFiniteSet(V), Typed(FixedConfigs(V)), FixedInv(V), NEW id \in V \cap NodeId,
         node[id].role = "Candidate", V # {id},
         NEW t, t = node[id].current_term, <<t, id>> \notin elected,
         NEW Q \in SUBSET V, Cardinality(Q) >= Majority(V), \A w \in Q \ {id} : Granted(w, t, id)
  PROVE  Leaders(t) = {} /\ Elects(Q, t, id)
<1>1. node[id].voted_for = id /\ t \in Nat
  BY TypedFacts DEF Sound, Stands, IsNode, IsRecord
<1>2. \A w \in Q \ {id} : Voted(w, t, id)
  BY DEF Voted
<1>3. ASSUME NEW e, <<t, e>> \in elected PROVE FALSE
  <2>1. e \in V \cap NodeId /\ e # id /\ V # {e}
    BY <1>3 DEF FixedInv
  <2>2. PICK R \in SUBSET V : Cardinality(R) >= Majority(V) /\ Elects(R, t, e)
    BY <1>3, <2>1 DEF FixedInv, LeadersChosen
  <2>3. PICK w : w \in Q \cap R
    BY <2>2, MajoritiesMeet
  <2>4. Safe(w, t, {e}) /\ Favoured(w, t) \subseteq {e}
    BY <2>2, <2>3 DEF Elects
  <2>5. CASE w = id
    BY <1>1, <2>1, <2>4, <2>5 DEF Safe, Loyal
  <2>6. CASE w # id
    BY <1>2, <2>1, <2>3, <2>4, <2>6 DEF Favoured
  <2> QED
    BY <2>5, <2>6
<1>4. Leaders(t) = {}
  BY <1>3 DEF Leaders, FixedInv
<1>5. Pledge(t, id) = {id}
  BY <1>4 DEF Pledge
<1>6. ASSUME NEW w \in Q \ {id}
      PROVE  w \in NodeId /\ Safe(w, t, {id}) /\ Favoured(w, t) \subseteq {id} /\ Safe(id, t, {id})
  <2>1. w \in V /\ w # id /\ Granted(w, t, id) /\ Voted(w, t, id)
    BY <1>2, <1>6
  <2>2. w \in NodeId /\ Safe(w, t, {id}) /\ Safe(id, t, {id})
    BY <1>5, <2>1, SMTT(40) DEF FixedInv, VotesPledged, Safe
  <2>3. id \in Favoured(w, t)
    BY <2>1 DEF Favoured
  <2>4. Favoured(w, t) \subseteq {id}
    BY <1>4, <2>1, <2>3 DEF FixedInv, OneVote
  <2> QED
    BY <2>2, <2>4
<1>7. PICK u \in Q : u # id
  BY MajorityOfOne
<1>8. Safe(id, t, {id})
  BY <1>6, <1>7
<1>9. ASSUME NEW c \in Favoured(id, t), c # id PROVE FALSE
  <2>1. c \in NodeId /\ Voted(id, t, c)
    BY <1>9 DEF Favoured
  <2>2. Loyal(node[id], t, Pledge(t, c))
    BY <2>1 DEF FixedInv, VotesPledged
  <2>3. Pledge(t, c) = {c}
    BY <1>4 DEF Pledge
  <2> QED
    BY <1>1, <1>9, <2>2, <2>3 DEF Loyal
<1> QED
  BY <1>4, <1>6, <1>8, <1>9 DEF Elects

\* What a step adds to elected.
LEMMA ElectedStep ==
  ASSUME NEW V, IsFiniteSet(V), Typed(FixedConfigs(V)), FixedInv(V), NEW id \in NodeId, NEW nd,
         Acts(V, id, nd), NEW l \in elected', l \notin elected
  PROVE  /\ l = <<nd.current_term, id>>
         /\ nd.current_term \in Nat
         /\ id \in V
         /\ \/ V = {id}
            \/ /\ Leaders(nd.current_term) = {}
               /\ \E Q \in SUBSET V : /\ Cardinality(Q) >= Majority(V)
                                      /\ Elects(Q, nd.current_term, id)
<1>1. nd.role = "Leader" /\ l = <<nd.current_term, id>>
  BY LeadersStep
<1>2. nd.current_term \in Nat /\ id \in V
  BY <1>1 DEF Acts, Turned
<1>3. \/ V = {id}
      \/ /\ nd.current_term = node[id].current_term
         /\ node[id].role = "Candidate"
         /\ \E Q \in SUBSET V : /\ Cardinality(Q) >= Majority(V)
                                /\ \A w \in Q \ {id} : Granted(w, nd.current_term, id)
  BY <1>1 DEF Acts, Turned
<1>4. CASE V = {id}
  BY <1>1, <1>2, <1>4
<1>5. CASE V # {id}
  <2>1. PICK Q \in SUBSET V : /\ Cardinality(Q) >= Majority(V)
                              /\ \A w \in Q \ {id} : Granted(w, nd.current_term, id)
    BY <1>3, <1>5
  <2>2. Leaders(nd.current_term) = {} /\ Elects(Q, nd.current_term, id)
    BY <1>1, <1>2, <1>3, <1>5, <2>1, ChosenNew
  <2> QED
    BY <1>1, <1>2, <2>1, <2>2
<1> QED
  BY <1>4, <1>5

LEMMA LeadersChosenStep ==
  ASSUME NEW V, IsFiniteSet(V), Typed(FixedConfigs(V)), FixedInv(V), NEW id \in NodeId, NEW nd,
         Acts(V, id, nd)
  PROVE  LeadersChosen(V)'
<1> SUFFICES ASSUME NEW t, NEW d, <<t, d>> \in elected', V # {d}
             PROVE  \E Q \in SUBSET V : Cardinality(Q) >= Majority(V) /\ Elects(Q, t, d)'
  BY DEF LeadersChosen
<1>1. CASE <<t, d>> \in elected
  <2>1. t \in Nat /\ d \in NodeId
    BY <1>1 DEF FixedInv
  <2>2. PICK Q \in SUBSET V : Cardinality(Q) >= Majority(V) /\ Elects(Q, t, d)
    BY <1>1 DEF FixedInv, LeadersChosen
  <2>3. Leaders(t) \subseteq {d}
    BY <1>1 DEF FixedInv, ElectionSafety, Leaders
  <2> QED
    BY <2>1, <2>2, <2>3, ChosenKept
<1>2. CASE <<t, d>> \notin elected
  <2>1. /\ t = nd.current_term /\ d = id /\ t \in Nat
        /\ Leaders(t) = {}
        /\ \E Q \in SUBSET V : Cardinality(Q) >= Majority(V) /\ Elects(Q, t, d)
    BY <1>2, ElectedStep
  <2>2. PICK Q \in SUBSET V : Cardinality(Q) >= Majority(V) /\ Elects(Q, t, d)
    BY <2>1
  <2> QED
    BY <2>1, <2>2, ChosenKept
<1> QED
  BY <1>1, <1>2

LEMMA ElectedTyped ==
  ASSUME NEW V, IsFiniteSet(V), Typed(FixedConfigs(V)), FixedInv(V), NEW id \in NodeId, NEW nd,
         Acts(V, id, nd)
  PROVE  elected' \subseteq Nat \X (V \cap NodeId)
<1>1. ASSUME NEW l \in elected' PROVE l \in Nat \X (V \cap NodeId)
  <2>1. CASE l \in elected
    BY <2>1 DEF FixedInv
  <2>2. CASE l \notin elected
    BY <2>2, ElectedStep
  <2> QED
    BY <2>1, <2>2
<1> QED
  BY <1>1

LEMMA ElectionSafetyStep ==
  ASSUME NEW V, IsFiniteSet(V), Typed(FixedConfigs(V)), FixedInv(V), NEW id \in NodeId, NEW nd,
         Acts(V, id, nd)
  PROVE  ElectionSafety'
<1>1. ASSUME NEW a \in elected', NEW b \in elected, a \notin elected, a[1] = b[1]
      PROVE  a[2] = b[2]
  <2>1. a = <<nd.current_term, id>> /\ (V = {id} \/ Leaders(nd.current_term) = {})
    BY <1>1, ElectedStep
  <2>2. b[2] \in V
    BY DEF FixedInv
  <2>3. b[2] \in Leaders(nd.current_term)
    BY <1>1, <2>1 DEF Leaders
  <2> QED
    BY <2>1, <2>2, <2>3
<1>2. ASSUME NEW a \in elected', NEW b \in elected', a \notin elected, b \notin elected
      PROVE  a = b
  BY <1>2, ElectedStep
<1>3. \A a, b \in elected : a[1] = b[1] => a[2] = b[2]
  BY DEF FixedInv, ElectionSafety
<1> QED
  BY <1>1, <1>2, <1>3 DEF ElectionSafety

LEMMA FixedActs ==
  ASSUME NEW V, IsFiniteSet(V), Typed(FixedConfigs(V)), FixedInv(V), NEW id \in NodeId, NEW nd,
         Acts(V, id, nd)
  PROVE  FixedInv(V)'
  BY ElectedTyped, LeadersElectedStep, CandidatesPledgedStep, VotesPledgedStep, OneVoteStep,
     LeadersChosenStep, ElectionSafetyStep DEF FixedInv

LEMMA FixedRests ==
  ASSUME NEW V, FixedInv(V), Rests
  PROVE  FixedInv(V)'
<1>1. node' = node /\ stored' = stored /\ elected' = elected /\ net' \subseteq net
  BY DEF Rests
<1>2. \A type : Spoken(type)' \subseteq Spoken(type)
  BY <1>1 DEF Spoken
<1>3. \A t : Leaders(t)' = Leaders(t)
  BY <1>1 DEF Leaders
<1>4. \A w, t, c : Granted(w, t, c)' => Granted(w, t, c)
  BY <1>1 DEF Granted
<1>5. \A w, t, c : Pending(w, t, c)' <=> Pending(w, t, c)
  BY <1>1 DEF Pending
<1>6. \A w, t, c : Voted(w, t, c)' => Voted(w, t, c)
  BY <1>4, <1>5 DEF Voted
<1>7. \A w, t : Favoured(w, t)' \subseteq Favoured(w, t)
  BY <1>6 DEF Favoured
<1>8. \A t, c : Pledge(t, c)' = Pledge(t, c)
  BY <1>3 DEF Pledge
<1>9. \A x, t, S : Safe(x, t, S)' <=> Safe(x, t, S)
  BY <1>1 DEF Safe
<1>10. LeadersElected'
  BY <1>1, <1>2 DEF FixedInv, LeadersElected
<1>11. CandidatesPledged(V)'
  <2>1. \A x \in NodeId : \A t, to :
          Said(node'[x].actions, "RequestVoteCall", t, to)
          => t \in Nat /\ x \in V /\ Loyal(node'[x], t, Pledge(t, x)')
    BY <1>1, <1>8 DEF FixedInv, CandidatesPledged
  <2>2. \A t, c : <<t, c>> \in Spoken("RequestVoteCall")'
          => t \in Nat /\ c \in V \cap NodeId /\ Safe(c, t, Pledge(t, c))'
    BY <1>1, <1>2, <1>8 DEF FixedInv, CandidatesPledged, Safe
  <2> QED
    BY <2>1, <2>2 DEF CandidatesPledged
<1>12. VotesPledged(V)'
  BY <1>1, <1>4, <1>6, <1>8 DEF FixedInv, VotesPledged, Safe
<1>13. OneVote(V)'
  BY <1>3, <1>7 DEF FixedInv, OneVote
<1>14. LeadersChosen(V)'
  <2>1. \A Q, t, d : Elects(Q, t, d) => Elects(Q, t, d)'
    BY <1>7, <1>9 DEF Elects
  <2> QED
    BY <1>1, <2>1 DEF FixedInv, LeadersChosen
<1> QED
  BY <1>1, <1>10, <1>11, <1>12, <1>13, <1>14 DEF FixedInv, ElectionSafety

LEMMA FixedInit ==
  ASSUME NEW V, VotersFixed(V), Init
  PROVE  FixedInv(V)
<1>1. elected = Past /\ net = {} /\ stored = Boot
  BY DEF Init
<1>2. \A id \in NodeId : /\ node[id].role = "Follower"
                         /\ node[id].actions = NoActions
                         /\ node[id].current_term = Boot[id].current_term
                         /\ node[id].voted_for = Boot[id].voted_for
  <2> TAKE id \in NodeId
  <2>1. node[id] = Restarted(id, Boot[id])
    BY DEF Init, Restarted
  <2> QED
    BY <2>1 DEF Restarted, Restart, SetElectionTimeout, NewNode
<1>3. \A id \in NodeId : \A type, t, to : ~Said(node[id].actions, type, t, to)
  BY <1>2, IdleSaysNothing
<1>4. \A type : Spoken(type) = {}
  BY <1>1 DEF Spoken
<1>5. \A w, t : \A c \in NodeId : ~Voted(w, t, c)
  BY <1>1, <1>2, <1>3 DEF Voted, Granted, Pending
<1>6. \A w, t : Favoured(w, t) = {}
  BY <1>5 DEF Favoured
<1>7. LeadersElected
  BY <1>2, <1>3, <1>4 DEF LeadersElected
<1>8. CandidatesPledged(V)
  BY <1>3, <1>4 DEF CandidatesPledged
<1>9. VotesPledged(V) /\ OneVote(V)
  BY <1>5, <1>6 DEF VotesPledged, OneVote
<1>10. elected \subseteq Nat \X (V \cap NodeId)
  BY <1>1, PastAssumption DEF VotersFixed
<1>11. ElectionSafety
  BY <1>1, PastAssumption DEF ElectionSafety
<1>12. LeadersChosen(V)
  <2> SUFFICES ASSUME NEW t, NEW d, <<t, d>> \in Past, V # {d}
               PROVE  \E Q \in SUBSET V : Cardinality(Q) >= Majority(V) /\ Elects(Q, t, d)
    BY <1>1 DEF LeadersChosen
  <2>1. PICK Q \in SUBSET (V \cap NodeId) :
          Cardinality(Q) >= Majority(V) /\ \A w \in Q : Loyal(Boot[w], t, {d})
    BY DEF VotersFixed, PastElected
  <2>2. \A w \in Q : w \in NodeId /\ Safe(w, t, {d})
    BY <1>1, <1>2, <2>1 DEF Safe, Loyal
  <2> QED
    BY <1>6, <2>1, <2>2 DEF Elects
<1> QED
  BY <1>7, <1>8, <1>9, <1>10, <1>11, <1>12 DEF FixedInv

\* No leader has heard from another leader of its term ("a same-term leader conflict
\* cannot happen in a correct Raft execution", handle_append_entries_call).
NoRival == \A id \in NodeId : "two leaders" \notin node[id].broken

LEMMA NoRivalStep ==
  ASSUME NEW V, Typed(FixedConfigs(V)), FixedInv(V), NoRival, NEW id \in NodeId, NEW nd,
         Acts(V, id, nd), Turns(id, nd, FixedConfigs(V))
  PROVE  NoRival'
<1>1. \/ "two leaders" \notin nd.broken
      \/ /\ node[id].role = "Leader"
         /\ \E x : x # node[id].id /\ <<node[id].current_term, x>> \in Spoken("AppendEntriesCall")
  BY DEF Turns, Outcome, HearsRightly, NoRival
<1>2. node[id].id = id
  BY TypedFacts
<1>3. "two leaders" \notin nd.broken
  BY <1>1, <1>2 DEF FixedInv, LeadersElected, ElectionSafety
<1> QED
  BY <1>3 DEF NoRival, Acts, Moves, Restarts, OthersRest

\* The step as a whole.
LEMMA FixedStep ==
  ASSUME NEW V, VotersFixed(V), Typed(FixedConfigs(V)), FixedInv(V), NoRival, [Next]_vars
  PROVE  FixedInv(V)' /\ NoRival'
<1>1. StepForm(FixedConfigs(V))
  BY FixedCover, TypedStep
<1>2. CASE Rests
  BY <1>2, FixedRests DEF Rests, NoRival
<1>3. ASSUME NEW id \in NodeId, NEW nd,
             Moves(id, nd, FixedConfigs(V)) \/ Restarts(id, nd, FixedConfigs(V))
      PROVE  FixedInv(V)' /\ NoRival'
  <2>1. Turns(id, nd, FixedConfigs(V))
    BY <1>3 DEF Moves, Restarts
  <2>2. Acts(V, id, nd)
    BY <1>3, <2>1, TurnsTurned DEF Acts
  <2>3. IsFiniteSet(V)
    BY DEF VotersFixed
  <2> QED
    BY <2>1, <2>2, <2>3, FixedActs, NoRivalStep
<1> QED
  BY <1>1, <1>2, <1>3 DEF StepForm

\* With fixed voters no term has two leaders and no leader hears from another one,
\* whatever is lost, repeated or reordered, wherever nodes crash, however non-voters
\* come and go, and although transition_to_follower forgets a leader's vote.
THEOREM FixedVotersElectOneLeader ==
  ASSUME NEW CONSTANT V, VotersFixed(V)
  PROVE  Spec => [](ElectionSafety /\ NoRival)
<1> DEFINE Inv == Typed(FixedConfigs(V)) /\ FixedInv(V) /\ NoRival
<1>1. Init => Inv
  <2>1. ASSUME Init, NEW id \in NodeId PROVE node[id].broken = {}
    <3>1. node[id] = Restarted(id, Boot[id])
      BY <2>1 DEF Init, Restarted
    <3> QED
      BY <3>1 DEF Restarted, Restart, SetElectionTimeout, NewNode
  <2>2. Init => NoRival
    BY <2>1 DEF NoRival
  <2> QED
    BY <2>2, FixedCover, InitTyped, FixedInit
<1>2. Inv /\ [Next]_vars => Inv'
  BY FixedCover, TypedStep, FixedStep
<1>3. Inv => ElectionSafety /\ NoRival
  BY DEF FixedInv
<1> QED
  BY <1>1, <1>2, <1>3, PTL DEF Spec

-----------------------------------------------------------------------------
(* What a call does to the election timer.                                  *)

\* The node leads or has its timer set, or it is as quiet as it was (q) and its log is l.
Waiting(q, l, nd) ==
  ({"log", "role", "actions"} \subseteq DOMAIN nd /\ "set_election_timeout" \in DOMAIN nd.actions)
  => \/ nd.role = "Leader"
     \/ nd.actions.set_election_timeout = TRUE
     \/ q /\ nd.log = l

LEMMA WaitTimer ==
  ASSUME NEW q, NEW l, NEW nd
  PROVE  Waiting(q, l, SetElectionTimeout(nd))
  BY DEF SetElectionTimeout, Waiting

LEMMA WaitAssert ==
  ASSUME NEW q, NEW l, NEW nd, Waiting(q, l, nd), NEW name, NEW holds
  PROVE  Waiting(q, l, DebugAssert(nd, name, holds))
  BY DEF DebugAssert, Waiting

LEMMA WaitTerm ==
  ASSUME NEW q, NEW l, NEW nd, Waiting(q, l, nd), NEW t
  PROVE  Waiting(q, l, SetCurrentTerm(nd, t))
  BY DEF SetCurrentTerm, Waiting

LEMMA WaitVote ==
  ASSUME NEW q, NEW l, NEW nd, Waiting(q, l, nd), NEW v
  PROVE  Waiting(q, l, SetVotedFor(nd, v))
  BY DEF SetVotedFor, Waiting

LEMMA WaitSend ==
  ASSUME NEW q, NEW l, NEW nd, Waiting(q, l, nd), NEW to, NEW m
  PROVE  Waiting(q, l, QueueSend(nd, to, m))
<1> DEFINE queued == nd.actions.send_messages
           old == {queued[d] : d \in DOMAIN queued \cap {to}}
           checked == DebugAssert(nd, "merge term", \A p \in old : p.term <= m.term)
<1>1. Waiting(q, l, checked)
  BY WaitAssert
<1> HIDE DEF checked
<1>2. \A s : Waiting(q, l, [checked EXCEPT !.actions.send_messages = s])
  BY <1>1 DEF Waiting
<1> QED
  BY <1>2 DEF QueueSend, checked

LEMMA WaitInstall ==
  ASSUME NEW q, NEW l, NEW nd, Waiting(q, l, nd), NEW to
  PROVE  Waiting(q, l, QueueInstallSnapshot(nd, to))
  BY DEF QueueInstallSnapshot, Waiting

LEMMA WaitRole ==
  ASSUME NEW q, NEW l, NEW nd, Waiting(q, l, nd), nd.role # "Leader", NEW role
  PROVE  Waiting(q, l, SetRole(nd, role))
  BY DEF SetRole, Waiting

\* A leader or candidate that steps down sets its timer; a follower has not lost its own.
LEMMA WaitFollower ==
  ASSUME NEW q, NEW l, NEW nd, Waiting(q, l, nd), NEW term
  PROVE  Waiting(q, l, TransitionToFollower(nd, term))
<1> DEFINE armed == IF nd.role = "Follower" THEN nd ELSE SetElectionTimeout(nd)
           cast == SetVotedFor(SetCurrentTerm(armed, term), Nil)
           demoted == SetRole(cast, "Follower")
           checked == DebugAssert(demoted, "term regression", nd.current_term <= term)
           Set(a) == ({"log", "role", "actions"} \subseteq DOMAIN a
                        /\ "set_election_timeout" \in DOMAIN a.actions)
                     => a.actions.set_election_timeout = TRUE \/ (q /\ a.log = l)
<1>1. Set(armed)
  BY DEF SetElectionTimeout, Waiting
<1> HIDE DEF armed
<1>2. Set(cast)
  BY <1>1 DEF SetVotedFor, SetCurrentTerm
<1> HIDE DEF cast
<1>3. Set(demoted)
  BY <1>2 DEF SetRole
<1> HIDE DEF demoted
<1>4. Set(checked)
  BY <1>3 DEF DebugAssert
<1> HIDE DEF checked
<1>5. \A s, t : Waiting(q, l, [checked EXCEPT !.actions.broadcast_message = s,
                                              !.actions.send_messages = t])
  BY <1>4 DEF Waiting
<1> QED
  BY <1>5 DEF TransitionToFollower, checked, demoted, cast, armed

\* propose sets the timer, whatever it does besides.
LEMMA WaitPropose ==
  ASSUME NEW q, NEW l, NEW nd, NEW entry, NEW committing
  PROVE  Waiting(q, l, ProposeThen(nd, entry, committing))
  BY WaitTimer DEF ProposeThen, BroadcastProposal

LEMMA WaitUpdate ==
  ASSUME NEW q, NEW l, NEW nd, Waiting(q, l, nd)
  PROVE  Waiting(q, l, UpdateCommitIndexIfPossible(nd))
<1> DEFINE up == AdvanceCommitIndex(nd)
<1>1. Waiting(q, l, up)
  BY DEF AdvanceCommitIndex, Waiting
<1> HIDE DEF up
<1>2. Waiting(q, l, FinalizeJointConsensus(up)) /\ Waiting(q, l, TransitionToFollower(up, up.current_term))
  BY <1>1, WaitPropose, WaitFollower DEF FinalizeJointConsensus
<1> QED
  BY <1>1, <1>2 DEF UpdateCommitIndexIfPossible, CommitThen, up

LEMMA WaitLeader ==
  ASSUME NEW q, NEW l, NEW nd
  PROVE  Waiting(q, l, TransitionToLeader(nd))
  BY WaitPropose DEF TransitionToLeader, Propose

LEMMA WaitCandidate ==
  ASSUME NEW q, NEW l, NEW nd
  PROVE  Waiting(q, l, TransitionToCandidate(nd))
  BY WaitLeader, WaitTimer DEF TransitionToCandidate

LEMMA WaitVoteCall ==
  ASSUME NEW q, NEW l, NEW nd, Waiting(q, l, nd), NEW m
  PROVE  Waiting(q, l, HandleRequestVoteCall(nd, m))
<1> DEFINE voted == IF nd.voted_for = Nil THEN SetVotedFor(nd, m.from) ELSE nd
<1>1. Waiting(q, l, voted)
  BY WaitVote
<1> HIDE DEF voted
<1>2. \A a : Waiting(q, l, SetElectionTimeout(a))
  BY WaitTimer
<1>3. Waiting(q, l, QueueSend(nd, m.from, RequestVoteReply(nd, FALSE)))
  BY WaitSend
<1> QED
  BY <1>1, <1>2, <1>3 DEF HandleRequestVoteCall, voted

LEMMA WaitVoteReply ==
  ASSUME NEW q, NEW l, NEW nd, Waiting(q, l, nd), NEW m
  PROVE  Waiting(q, l, HandleRequestVoteReply(nd, m))
<1> DEFINE voted == [nd EXCEPT !.granted_votes = @ \cup {m.from}]
<1>1. Waiting(q, l, voted)
  BY DEF Waiting
<1> HIDE DEF voted
<1>2. Waiting(q, l, TransitionToLeader(voted))
  BY WaitLeader
<1> QED
  BY <1>1, <1>2 DEF HandleRequestVoteReply, voted

\* A follower that takes entries, or drops its own, sets its timer.
LEMMA WaitAppendCall ==
  ASSUME NEW q, NEW l, NEW nd, Waiting(q, l, nd), NEW m
  PROVE  Waiting(q, l, HandleAppendEntriesCall(nd, m))
<1> DEFINE follower == IF nd.role = "Follower" THEN nd ELSE SetRole(nd, "Follower")
           voted == IF follower.voted_for = m.from THEN follower
                    ELSE SetVotedFor(follower, m.from)
<1>1. ASSUME nd.role # "Leader"
      PROVE  Waiting(q, l, DebugAssert(voted, "LocalSnapshotMismatch", FALSE))
  <2>1. Waiting(q, l, follower)
    BY <1>1, WaitRole
  <2> HIDE DEF follower
  <2>2. Waiting(q, l, voted)
    BY <2>1, WaitVote
  <2> QED
    BY <2>2, WaitAssert
<1>2. Waiting(q, l, DebugAssert(nd, "two leaders", FALSE))
  BY WaitAssert
<1>3. Waiting(q, l, QueueSend(nd, m.from, AppendEntriesReply(nd)))
  BY WaitSend
<1>4. \A a : Waiting(q, l, SetElectionTimeout(a))
  BY WaitTimer
<1> QED
  BY <1>1, <1>2, <1>3, <1>4 DEF HandleAppendEntriesCall

LEMMA WaitAppendReply ==
  ASSUME NEW q, NEW l, NEW nd, Waiting(q, l, nd), NEW m
  PROVE  Waiting(q, l, HandleAppendEntriesReply(nd, m))
<1> DEFINE p == m.last_position
           matched == [nd EXCEPT !.followers[m.from] = p.index]
           advanced == IF nd.followers[m.from] = p.index THEN nd
                       ELSE IF nd.commit_index < p.index THEN UpdateCommitIndexIfPossible(matched)
                       ELSE matched
           call == AppendEntriesCall(advanced, Since(advanced.log.entries, p))
<1>1. Waiting(q, l, matched)
  BY DEF Waiting
<1> HIDE DEF matched
<1>2. Waiting(q, l, advanced)
  BY <1>1, WaitUpdate
<1> HIDE DEF advanced
<1>3. Waiting(q, l, QueueSend(advanced, m.from, call))
  BY <1>2, WaitSend
<1>4. Waiting(q, l, RepairFollower(nd, m.from, p))
  BY WaitSend, WaitInstall DEF RepairFollower
<1> QED
  BY <1>2, <1>3, <1>4 DEF HandleAppendEntriesReply, matched, advanced

LEMMA WaitMessage ==
  ASSUME NEW q, NEW l, NEW nd, Waiting(q, l, nd), NEW m, IsMessage(m)
  PROVE  Waiting(q, l, HandleMessage(nd, m))
<1>1. Waiting(q, l, ObserveTerm(nd, m.term))
  BY WaitFollower DEF ObserveTerm
<1>2. ASSUME NEW a, Waiting(q, l, a) PROVE Waiting(q, l, Dispatch(a, m))
  BY <1>2, WaitVoteCall, WaitVoteReply, WaitAppendCall, WaitAppendReply DEF Dispatch, IsMessage
<1> QED
  BY <1>1, <1>2 DEF HandleMessage

\* After a call a voter leads, has set its timer, or has the log it had and did not lead.
LEMMA CallsWait ==
  ASSUME NEW C, Typed(C), Covering(C), NEW id \in NodeId, NEW nd, Calls(id, nd),
         IsVoter(Config(nd), nd.id), nd.role # "Leader"
  PROVE  \/ nd.actions.set_election_timeout = TRUE
         \/ /\ node[id].role # "Leader"
            /\ node[id].actions.set_election_timeout # TRUE
            /\ nd.log = node[id].log
<1> DEFINE l == node[id].log
           q == node[id].role # "Leader" /\ node[id].actions.set_election_timeout # TRUE
<1>1. Sound(nd, C) /\ nd.id = id
  BY CallsTurns, TurnsEvolves, TypedFacts DEF Evolves
<1>2. Waiting(q, l, node[id])
  BY DEF Waiting
<1> HIDE DEF q, l
<1>3. \A p \in net : p.msg.type # "InstallSnapshot" => IsMessage(p.msg)
  BY DEF Typed, Durable, PacketsDurable
<1>4. ASSUME NEW p \in net, p.msg.type # "InstallSnapshot", nd = HandleMessage(node[id], p.msg)
      PROVE  Waiting(q, l, nd)
  BY <1>2, <1>3, <1>4, WaitMessage
<1>5. ASSUME NEW voters \in Creations, CanCreate(node[id], voters), nd = Created(node[id], voters)
      PROVE  Waiting(q, l, nd)
  <2> DEFINE config == [EmptyConfig EXCEPT !.voters = voters]
             e == ConfigEntry(0, config)
             a == Pushed(node[id], e)
  <2>1. nd = IF IsVoter(config, node[id].id) THEN TransitionToCandidate(a) ELSE a
    BY <1>5 DEF Created, Pushed, CanCreate
  <2>2. config \in C /\ Sound(node[id], C) /\ node[id].id = id /\ node[id].log \in Logs(C)
    BY TypedFacts, SoundLog DEF Covering
  <2>3. e \in Entry(C) /\ e.kind = "ClusterConfig" /\ e.config = config
    BY <2>2 DEF Entry, ConfigEntry
  <2> HIDE DEF config, e
  <2>4. a.log.entries = Push(node[id].log.entries, e)
    <3> DEFINE old == node[id]
    <3> HIDE DEF old
    <3>1. Sound(old, C)
      BY <2>2 DEF old
    <3>2. Pushed(old, e).log.entries = Push(old.log.entries, e)
      BY <2>3, <3>1, PushedFacts, ZenonT(60)
    <3> QED
      BY <3>2 DEF old
  <2> HIDE DEF a
  <2>5. CASE IsVoter(config, node[id].id)
    BY <2>1, <2>5, WaitCandidate
  <2>6. CASE ~IsVoter(config, node[id].id)
    <3>1. LatestConfig(a.log) = e.config
      BY <2>2, <2>3, <2>4, LatestConfigPushed, ZenonT(60)
    <3>2. FALSE
      BY <1>1, <2>1, <2>2, <2>3, <2>6, <3>1 DEF Config
    <3> QED
      BY <3>2
  <2> QED
    BY <2>5, <2>6
<1>6. Waiting(q, l, nd)
  <2>1. \A a, entry : Waiting(q, l, Propose(a, entry))
    BY WaitPropose DEF Propose
  <2>2. \A a : Waiting(q, l, Heartbeat(a)) /\ Waiting(q, l, TransitionToCandidate(a))
    BY WaitTimer, WaitCandidate DEF Heartbeat
  <2> QED
    BY <1>4, <1>5, <2>1, <2>2 DEF Calls
<1>7. /\ {"log", "role", "actions"} \subseteq DOMAIN nd
      /\ "set_election_timeout" \in DOMAIN nd.actions
  BY <1>1 DEF Sound, IsNode, IsRecord, IsActions
<1> QED
  BY <1>6, <1>7 DEF Waiting, q, l

-----------------------------------------------------------------------------
(* The timers of a cluster whose logs are whole.                            *)

\* Every log starts at its first entry, and no snapshot in flight stands for one.
LogsWhole ==
  /\ \A id \in NodeId :
       node[id].log.entries.prev.index = 0 /\ stored[id].log.entries.prev.index = 0
  /\ \A p \in net : p.msg.type = "InstallSnapshot" => p.msg.position.index = 0

TimersRun ==
  /\ timer = [id \in NodeId |-> timer[id]]
  /\ LogsWhole
  /\ VoterTimerRuns

\* The cases of Next, with what they make of the timer.
LEMMA TimerCases ==
  ASSUME Next, ~Snapshots
  PROVE  \/ \E id \in NodeId : \E nd, armed, rest :
              /\ Calls(id, nd)
              /\ armed = timer[id] \/ nd = TransitionToCandidate(node[id])
              /\ rest \subseteq net
              /\ Return(nd, armed, rest)
         \/ \E p \in net : /\ p.to \in NodeId
                           /\ p.msg.type = "InstallSnapshot"
                           /\ IsValidSnapshot(node[p.to], p.msg.position, p.msg.config)
                           /\ InstallStoredSnapshot(node[p.to], p.msg.position, p.msg.config)
                           /\ net' \subseteq net
         \/ \E id \in NodeId : IgnoreElectionTimeout(id) \/ Execute(id) \/ Crash(id)
         \/ UNCHANGED <<node, timer, stored>> /\ net' \subseteq net
<1> DEFINE Some(id) == \E nd, armed, rest : /\ Calls(id, nd)
                                            /\ armed = timer[id] \/ nd = TransitionToCandidate(node[id])
                                            /\ rest \subseteq net
                                            /\ Return(nd, armed, rest)
           Installs(p) == /\ p.to \in NodeId
                          /\ p.msg.type = "InstallSnapshot"
                          /\ IsValidSnapshot(node[p.to], p.msg.position, p.msg.config)
                          /\ InstallStoredSnapshot(node[p.to], p.msg.position, p.msg.config)
                          /\ net' \subseteq net
           Still == UNCHANGED <<node, timer, stored>> /\ net' \subseteq net
<1>1. ASSUME NEW p \in net, p.to \in NodeId, Deliver(p)
      PROVE  Some(p.to) \/ Installs(p) \/ Still
  <2>1. PICK rest \in AfterDelivery(p) :
          IF p.msg.type = "InstallSnapshot" THEN HandleSnapshotInstalled(p.to, p.msg, rest)
          ELSE ReceiveMessage(p.to, p.msg, rest)
    BY <1>1 DEF Deliver
  <2>2. rest \subseteq net
    BY DEF AfterDelivery
  <2>3. CASE p.msg.type # "InstallSnapshot"
    <3>1. Return(HandleMessage(node[p.to], p.msg), timer[p.to], rest)
      BY <2>1, <2>3 DEF ReceiveMessage
    <3>2. Calls(p.to, HandleMessage(node[p.to], p.msg))
      BY <2>3 DEF Calls
    <3> QED
      BY <2>2, <3>1, <3>2
  <2>4. CASE p.msg.type = "InstallSnapshot"
    <3>1. HandleSnapshotInstalled(p.to, p.msg, rest)
      BY <2>1, <2>4
    <3> QED
      BY <1>1, <2>2, <2>4, <3>1 DEF HandleSnapshotInstalled
  <2> QED
    BY <2>3, <2>4
<1>2. ASSUME NEW id \in NodeId, NEW nd, Calls(id, nd), Return(nd, timer[id], net)
      PROVE  Some(id)
  BY <1>2
<1>3. ASSUME NEW id \in NodeId, NEW voters \in Creations, CreateCluster(id, voters)
      PROVE  Some(id)
  <2>1. /\ CanCreate(node[id], voters)
        /\ Return(Created(node[id], voters), timer[id], net)
    BY <1>3 DEF CreateCluster
  <2>2. Calls(id, Created(node[id], voters))
    BY <2>1 DEF Calls
  <2> QED
    BY <1>2, <2>1, <2>2
<1>4. ASSUME NEW id \in NodeId, ProposeCommand(id) PROVE Some(id)
  <2> DEFINE nd == Propose(node[id], CommandEntry(node[id].current_term))
  <2>1. node[id].role = "Leader" /\ Return(nd, timer[id], net)
    BY <1>4 DEF ProposeCommand
  <2>2. Calls(id, nd)
    BY <2>1 DEF Calls
  <2> HIDE DEF nd
  <2> QED
    BY <1>2, <2>1, <2>2
<1>5. ASSUME NEW id \in NodeId, NEW c \in ConfigChanges(Config(node[id])), ProposeConfig(id, c)
      PROVE  Some(id)
  <2> DEFINE nd == Propose(node[id], ConfigEntry(node[id].current_term, c))
  <2>1. /\ node[id].role = "Leader"
        /\ c.voters = Config(node[id]).voters
        /\ c.non_voters \cap UniqueVoters(c) = {}
        /\ Return(nd, timer[id], net)
    BY <1>5 DEF ProposeConfig, UniqueVoters
  <2>2. Calls(id, nd)
    BY <2>1 DEF Calls
  <2> HIDE DEF nd
  <2> QED
    BY <1>2, <2>1, <2>2
<1>6. ASSUME NEW id \in NodeId, LeaderHeartbeat(id) PROVE Some(id)
  <2>1. node[id].role = "Leader" /\ Return(Heartbeat(node[id]), timer[id], net)
    BY <1>6 DEF LeaderHeartbeat
  <2>2. Calls(id, Heartbeat(node[id]))
    BY <2>1 DEF Calls
  <2> QED
    BY <1>2, <2>1, <2>2
<1>7. ASSUME NEW id \in NodeId, StartElection(id) PROVE Some(id)
  <2>1. /\ IsVoter(Config(node[id]), id)
        /\ Return(TransitionToCandidate(node[id]), FALSE, net)
    BY <1>7 DEF StartElection
  <2>2. Calls(id, TransitionToCandidate(node[id]))
    BY <2>1 DEF Calls
  <2> QED
    BY <2>1, <2>2
<1>8. ASSUME NEW id \in NodeId, TakeSnapshot(id) PROVE FALSE
  BY <1>8 DEF TakeSnapshot
<1> HIDE DEF Some, Installs, Still
<1>9. \/ \E id \in NodeId : Some(id)
      \/ \E p \in net : Installs(p)
      \/ \E id \in NodeId : IgnoreElectionTimeout(id) \/ Execute(id) \/ Crash(id)
      \/ Still
  BY <1>1, <1>3, <1>4, <1>5, <1>6, <1>7, <1>8 DEF Next
<1> QED
  BY <1>9 DEF Some, Installs, Still

\* Storage has the boundary of the log it had.
LEMMA PersistBase ==
  ASSUME NEW C, NEW d, d.log \in Logs(C), NEW nd, NEW k
  PROVE  Persist(d, nd, k).log.entries.prev = d.log.entries.prev
<1> DEFINE es == d.log.entries
<1>1. d.log = [snapshot_config |-> d.log.snapshot_config, entries |-> es] /\ es \in Entries(C)
  BY LogFacts
<1>2. "prev" \in DOMAIN es
  BY <1>1 DEF Entries
<1> HIDE DEF es
<1>3. \A e : AppendSuffix(es, e).prev = es.prev
  BY <1>2 DEF AppendSuffix, AppendUnchecked
<1>4. Persist(d, nd, k).log = d.log
      \/ \E e : Persist(d, nd, k).log = [d.log EXCEPT !.entries = AppendSuffix(@, e)]
  BY DEF Persist
<1> QED
  BY <1>1, <1>3, <1>4 DEF es

LEMMA StorageWhole ==
  ASSUME NEW C, Typed(C), TimersRun, NEW x \in NodeId, NEW nd, NEW k
  PROVE  Persist(stored[x], nd, k).log.entries.prev.index = 0
<1> DEFINE d == stored[x]
<1>1. d.log \in Logs(C)
  BY TypedFacts
<1>2. d.log.entries.prev.index = 0
  BY DEF TimersRun, LogsWhole
<1> HIDE DEF d
<1>3. Persist(d, nd, k).log.entries.prev = d.log.entries.prev
  BY <1>1, PersistBase
<1>4. Persist(d, nd, k).log.entries.prev.index = 0
  BY <1>2, <1>3
<1> QED
  BY <1>4 DEF d

\* Node x takes a step.
LEMMA TimerOne ==
  ASSUME NEW C, Typed(C), TimersRun, NEW x \in NodeId, NEW nd, NEW d, NEW running,
         node' = [node EXCEPT ![x] = nd], stored' = [stored EXCEPT ![x] = d],
         timer' = [timer EXCEPT ![x] = running],
         nd.log.entries.prev.index = 0, d.log.entries.prev.index = 0,
         (IsVoter(Config(nd), x) /\ nd.role # "Leader")
           => running \/ nd.actions.set_election_timeout,
         \A p \in net' : p \in net \/ (p.msg.type = "InstallSnapshot" => p.msg.position.index = 0)
  PROVE  TimersRun'
<1>1. DOMAIN timer = NodeId /\ DOMAIN node = NodeId /\ DOMAIN stored = NodeId
  BY TypedFacts DEF TimersRun
<1>2. /\ node'[x] = nd /\ stored'[x] = d /\ timer'[x] = running
      /\ \A y \in NodeId : y # x => /\ node'[y] = node[y]
                                    /\ stored'[y] = stored[y]
                                    /\ timer'[y] = timer[y]
  BY <1>1
<1>3. LogsWhole'
  <2>1. ASSUME NEW y \in NodeId
        PROVE  node'[y].log.entries.prev.index = 0 /\ stored'[y].log.entries.prev.index = 0
    BY <1>2 DEF TimersRun, LogsWhole
  <2>2. \A p \in net' : p.msg.type = "InstallSnapshot" => p.msg.position.index = 0
    BY DEF TimersRun, LogsWhole
  <2> QED
    BY <2>1, <2>2 DEF LogsWhole
<1>4. VoterTimerRuns'
  <2>1. ASSUME NEW y \in NodeId, IsVoter(Config(node'[y]), y), node'[y].role # "Leader"
        PROVE  timer'[y] \/ node'[y].actions.set_election_timeout
    <3>1. CASE y = x
      BY <1>2, <2>1, <3>1
    <3>2. CASE y # x
      <4>1. /\ node'[y] = node[y] /\ timer'[y] = timer[y]
            /\ IsVoter(Config(node[y]), y) /\ node[y].role # "Leader"
        BY <1>2, <2>1, <3>2
      <4> QED
        BY <4>1 DEF TimersRun, VoterTimerRuns
    <3> QED
      BY <3>1, <3>2
  <2> QED
    BY <2>1 DEF VoterTimerRuns
<1>5. timer' = [y \in NodeId |-> timer'[y]]
  BY <1>1
<1> QED
  BY <1>3, <1>4, <1>5 DEF TimersRun

\* The first k actions of nd are executed: the timer is set if that was asked for.
LEMMA TimerExecuted ==
  ASSUME NEW C, Typed(C), TimersRun, NEW x \in NodeId, NEW nd, Sound(nd, C), nd.id = x,
         nd.log.entries.prev.index = 0, NEW armed, NEW rest, rest \subseteq net,
         NEW k \in 1 .. 4, ExecuteUpTo(nd, k, armed, rest),
         (IsVoter(Config(nd), x) /\ nd.role # "Leader")
           => armed \/ nd.actions.set_election_timeout
  PROVE  TimersRun'
<1> DEFINE nd2 == Executed(nd, k)
           d == Persist(stored[x], nd, k)
           running == armed \/ nd.actions.set_election_timeout
<1>1. SameState(nd, nd2)
  BY ExecutedSound
<1>2. nd2.log = nd.log /\ nd2.role = nd.role
  BY <1>1 DEF SameState
<1>3. /\ node' = [node EXCEPT ![x] = nd2]
      /\ stored' = [stored EXCEPT ![x] = d]
      /\ timer' = [timer EXCEPT ![x] = running]
      /\ \A p \in net' : p \in net \/ p \in Outbound(nd)
  BY DEF ExecuteUpTo
<1>4. d.log.entries.prev.index = 0
  BY StorageWhole
<1>5. \A p \in Outbound(nd) : p.msg.type = "InstallSnapshot" => p.msg.position.index = 0
  BY OutboundSnapshots
<1>6. Config(nd2) = Config(nd)
  BY <1>2 DEF Config
<1>7. (IsVoter(Config(nd2), x) /\ nd2.role # "Leader")
        => running \/ nd2.actions.set_election_timeout
  BY <1>2, <1>6
<1> HIDE DEF nd2, d, running
<1>8. nd2.log.entries.prev.index = 0
  BY <1>2
<1>9. \A p \in net' : p \in net \/ (p.msg.type = "InstallSnapshot" => p.msg.position.index = 0)
  BY <1>3, <1>5
<1> QED
  BY <1>3, <1>4, <1>7, <1>8, <1>9, TimerOne

LEMMA TimerRestart ==
  ASSUME NEW C, Typed(C), TimersRun, NEW x \in NodeId, NEW d, d.log.entries.prev.index = 0,
         RestartFrom(x, d), net' \subseteq net
  PROVE  TimersRun'
<1>1. PICK nd : nd = Restarted(x, d)
  OBVIOUS
<1>2. /\ node' = [node EXCEPT ![x] = nd]
      /\ stored' = [stored EXCEPT ![x] = d]
      /\ timer' = [timer EXCEPT ![x] = TRUE]
  BY <1>1 DEF RestartFrom, Restarted
<1>3. nd.log = d.log
  BY <1>1 DEF Restarted, Restart, SetElectionTimeout, NewNode
<1> QED
  BY <1>2, <1>3, TimerOne

\* What a call leaves to its user.
LEMMA TimerReturn ==
  ASSUME NEW C, Typed(C), Covering(C), TimersRun, NEW x \in NodeId, NEW nd, NEW armed, NEW rest,
         Calls(x, nd), armed = timer[x] \/ nd = TransitionToCandidate(node[x]),
         rest \subseteq net, Return(nd, armed, rest)
  PROVE  TimersRun'
<1>1. Sound(nd, C) /\ nd.id = x
  BY CallsTurns, TurnsEvolves, TypedFacts DEF Evolves
<1>2. nd.log.entries.prev.index = 0
  BY CallsBase DEF TimersRun, LogsWhole
<1>3. /\ nd.actions.set_election_timeout \in BOOLEAN
      /\ node[x].actions.set_election_timeout \in BOOLEAN
      /\ {"log", "role", "actions"} \subseteq DOMAIN nd
      /\ "set_election_timeout" \in DOMAIN nd.actions
  <2>1. IsNode(nd) /\ IsNode(node[x])
    BY <1>1, TypedFacts DEF Sound
  <2> QED
    BY <2>1 DEF IsNode, IsActions, IsRecord
<1>4. ASSUME IsVoter(Config(nd), x), nd.role # "Leader"
      PROVE  armed \/ nd.actions.set_election_timeout
  <2>1. CASE nd = TransitionToCandidate(node[x])
    <3>1. Waiting(FALSE, nd.log, nd)
      BY <2>1, WaitCandidate
    <3> QED
      BY <1>3, <1>4, <3>1 DEF Waiting
  <2>2. CASE armed = timer[x]
    <3>1. CASE nd.actions.set_election_timeout = TRUE
      BY <3>1
    <3>2. CASE /\ node[x].role # "Leader"
               /\ node[x].actions.set_election_timeout # TRUE
               /\ nd.log = node[x].log
      <4>1. IsVoter(Config(node[x]), x)
        BY <1>4, <3>2 DEF Config
      <4>2. timer[x] \/ node[x].actions.set_election_timeout
        BY <3>2, <4>1 DEF TimersRun, VoterTimerRuns
      <4> QED
        BY <1>3, <2>2, <3>2, <4>2
    <3> QED
      BY <1>1, <1>4, <3>1, <3>2, CallsWait
  <2> QED
    BY <2>1, <2>2
<1>5. CASE ExecuteUpTo(nd, 4, armed, rest)
  <2>1. 4 \in 1 .. 4
    OBVIOUS
  <2> QED
    BY <1>1, <1>2, <1>4, <1>5, <2>1, TimerExecuted
<1>6. CASE \E k \in 0 .. 2 : RestartFrom(nd.id, Persist(stored[nd.id], nd, k)) /\ net' = rest
  <2>1. PICK k \in 0 .. 2 : RestartFrom(nd.id, Persist(stored[nd.id], nd, k)) /\ net' = rest
    BY <1>6
  <2> DEFINE d == Persist(stored[x], nd, k)
  <2>2. RestartFrom(x, d) /\ net' \subseteq net
    BY <1>1, <2>1
  <2>3. d.log.entries.prev.index = 0
    BY StorageWhole
  <2> HIDE DEF d
  <2> QED
    BY <2>2, <2>3, TimerRestart
<1>7. CASE /\ node' = [node EXCEPT ![nd.id] = nd]
           /\ timer' = [timer EXCEPT ![nd.id] = armed]
           /\ net' = rest
           /\ UNCHANGED stored
  <2> DEFINE d == stored[x]
  <2>1. stored' = [stored EXCEPT ![x] = d]
    <3>1. stored = [y \in NodeId |-> stored[y]]
      BY DEF Typed, Durable, NodesDurable
    <3>2. stored = [stored EXCEPT ![x] = stored[x]]
      BY <3>1
    <3> QED
      BY <1>7, <3>2
  <2>2. d.log.entries.prev.index = 0
    BY DEF TimersRun, LogsWhole
  <2>3. \A p \in net' : p \in net
    BY <1>7
  <2> HIDE DEF d
  <2> QED
    BY <1>1, <1>2, <1>4, <1>7, <2>1, <2>2, <2>3, TimerOne
<1> QED
  BY <1>5, <1>6, <1>7 DEF Return

\* A snapshot that stands for nothing changes nothing in a log.
LEMMA EmptySnapshot ==
  ASSUME NEW C, NEW log \in Logs(C), log.entries.prev.index = 0, NEW p \in Position,
         p.index = 0, Contains(log.entries, p), NEW config, GetConfig(log, 0) = config
  PROVE  InstallInLog(log, p, config) = log
<1> DEFINE es == log.entries
<1>1. log = [snapshot_config |-> log.snapshot_config, entries |-> es] /\ es \in Entries(C)
  BY LogFacts
<1>2. es = [prev |-> es.prev, ents |-> es.ents] /\ es.prev \in Position /\ es.ents \in Seq(Entry(C))
  BY <1>1 DEF Entries
<1>3. p = es.prev
  BY <1>2 DEF Contains, TermAt, Position
<1>4. SubSeq(es.ents, p.index - es.prev.index + 1, Len(es.ents)) = es.ents
  BY <1>2
<1>5. Since(es, p) = es
  BY <1>2, <1>3, <1>4 DEF Since
<1>6. config = log.snapshot_config
  <2>1. es.prev.index + 1 .. 0 = {}
    BY <1>2
  <2> QED
    BY <2>1 DEF GetConfig
<1> QED
  BY <1>1, <1>5, <1>6 DEF InstallInLog

LEMMA TimerInstalled ==
  ASSUME NEW C, Typed(C), TimersRun, NEW p \in net, p.to \in NodeId,
         p.msg.type = "InstallSnapshot",
         IsValidSnapshot(node[p.to], p.msg.position, p.msg.config),
         InstallStoredSnapshot(node[p.to], p.msg.position, p.msg.config),
         net' \subseteq net
  PROVE  TimersRun'
<1> DEFINE x == p.to
           a == node[x]
           r == p.msg.position
           config == p.msg.config
           nd == InstallSnapshot(a, r, config)
           d == [stored[x] EXCEPT !.log = InstallInLog(@, r, config)]
<1>1. /\ Sound(a, C) /\ IsRecord(a) /\ a.id = x /\ a.log \in Logs(C)
      /\ a.commit_index \in Nat
      /\ IsActions(a.actions)
      /\ IsDisk(stored[x])
  BY TypedFacts, SoundLog DEF Sound, IsNode, Backs
<1>2. r \in Position /\ r.index = 0 /\ a.log.entries.prev.index = 0
  <2>1. PacketOK(p, C)
    BY DEF Typed
  <2> QED
    BY <2>1 DEF PacketOK, IsSnapshot, TimersRun, LogsWhole
<1>3. Contains(a.log.entries, r) /\ GetConfig(a.log, 0) = config
  <2>1. ~(a.commit_index < r.index)
    BY <1>1, <1>2
  <2> QED
    BY <1>2, <2>1 DEF IsValidSnapshot
<1>4. InstallInLog(a.log, r, config) = a.log
  BY <1>1, <1>2, <1>3, EmptySnapshot
<1>5. /\ nd.log = a.log
      /\ nd.role = a.role
      /\ nd.actions.set_election_timeout = a.actions.set_election_timeout
  BY <1>1, <1>4 DEF InstallSnapshot, IsRecord, IsActions
<1>6. /\ node' = [node EXCEPT ![x] = nd]
      /\ stored' = [stored EXCEPT ![x] = d]
      /\ timer' = [timer EXCEPT ![x] = timer[x]]
  <2>1. timer = [timer EXCEPT ![x] = timer[x]]
    <3>1. timer = [y \in NodeId |-> timer[y]]
      BY DEF TimersRun
    <3> QED
      BY <3>1
  <2>2. timer' = timer
    BY DEF InstallStoredSnapshot
  <2> QED
    BY <1>1, <2>1, <2>2 DEF InstallStoredSnapshot
<1>7. d.log.entries.prev.index = 0
  <2>1. d.log = InstallInLog(stored[x].log, r, config)
    BY <1>1 DEF IsDisk
  <2>2. d.log.entries.prev = r
    BY <2>1 DEF InstallInLog, Since, NewEntries
  <2> QED
    BY <1>2, <2>2
<1> HIDE DEF nd, d
<1>8. (IsVoter(Config(nd), x) /\ nd.role # "Leader")
        => timer[x] \/ nd.actions.set_election_timeout
  <2>1. Config(nd) = Config(a)
    BY <1>5 DEF Config
  <2> QED
    BY <1>5, <2>1 DEF TimersRun, VoterTimerRuns
<1>9. \A q \in net' : q \in net
  OBVIOUS
<1>10. nd.log.entries.prev.index = 0
  BY <1>2, <1>5
<1> HIDE DEF x
<1>11. x \in NodeId
  BY DEF x
<1> QED
  BY <1>6, <1>7, <1>8, <1>9, <1>10, <1>11, TimerOne

LEMMA TimerStep ==
  ASSUME NEW C, Typed(C), Covering(C), ~Snapshots, TimersRun, [Next]_vars
  PROVE  TimersRun'
<1>1. ASSUME NEW x \in NodeId, NEW nd, NEW armed, NEW rest, Calls(x, nd),
             armed = timer[x] \/ nd = TransitionToCandidate(node[x]),
             rest \subseteq net, Return(nd, armed, rest)
      PROVE  TimersRun'
  BY <1>1, TimerReturn
<1>2. ASSUME NEW p \in net, p.to \in NodeId, p.msg.type = "InstallSnapshot",
             IsValidSnapshot(node[p.to], p.msg.position, p.msg.config),
             InstallStoredSnapshot(node[p.to], p.msg.position, p.msg.config),
             net' \subseteq net
      PROVE  TimersRun'
  BY <1>2, TimerInstalled
<1>3. ASSUME NEW x \in NodeId, IgnoreElectionTimeout(x) PROVE TimersRun'
  <2> DEFINE nd == node[x]
             d == stored[x]
  <2>1. /\ node' = [node EXCEPT ![x] = nd]
        /\ stored' = [stored EXCEPT ![x] = d]
        /\ timer' = [timer EXCEPT ![x] = FALSE]
        /\ net' = net
        /\ ~IsVoter(Config(nd), x)
    <3>1. /\ node = [y \in NodeId |-> node[y]]
          /\ stored = [y \in NodeId |-> stored[y]]
      BY DEF Typed, Durable, NodesDurable
    <3>2. node = [node EXCEPT ![x] = node[x]] /\ stored = [stored EXCEPT ![x] = stored[x]]
      BY <3>1
    <3> QED
      BY <1>3, <3>2 DEF IgnoreElectionTimeout
  <2>2. nd.log.entries.prev.index = 0 /\ d.log.entries.prev.index = 0
    BY DEF TimersRun, LogsWhole
  <2> HIDE DEF nd, d
  <2> QED
    BY <2>1, <2>2, TimerOne
<1>4. ASSUME NEW x \in NodeId, Execute(x) PROVE TimersRun'
  <2>1. PICK k \in 1 .. 4 : ExecuteUpTo(node[x], k, timer[x], net)
    BY <1>4 DEF Execute
  <2> DEFINE nd == node[x]
             armed == timer[x]
  <2>2. Sound(nd, C) /\ nd.id = x
    BY TypedFacts
  <2>3. /\ nd.log.entries.prev.index = 0
        /\ (IsVoter(Config(nd), x) /\ nd.role # "Leader")
             => armed \/ nd.actions.set_election_timeout
    BY DEF TimersRun, LogsWhole, VoterTimerRuns
  <2>4. ExecuteUpTo(nd, k, armed, net)
    BY <2>1
  <2> HIDE DEF nd, armed
  <2> QED
    BY <2>2, <2>3, <2>4, TimerExecuted
<1>5. ASSUME NEW x \in NodeId, Crash(x) PROVE TimersRun'
  <2> DEFINE d == stored[x]
  <2>1. RestartFrom(x, d) /\ net' \subseteq net
    BY <1>5 DEF Crash
  <2>2. d.log.entries.prev.index = 0
    BY DEF TimersRun, LogsWhole
  <2> HIDE DEF d
  <2> QED
    BY <2>1, <2>2, TimerRestart
<1>6. ASSUME UNCHANGED <<node, timer, stored>>, net' \subseteq net PROVE TimersRun'
  BY <1>6 DEF TimersRun, LogsWhole, VoterTimerRuns
<1>7. CASE Next
  BY <1>1, <1>2, <1>3, <1>4, <1>5, <1>6, <1>7, TimerCases
<1>8. CASE UNCHANGED vars
  BY <1>6, <1>8 DEF vars
<1> QED
  BY <1>7, <1>8

\* As long as no log is compacted, a voter that does not lead has its election timer running
\* or about to be set: whatever call changes a log (handle_append_entries_call, create_cluster,
\* propose) or a role, and whenever the user executes the actions, drops them in a crash or
\* lets them merge. (A snapshot may make a voter of a node whose timer has expired.)
THEOREM VotersWait ==
  ASSUME ~Snapshots, \A id \in NodeId : Boot[id].log.entries.prev.index = 0
  PROVE  Spec => []VoterTimerRuns
<1>1. Init => TimersRun
  <2> SUFFICES ASSUME Init PROVE TimersRun
    OBVIOUS
  <2>1. ASSUME NEW id \in NodeId
        PROVE  /\ node[id].log.entries.prev.index = 0
               /\ stored[id].log.entries.prev.index = 0
               /\ timer[id]
    <3>1. node[id] = Restarted(id, Boot[id]) /\ stored[id] = Boot[id] /\ timer[id]
      BY DEF Init, Restarted
    <3>2. node[id].log = Boot[id].log
      BY <3>1 DEF Restarted, Restart, SetElectionTimeout, NewNode
    <3> QED
      BY <3>1, <3>2
  <2>2. timer = [id \in NodeId |-> timer[id]] /\ net = {}
    BY DEF Init
  <2> QED
    BY <2>1, <2>2 DEF TimersRun, LogsWhole, VoterTimerRuns
<1>2. Typed(Configs) /\ TimersRun /\ [Next]_vars => TimersRun'
  BY ConfigsCover, TimerStep
<1>3. TimersRun => VoterTimerRuns
  BY DEF TimersRun
<1> QED
  BY <1>1, <1>2, <1>3, AlwaysTyped, PTL DEF Spec
=============================================================================
