------------------------------ MODULE Progress ------------------------------
(***************************************************************************)
(* What a cluster of Nodes eventually does: a time of trouble, in which    *)
(* links lose and reorder messages, timers expire at any moment and nodes  *)
(* restart, is followed by a calm in which they work as the harness of the *)
(* property tests sets them up (src/pbt/src/lib.rs).                       *)
(*                                                                         *)
(* In the calm a majority of every configuration runs, no message is lost, *)
(* and time passes in periods.  A period is longer than any exchange of    *)
(* messages.  The timer of a leader runs for one period, that of a         *)
(* follower for MaxAge periods and that of a candidate for one to MaxAge   *)
(* (reset_election_timeout: the minimum, the maximum, a random duration).  *)
(* Random durations may coincide, so that a timer expires before the       *)
(* messages of another one are handled, but not for ever: a number of times. *)
(*                                                                         *)
(* A call's actions are executed whole before the node's next call.        *)
(***************************************************************************)
EXTENDS Handlers

CONSTANTS
  Trials,        \* what happens in the time of trouble: names -> records, one of which
                 \* a behaviour follows
    \* boot           NodeId -> durable state the nodes start from
    \* voter_changes  set of <<adding, removing>> given to to_joint_consensus
    \* creations      sets of initial voters given to create_cluster
    \* restarts       may a node restart?
    \* snapshots      may a node compact its log?
    \* filtering      does the user drop what could_be_disruptive_request_vote tells?
    \* term           no election starts after this term in the time of trouble
    \* max_index      nothing is proposed after a log has this many entries
    \* splits         timers of the calm that expire while messages are on the way
  MaxTerm,       \* no election starts after this term in the calm
  MaxInFlight,   \* capacity of the links in the time of trouble
  MaxAge         \* periods after which a follower's timer expires

ASSUME ProgressBounds ==
  /\ {MaxTerm, MaxInFlight} \subseteq Nat
  /\ MaxAge \in Nat \ {0, 1}
  /\ \A name \in DOMAIN Trials : LET t == Trials[name] IN /\ {t.term, t.max_index, t.splits} \subseteq Nat
                        /\ {t.restarts, t.snapshots, t.filtering} \subseteq BOOLEAN

VARIABLES
  trial,     \* name of the trial this behaviour follows
  node,      \* the Node of each id
  timer,     \* 0: not running; k: it has run for k - 1 periods
  net,       \* [to, msg] on the way
  up,        \* the nodes that run
  calm,      \* has the calm begun?
  splits,    \* timers that may still coincide
  clock,     \* parity of the periods of the calm
  proposed   \* history: the positions that a proposal returned

vars == <<trial, node, timer, net, up, calm, splits, clock, proposed>>

\* The bounds of this behaviour.
This == Trials[trial]

-----------------------------------------------------------------------------
\* What the nodes of a set give to the links.
Packets(nds) ==
  UNION {
    {[to |-> p, msg |-> m] : p \in Peers(nd), m \in nd.actions.broadcast_message}
      \cup {[to |-> p, msg |-> nd.actions.send_messages[p]] : p \in DOMAIN nd.actions.send_messages}
      \cup {[to |-> p, msg |-> [type |-> "InstallSnapshot", position |-> nd.log.entries.prev,
                                config |-> nd.log.snapshot_config]] :
              p \in nd.actions.install_snapshots} : nd \in nds}

\* Links: in the calm every message to a node that runs is on the way.
Send(rest, packets) ==
  IF calm THEN net' = rest \cup {p \in packets : p.to \in up}
  ELSE \E sent \in SUBSET packets :
         /\ Cardinality(rest \cup sent) <= MaxInFlight
         /\ net' = rest \cup sent

Done(nd) == [nd EXCEPT !.actions = NoActions]

Timer(nd, before) == IF nd.actions.set_election_timeout THEN 1 ELSE before

\* A call has left nd; its actions are executed.
Return(nd, before, rest) ==
  /\ node' = [node EXCEPT ![nd.id] = Done(nd)]
  /\ timer' = [timer EXCEPT ![nd.id] = Timer(nd, before)]
  /\ Send(rest, Packets({nd}))

-----------------------------------------------------------------------------
(* Messages. *)

Installed(nd, m) ==
  IF IsValidSnapshot(nd, m.position, m.config) THEN InstallSnapshot(nd, m.position, m.config)
  ELSE nd

Filtered(nd, m) == This.filtering /\ CouldBeDisruptiveRequestVote(nd, m)

Deliver(p) ==
  LET nd == node[p.to] IN
  /\ Return(CASE p.msg.type = "InstallSnapshot" -> Installed(nd, p.msg)
              [] p.msg.type # "InstallSnapshot" /\ Filtered(nd, p.msg) -> nd
              [] OTHER -> HandleMessage(nd, p.msg),
            timer[p.to], net \ {p})
  /\ UNCHANGED <<trial, up, calm, splits, clock, proposed>>

-----------------------------------------------------------------------------
(* The time of trouble. *)

ExpireAnyTime(id) ==
  /\ timer[id] > 0
  /\ node[id].role = "Leader" \/ node[id].current_term < This.term
  /\ Return(HandleElectionTimeout(node[id]), 0, net)
  /\ UNCHANGED <<trial, up, calm, splits, clock, proposed>>

CreateCluster(id, voters) ==
  /\ \A other \in NodeId : LastPosition(node[other].log.entries) = ZERO
  /\ CanCreate(node[id], voters)
  /\ Return(Created(node[id], voters), timer[id], net)
  /\ proposed' = proposed \cup {Pos(0, 1)}
  /\ UNCHANGED <<trial, up, calm, splits, clock>>

\* propose_command and propose_config: the position of the entry is returned.
ProposeEntry(id, entry) ==
  LET nd == node[id] IN
  /\ nd.role = "Leader"
  /\ LastIndex(nd.log.entries) < This.max_index
  /\ Return(Propose(nd, entry), timer[id], net)
  /\ proposed' = proposed \cup {Pos(nd.current_term, LastIndex(nd.log.entries) + 1)}
  /\ UNCHANGED <<trial, up, calm, splits, clock>>

ProposeCommand(id) == ProposeEntry(id, CommandEntry(node[id].current_term))

ProposeConfig(id) ==
  /\ ~IsJointConsensus(Config(node[id]))
  /\ \E change \in This.voter_changes :
       ProposeEntry(id, ConfigEntry(node[id].current_term,
                                    ToJointConsensus(Config(node[id]), change[1], change[2])))

Compact(id) ==
  LET nd == node[id]
      p == Pos(TermAt(nd.log.entries, nd.commit_index), nd.commit_index)
  IN  /\ This.snapshots
      /\ nd.commit_index > nd.log.entries.prev.index
      /\ IsValidSnapshot(nd, p, GetConfig(nd.log, p.index))
      /\ Return(InstallSnapshot(nd, p, GetConfig(nd.log, p.index)), timer[id], net)
      /\ UNCHANGED <<trial, up, calm, splits, clock, proposed>>

RestartNode(id) ==
  LET nd == node[id] IN
  /\ This.restarts
  /\ Return(Restart(id, [current_term |-> nd.current_term, voted_for |-> nd.voted_for,
                         log |-> nd.log]), 0, net)
  /\ UNCHANGED <<trial, up, calm, splits, clock, proposed>>

\* The calm begins: some nodes never run again, but a majority of each
\* configuration does.
BeginCalm ==
  /\ ~calm
  /\ calm' = TRUE
  /\ up' \in {u \in SUBSET NodeId : \A id \in NodeId : Wins(u, Config(node[id]))}
  /\ net' = {p \in net : p.to \in up'}
  /\ UNCHANGED <<trial, node, timer, splits, clock, proposed>>

Trouble ==
  /\ ~calm
  /\ \/ \E p \in net : p.to \in NodeId /\ Deliver(p)
     \/ \E id \in NodeId :
          \/ ExpireAnyTime(id)
          \/ \E voters \in This.creations : CreateCluster(id, voters)
          \/ ProposeCommand(id)
          \/ ProposeConfig(id)
          \/ Compact(id)
          \/ RestartNode(id)

-----------------------------------------------------------------------------
(* The calm. *)

Leaders == {id \in up : node[id].role = "Leader" /\ timer[id] > 0}
Waiting == {id \in up : node[id].role # "Leader" /\ timer[id] > 0}

\* The timer of a node that waits has run out.
RunOut(id) ==
  IF node[id].role = "Follower" THEN timer[id] = MaxAge + 1 ELSE timer[id] > 1

CanExpire(id) ==
  /\ id \in Waiting
  /\ RunOut(id)
  /\ node[id].current_term < MaxTerm
  /\ net = {} \/ splits > 0

Expire(id) ==
  /\ CanExpire(id)
  /\ splits' = IF net = {} THEN splits ELSE splits - 1
  /\ Return(HandleElectionTimeout(node[id]), 0, net)
  /\ UNCHANGED <<trial, up, calm, clock, proposed>>

\* No timer runs out twice in a period (it stays run out at the bound on terms).
PeriodEnds ==
  /\ net = {}
  /\ \A id \in Waiting : timer[id] > MaxAge => node[id].current_term = MaxTerm

\* At the end of a period the leaders send their heartbeats.
Period ==
  LET beat == [id \in NodeId |-> IF id \in Leaders THEN HandleElectionTimeout(node[id])
                                 ELSE node[id]]
  IN  /\ PeriodEnds
      /\ clock' = 1 - clock
      /\ node' = [id \in NodeId |-> Done(beat[id])]
      /\ timer' = [id \in NodeId |-> IF id \in Leaders THEN Timer(beat[id], 0)
                                     ELSE IF id \in Waiting THEN Min({timer[id] + 1, MaxAge + 1})
                                     ELSE timer[id]]
      /\ Send({}, Packets({beat[id] : id \in Leaders}))
      /\ UNCHANGED <<trial, up, calm, splits, proposed>>

Calm ==
  /\ calm
  /\ \/ \E p \in net : Deliver(p)
     \/ \E id \in NodeId : Expire(id)
     \/ Period

-----------------------------------------------------------------------------
Init ==
  /\ trial \in DOMAIN Trials
  /\ node = [id \in NodeId |-> Done(Restart(id, This.boot[id]))]
  /\ timer = [id \in NodeId |-> IF This.boot[id].log = EmptyLog THEN 0 ELSE 1]
  /\ net = {}
  /\ up = NodeId
  /\ calm = FALSE
  /\ splits = This.splits
  /\ clock = 0
  /\ proposed = {}

Next == Trouble \/ BeginCalm \/ Calm

\* Weak fairness of Calm.  Each of its steps changes vars, so that it is enabled if and
\* only if one of the guards holds (TLC evaluates them faster than ENABLED).
CanMove == calm /\ (net # {} \/ (\E id \in NodeId : CanExpire(id)) \/ PeriodEnds)

CalmGoesOn == []<>~CanMove \/ []<><<calm>>_vars

\* The trouble ends some time, and the calm goes on: messages arrive and timers run.
Spec == Init /\ [][Next]_vars /\ WF_vars(BeginCalm) /\ CalmGoesOn
=============================================================================
