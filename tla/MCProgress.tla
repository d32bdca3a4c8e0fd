----------------------------- MODULE MCProgress -----------------------------
(***************************************************************************)
(* Instances of Progress for TLC: the trials.                              *)
(***************************************************************************)
EXTENDS ProgressProperties

CONSTANTS n1, n2, n3

Everyone == [EmptyConfig EXCEPT !.voters = NodeId]

\* n1 created a cluster of all nodes and led term 1; all stored its log and restarted.
FoundedBoot ==
  [id \in NodeId |->
     [current_term |-> 1, voted_for |-> n1,
      log |-> [EmptyLog EXCEPT !.entries.ents = <<ConfigEntry(0, Everyone), TermEntry(1)>>]]]

\* Nodes started by Node::start on nothing.
FreshBoot == [id \in NodeId |-> [current_term |-> 0, voted_for |-> Nil, log |-> EmptyLog]]

\* Elections, commands and lost messages.
Elections ==
  [boot |-> FoundedBoot, voter_changes |-> {}, creations |-> {}, restarts |-> FALSE,
   snapshots |-> FALSE, filtering |-> FALSE, term |-> 2, max_index |-> 3, splits |-> 0]

\* Nodes restart.
Restarting == [Elections EXCEPT !.restarts = TRUE]

\* One of the voters is removed and may not learn of it.
Leaving == [Elections EXCEPT !.voter_changes = {<<{}, {id}>> : id \in NodeId},
                             !.filtering = TRUE, !.max_index = 4]

\* Nodes compact their logs while others lag behind; timers coincide once in the calm.
Compacting == [Elections EXCEPT !.snapshots = TRUE, !.splits = 1]

\* One of the nodes creates a cluster.
Founding == [Elections EXCEPT !.boot = FreshBoot, !.creations = {NodeId}, !.restarts = TRUE,
                              !.term = 1, !.max_index = 2, !.splits = 1]

\* One of the nodes creates a cluster of the two others.
FoundingOthers == [Elections EXCEPT !.boot = FreshBoot, !.creations = {{n2, n3}}]

AllTrials ==
  [restarting |-> Restarting, leaving |-> Leaving, compacting |-> Compacting,
   founding |-> Founding]
FoundOtherTrial == [foundingOthers |-> FoundingOthers]
=============================================================================
