----------------------------- MODULE MCHarness -----------------------------
(***************************************************************************)
(* Instances of Harness for TLC: the trials.                               *)
(***************************************************************************)
EXTENDS HarnessProperties, TLC

CONSTANTS n1, n2, n3

Everyone == [EmptyConfig EXCEPT !.voters = NodeId]

\* n1 created a cluster of all nodes and led term 1; all stored its log and restarted.
FoundedBoot ==
  [id \in NodeId |->
     [current_term |-> 1, voted_for |-> n1,
      log |-> [EmptyLog EXCEPT !.entries.ents = <<ConfigEntry(0, Everyone), TermEntry(1)>>]]]

\* Nodes that were never started.
FreshBoot ==
  [id \in NodeId |-> [current_term |-> 0, voted_for |-> Nil, log |-> EmptyLog]]

\* Elections of one term after FoundedBoot, one message at a time.
Quiet ==
  [boot |-> FoundedBoot, lost_writes |-> {}, snapshots |-> FALSE, max_term |-> 2,
   max_index |-> 4, max_incoming |-> 1, max_due |-> 1, restarting |-> {},
   max_restarts |-> 0, down |-> {}]

\* Voters stop in the middle of a write and start again.
Stops == [Quiet EXCEPT !.max_index = 3, !.restarting = {n2, n3}, !.max_restarts = 1]

\* Users compact logs, also while a write is in flight, and a node may stop while a snapshot is on its way to it.
Compacts == [Quiet EXCEPT !.snapshots = TRUE, !.max_index = 3, !.restarting = {n1},
                          !.max_restarts = 1]

\* A tick handles several messages; one of the three nodes is down.
Batches == [Quiet EXCEPT !.down = {n1}, !.max_term = 3, !.max_incoming = 2, !.max_due = 2]

\* A cluster is created, and the node that does so may stop.
Creates == [Quiet EXCEPT !.boot = FreshBoot, !.max_term = 1, !.max_index = 2,
                         !.restarting = {n1}, !.max_restarts = 1]

\* A test proposes whatever the leader is doing.
Hasty == [Quiet EXCEPT !.lost_writes = {"in flight"}]

AllTrials ==
  [stops |-> Stops, compacts |-> Compacts, batches |-> Batches, creates |-> Creates]
HastyTrial == [hasty |-> Hasty]

\* The nodes are alike in FoundedBoot, but for the vote for n1.
Symmetry == Permutations({n2, n3})
=============================================================================
