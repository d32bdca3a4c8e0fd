---------------------------- MODULE MCNodeMetrics ----------------------------
(***************************************************************************)
(* Instances of NodeMetrics for TLC, with the clusters of MCCluster.       *)
(***************************************************************************)
EXTENDS NodeMetricsProperties, MCCluster

Leaderships == {"elections_started", "leaderships_started", "term_advances_from_messages"}
Alarm == {"append_entries_replies_ignored_behind_match_index"}
AllCounters == Leaderships \cup Alarm
=============================================================================
