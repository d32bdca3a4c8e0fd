------------------------------ MODULE LogTypes ------------------------------
(***************************************************************************)
(* The logs that the program can hold, C being the configurations that     *)
(* they may name (src/src/log.rs; terms and indices are u64 there).        *)
(***************************************************************************)
EXTENDS RaftLog

Position == [term : Nat, index : Nat]

Entry(C) == [kind : {"Term", "Command"}, term : Nat, config : {EmptyConfig}]
              \cup [kind : {"ClusterConfig"}, term : Nat, config : C]

\* create_cluster puts a configuration first.
ConfigFirst(es) == (es.prev.index = 0 /\ es.ents # <<>>) => es.ents[1].kind = "ClusterConfig"

Entries(C) == {es \in [prev : Position, ents : Seq(Entry(C))] : ConfigFirst(es)}

\* A snapshot at index 0 has no configuration; a later one has one.
Logs(C) ==
  {log \in [snapshot_config : C \cup {EmptyConfig}, entries : Entries(C)] :
     IF log.entries.prev.index = 0 THEN log.snapshot_config = EmptyConfig
     ELSE log.snapshot_config \in C}

-----------------------------------------------------------------------------
(* Logs that match are made of the same edges: an entry, where it is and the term before it. *)

Edge(es, i) == [before |-> TermAt(es, i - 1), index |-> i, entry |-> EntryAt(es, i)]
Edges(es) == {Edge(es, i) : i \in es.prev.index + 1 .. LastIndex(es)}

\* An entry of a later term than the one before it is a Term entry, and no other is.
TermsStep(e) ==
  IF e.entry.kind = "Term" THEN e.entry.term > e.before ELSE e.entry.term = e.before

\* At an index, there is one entry of a term.
Distinct(S) ==
  \A e, f \in S : (e.index = f.index /\ e.entry.term = f.entry.term) => e = f

\* The terms that entries name.
Terms(es) == {es.prev.term} \cup {e.entry.term : e \in Edges(es)}
=============================================================================
