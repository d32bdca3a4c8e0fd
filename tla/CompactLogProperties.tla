----------------------- MODULE CompactLogProperties -----------------------
(***************************************************************************)
(* The compact log stands for the sequences of RaftLog.                    *)
(***************************************************************************)
EXTENDS CompactLog

\* The entry of RaftLog at index i: what get_entry and get_term say of it.
EntryAt(es, i) ==
  LET t == GetTerm(es, i) IN
  IF i \in DOMAIN es.terms THEN R!TermEntry(t)
  ELSE IF i \in DOMAIN es.configs THEN R!ConfigEntry(t, es.configs[i])
  ELSE R!CommandEntry(t)

\* The sequence that LogEntries stands for.
Sequence(es) ==
  [prev |-> es.prev, ents |-> [k \in 1 .. Length(es) |-> EntryAt(es, es.prev.index + k)]]

SequenceOf(l) == [snapshot_config |-> l.snapshot_config, entries |-> Sequence(l.entries)]

\* Every method that changes a log changes its sequence as RaftLog says, on which the
\* models of the node and the cluster rest.
S == INSTANCE SequenceLog WITH log <- SequenceOf(log), remote <- Sequence(remote)
ImplementsSequences == S!Spec

\* The keys of the maps lie within the log and are apart, and last_position carries
\* the term that get_term finds, through truncation, rebasing and appends.
WellFormed(es) ==
  /\ es.prev.index <= es.last.index
  /\ DOMAIN es.terms \cup DOMAIN es.configs \subseteq es.prev.index + 1 .. es.last.index
  /\ DOMAIN es.terms \cap DOMAIN es.configs = {}
  /\ es.last.term = GetTerm(es, es.last.index)

RepresentationOK == WellFormed(log.entries) /\ WellFormed(remote)

\* Iteration carries the term along and the accessors look it up: they agree, and
\* so do the queries for configurations with those on the sequence.  What iteration
\* yields, from_iter makes the same log of.
QueriesAgree ==
  LET es == log.entries
      l == SequenceOf(log)
  IN  /\ \A k \in 1 .. Length(es) :
           LET it == IterWithPositions(es)[k]
               e == R!EntryAt(l.entries, it.position.index)
           IN  /\ it.position = R!Pos(e.term, es.prev.index + k)
               /\ it.entry.kind = e.kind
               /\ e.kind = "ClusterConfig" => it.entry.config = e.config
      /\ FromIter(es.prev, [k \in 1 .. Length(es) |-> IterWithPositions(es)[k].entry]) = es
      /\ R!LatestConfig(l) = LatestConfig(log)
      /\ R!LatestConfigIndex(l) = LatestConfigIndex(log)
      /\ \A i \in es.prev.index .. es.last.index : R!GetConfig(l, i) = GetConfig(log, i)

\* Two logs of one cluster: where they have a position in common, they have all before
\* it in common (the log matching property).
Match(a, b) ==
  LET both(i) == i > a.prev.index /\ i > b.prev.index
      shared == {i \in a.prev.index + 1 .. a.last.index : both(i) /\ i <= b.last.index}
  IN  \A i \in shared :
        GetTerm(a, i) = GetTerm(b, i)
          => \A j \in shared : j <= i => EntryAt(a, j) = EntryAt(b, j)

\* Stripping what a follower seems to have, by Term boundaries alone, loses no entry:
\* appending the delta gives the same log as appending all.
StripLosesNothing ==
  LET local == log.entries IN
  (/\ Contains(local, remote.prev)
   /\ ~Contains(local, remote.last)
   /\ Match(local, remote))
  => Sequence(AppendUnchecked(local, StripCommonPrefix(remote, local)))
       = Sequence(AppendUnchecked(local, remote))
=============================================================================
