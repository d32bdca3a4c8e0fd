------------------------------ MODULE RaftLog ------------------------------
(***************************************************************************)
(* The log of a node (src/src/log.rs) as pure operators.                   *)
(*                                                                         *)
(* The code keeps a compact form: the first and last positions and two     *)
(* maps with the indices of Term and ClusterConfig entries.  Here a        *)
(* LogEntries is the sequence those maps stand for:                        *)
(*   [prev |-> Position, ents |-> Seq(Entry)]                              *)
(* and the entry at index prev.index + k is ents[k].  An entry carries the *)
(* term that LogEntries::get_term derives for its index.                   *)
(***************************************************************************)
EXTENDS Naturals, Sequences, FiniteSets

Pos(t, i) == [term |-> t, index |-> i]
ZERO == Pos(0, 0)

\* Mutant of PosLess: compares the lengths of the logs only.
PosLessByIndex(p, q) == p.index < q.index

\* The derived order of LogPosition: term first, then index.
PosLess(p, q) == p.term < q.term \/ (p.term = q.term /\ p.index < q.index)

(***************************************************************************)
(* Cluster configurations (config.rs).                                     *)
(***************************************************************************)
EmptyConfig == [voters |-> {}, new_voters |-> {}, non_voters |-> {}]

IsVoter(c, id) == id \in c.voters \cup c.new_voters
IsJointConsensus(c) == c.new_voters # {}
UniqueVoters(c) == c.voters \cup c.new_voters
UniqueNodes(c) == UniqueVoters(c) \cup c.non_voters

ToJointConsensus(c, adding, removing) ==
  LET new == (c.voters \cup adding) \ removing
  IN  [c EXCEPT !.new_voters = new, !.non_voters = @ \ new]

\* voter_majority_count and new_voter_majority_count.
Majority(s) == IF s = {} THEN 0 ELSE Cardinality(s) \div 2 + 1

\* i is the highest index that a majority of the voters have reached.
IsMajorityIndex(i, match, voters) ==
  /\ Cardinality({v \in voters : match[v] >= i}) >= Majority(voters)
  /\ Cardinality({v \in voters : match[v] > i}) < Majority(voters)

(***************************************************************************)
(* Entries and LogEntries.                                                 *)
(***************************************************************************)
TermEntry(t)   == [kind |-> "Term", term |-> t, config |-> EmptyConfig]
CommandEntry(t) == [kind |-> "Command", term |-> t, config |-> EmptyConfig]
ConfigEntry(t, c) == [kind |-> "ClusterConfig", term |-> t, config |-> c]

NewEntries(prev) == [prev |-> prev, ents |-> <<>>]

LastIndex(es) == es.prev.index + Len(es.ents)

ContainsIndex(es, i) == i \in es.prev.index .. LastIndex(es)

\* get_term at an index for which ContainsIndex holds.
TermAt(es, i) ==
  IF i = es.prev.index THEN es.prev.term ELSE es.ents[i - es.prev.index].term

LastPosition(es) == Pos(TermAt(es, LastIndex(es)), LastIndex(es))

Contains(es, p) == ContainsIndex(es, p.index) /\ TermAt(es, p.index) = p.term

EntryAt(es, i) == es.ents[i - es.prev.index]

Push(es, e) == [es EXCEPT !.ents = Append(@, e)]

\* LogEntries::truncate keeps the first n entries.
Truncate(es, n) == IF Len(es.ents) <= n THEN es
                   ELSE [es EXCEPT !.ents = SubSeq(@, 1, n)]

\* LogEntries::since at a position the entries contain.
Since(es, p) ==
  [prev |-> p, ents |-> SubSeq(es.ents, p.index - es.prev.index + 1, Len(es.ents))]

\* Mutant of AppendUnchecked: does not drop what follows the anchor.
AppendAfterTail(es, more) == [es EXCEPT !.ents = @ \o more.ents]

(***************************************************************************)
(* LogEntries::append_unchecked: everything after the anchor more.prev is  *)
(* replaced by more.  The code's debug_assert that the anchor is contained *)
(* is tested by the callers in Node.  A release build does not notice an   *)
(* anchor that is not: es.prev stays and LogEntries::iter skips what       *)
(* `more' has at or before it, and the indices between the last entry and  *)
(* an anchor beyond it read as commands of the last term (get_entry).      *)
(***************************************************************************)
AppendUnchecked(es, more) ==
  LET n == more.prev.index - es.prev.index
      gap == [k \in 1 .. n - Len(es.ents) |-> CommandEntry(LastPosition(es).term)]
      kept == IF more.prev.index <= es.prev.index THEN <<>> ELSE SubSeq(es.ents \o gap, 1, n)
      skip == IF more.prev.index < es.prev.index
              THEN es.prev.index - more.prev.index ELSE 0
  IN  [es EXCEPT !.ents = kept \o SubSeq(more.ents, skip + 1, Len(more.ents))]

AppendSuffix(es, suffix) ==
  IF Contains(es, suffix.prev) THEN AppendUnchecked(es, suffix) ELSE es

(***************************************************************************)
(* LogEntries::strip_common_prefix: the part of a leader's entries that a  *)
(* follower appends.  The code compares Term boundaries only, so the       *)
(* common prefix it finds may be shorter than the real one.                *)
(***************************************************************************)
StripCommonPrefix(es, local) ==
  LET last == LastPosition(local)
      bounds == {i \in es.prev.index + 1 .. LastIndex(es) : EntryAt(es, i).kind = "Term"}
      at(i) == Pos(EntryAt(es, i).term, i)
      fresh == {i \in bounds : ~Contains(local, at(i))}
      first == CHOOSE i \in fresh : \A j \in fresh : i <= j
      known == {at(i) : i \in {j \in bounds : j < first}} \cup {es.prev}
      common == CHOOSE p \in known : \A q \in known : q.index <= p.index
      candidate == Pos(common.term, first - 1)
  IN  IF es.prev # last /\ Contains(es, last) THEN Since(es, last)
      ELSE IF es.prev = last \/ fresh = {} THEN es
      ELSE IF Contains(local, candidate) THEN Since(es, candidate)
      ELSE Since(es, common)

\* LogEntries::handle_snapshot_installed: queued entries rebased on a snapshot.
RebaseEntries(es, p) ==
  IF p.index < es.prev.index THEN es
  ELSE IF Contains(es, p) THEN Since(es, p) ELSE NewEntries(p)

(***************************************************************************)
(* Log: a snapshot's configuration and the entries after the snapshot.     *)
(***************************************************************************)
EmptyLog == [snapshot_config |-> EmptyConfig, entries |-> NewEntries(ZERO)]

\* The configuration in force at an index the log contains.
GetConfig(log, i) ==
  LET es == log.entries
      at == {j \in es.prev.index + 1 .. i : EntryAt(es, j).kind = "ClusterConfig"}
  IN  IF at = {} THEN log.snapshot_config
      ELSE EntryAt(es, CHOOSE j \in at : \A k \in at : k <= j).config

LatestConfig(log) == GetConfig(log, LastIndex(log.entries))

LatestConfigIndex(log) ==
  LET es == log.entries
      at == {j \in es.prev.index + 1 .. LastIndex(es) : EntryAt(es, j).kind = "ClusterConfig"}
  IN  IF at = {} THEN es.prev.index ELSE CHOOSE j \in at : \A k \in at : k <= j

\* Mutant of InstallInLog: keeps the configuration of the previous snapshot.
InstallKeepingConfig(log, p, config) ==
  [log EXCEPT !.entries = IF Contains(@, p) THEN Since(@, p) ELSE NewEntries(p)]

\* Mutant of InstallInLog: drops the entries after the snapshot.
InstallDroppingSuffix(log, p, config) ==
  [snapshot_config |-> config, entries |-> NewEntries(p)]

\* The log after a snapshot at p, in Node::handle_snapshot_installed.
InstallInLog(log, p, config) ==
  [snapshot_config |-> config,
   entries |-> IF Contains(log.entries, p) THEN Since(log.entries, p) ELSE NewEntries(p)]
=============================================================================
