---------------------------- MODULE CompactLog ----------------------------
(***************************************************************************)
(* Log and LogEntries as the code keeps them (src/src/log.rs): the first   *)
(* and the last position and two maps from indices, to the terms of Term   *)
(* entries and to the configurations of ClusterConfig entries; every other *)
(* index is a Command.  The operators have the names of the methods.       *)
(*                                                                         *)
(* The machine below applies every method to a node's log and to the       *)
(* entries of a leader.                                                    *)
(***************************************************************************)
EXTENDS Naturals, Sequences, FiniteSets

CONSTANTS Configs, MaxTerm, MaxIndex  \* as in SequenceLog

ASSUME LogBounds == MaxTerm \in Nat /\ MaxIndex \in Nat

VARIABLES log, remote                 \* as in SequenceLog, in the compact form

vars == <<log, remote>>

\* The sequences and their vocabulary: positions, configurations, entries.
R == INSTANCE RaftLog

-----------------------------------------------------------------------------
(* BTreeMap. *)

EmptyMap == [i \in {} |-> 0]
Insert(f, i, v) == [j \in DOMAIN f \cup {i} |-> IF j = i THEN v ELSE f[j]]
SplitOff(f, i) == [j \in {k \in DOMAIN f : k < i} |-> f[j]]
From(f, i) == [j \in {k \in DOMAIN f : k >= i} |-> f[j]]
Extend(f, g) == [j \in DOMAIN f \cup DOMAIN g |-> IF j \in DOMAIN g THEN g[j] ELSE f[j]]

MaxKey(keys) == CHOOSE m \in keys : \A k \in keys : k <= m

UpTo(f, i) == {k \in DOMAIN f : k <= i}

\* The value at the last key up to i: range(..=i).next_back().
ValueAt(f, i, default) == IF UpTo(f, i) = {} THEN default ELSE f[MaxKey(UpTo(f, i))]

-----------------------------------------------------------------------------
(* LogEntry and LogEntries. *)

Term(t) == [kind |-> "Term", term |-> t]
ClusterConfig(c) == [kind |-> "ClusterConfig", config |-> c]
Command == [kind |-> "Command"]

New(p) == [prev |-> p, last |-> p, terms |-> EmptyMap, configs |-> EmptyMap]

Length(es) == es.last.index - es.prev.index

ContainsIndex(es, i) == i \in es.prev.index .. es.last.index

GetTerm(es, i) == ValueAt(es.terms, i, es.prev.term)

Contains(es, p) == ContainsIndex(es, p.index) /\ GetTerm(es, p.index) = p.term

GetEntry(es, i) ==
  IF i \in DOMAIN es.terms THEN Term(es.terms[i])
  ELSE IF i \in DOMAIN es.configs THEN ClusterConfig(es.configs[i])
  ELSE Command

\* iter_with_positions carries the term along instead of looking it up.
IterWithPositions(es) ==
  LET term[k \in 0 .. Length(es)] ==
        IF k = 0 THEN es.prev.term
        ELSE IF GetEntry(es, es.prev.index + k).kind = "Term"
        THEN GetEntry(es, es.prev.index + k).term
        ELSE term[k - 1]
  IN  [k \in 1 .. Length(es) |-> [position |-> R!Pos(term[k], es.prev.index + k),
                                  entry |-> GetEntry(es, es.prev.index + k)]]

Push(es, e) ==
  LET i == es.last.index + 1 IN
  [prev |-> es.prev,
   last |-> R!Pos(IF e.kind = "Term" THEN e.term ELSE es.last.term, i),
   terms |-> IF e.kind = "Term" THEN Insert(es.terms, i, e.term) ELSE es.terms,
   configs |-> IF e.kind = "ClusterConfig" THEN Insert(es.configs, i, e.config) ELSE es.configs]

\* from_iter and extend: the entries are pushed one after the other.
FromIter(p, entries) ==
  LET built[k \in 0 .. Len(entries)] ==
        IF k = 0 THEN New(p) ELSE Push(built[k - 1], entries[k])
  IN  built[Len(entries)]

\* Mutant of Truncate: the map of terms is cut one index too early.
TruncateTerms(es, n) ==
  LET i == es.prev.index + n IN
  IF Length(es) <= n THEN es
  ELSE [prev |-> es.prev, last |-> R!Pos(GetTerm(es, i), i),
        terms |-> SplitOff(es.terms, i), configs |-> SplitOff(es.configs, i + 1)]

\* Mutant of Truncate: the last position keeps its term.
TruncateIndex(es, n) ==
  LET i == es.prev.index + n IN
  IF Length(es) <= n THEN es
  ELSE [prev |-> es.prev, last |-> R!Pos(es.last.term, i),
        terms |-> SplitOff(es.terms, i + 1), configs |-> SplitOff(es.configs, i + 1)]

Truncate(es, n) ==
  LET i == es.prev.index + n IN
  IF Length(es) <= n THEN es
  ELSE [prev |-> es.prev, last |-> R!Pos(GetTerm(es, i), i),
        terms |-> SplitOff(es.terms, i + 1), configs |-> SplitOff(es.configs, i + 1)]

\* since at a position the entries contain.
Since(es, p) ==
  [prev |-> p, last |-> es.last,
   terms |-> From(es.terms, p.index + 1), configs |-> From(es.configs, p.index + 1)]

\* Mutant of AppendUnchecked: configurations after the anchor stay.
AppendToConfigs(es, more) ==
  [prev |-> es.prev, last |-> more.last,
   terms |-> Extend(SplitOff(es.terms, more.prev.index + 1), more.terms),
   configs |-> Extend(es.configs, more.configs)]

\* append_unchecked at an anchor the entries contain (its debug_assert).
AppendUnchecked(es, more) ==
  LET i == more.prev.index + 1 IN
  [prev |-> es.prev, last |-> more.last,
   terms |-> Extend(SplitOff(es.terms, i), more.terms),
   configs |-> Extend(SplitOff(es.configs, i), more.configs)]

AppendSuffix(es, suffix) ==
  IF Contains(es, suffix.prev) THEN AppendUnchecked(es, suffix) ELSE es

\* Mutant of StripCommonPrefix: takes the predecessor of the first unknown Term for common.
StripToUnknown(es, local) ==
  LET unknown == {i \in DOMAIN es.terms : ~Contains(local, R!Pos(es.terms[i], i))}
      first == CHOOSE i \in unknown : \A j \in unknown : i <= j
  IN  IF es.prev = local.last \/ unknown = {} THEN es
      ELSE Since(es, R!Pos(GetTerm(es, first - 1), first - 1))

\* The loop over the Term entries ends at the first that local does not contain.
StripCommonPrefix(es, local) ==
  LET unknown == {i \in DOMAIN es.terms : ~Contains(local, R!Pos(es.terms[i], i))}
      first == CHOOSE i \in unknown : \A j \in unknown : i <= j
      before == UpTo(es.terms, first - 1)
      common == IF before = {} THEN es.prev
                ELSE R!Pos(es.terms[MaxKey(before)], MaxKey(before))
      candidate == R!Pos(common.term, first - 1)
  IN  IF es.prev = local.last THEN es
      ELSE IF Contains(es, local.last) THEN Since(es, local.last)
      ELSE IF unknown = {} THEN es
      ELSE Since(es, IF Contains(local, candidate) THEN candidate ELSE common)

\* handle_snapshot_installed.
Rebase(es, p) ==
  IF p.index < es.prev.index THEN es
  ELSE IF Contains(es, p) THEN Since(es, p) ELSE New(p)

-----------------------------------------------------------------------------
(* Log. *)

GetConfig(l, i) == ValueAt(l.entries.configs, i, l.snapshot_config)

LatestConfig(l) ==
  LET c == l.entries.configs IN IF DOMAIN c = {} THEN l.snapshot_config ELSE c[MaxKey(DOMAIN c)]

LatestConfigIndex(l) ==
  LET c == l.entries.configs IN IF DOMAIN c = {} THEN l.entries.prev.index ELSE MaxKey(DOMAIN c)

-----------------------------------------------------------------------------
(* What a method may make of the entries es of a log. *)

Positions == [term : 0 .. MaxTerm, index : 0 .. MaxIndex]

Pushes(es) ==
  LET entries == {Term(t) : t \in {u \in 1 .. MaxTerm : u > es.last.term}}
                   \cup {Command} \cup {ClusterConfig(c) : c \in Configs}
  IN  IF es.last.index < MaxIndex THEN {Push(es, e) : e \in entries} ELSE {}

Truncations(es) == {Truncate(es, n) : n \in 0 .. MaxIndex}

Suffixes(es) == {Since(es, p) : p \in {q \in Positions : Contains(es, q)}}

Rebased(es) == {Rebase(es, p) : p \in Positions}

Appends(es, more) == {AppendSuffix(es, more)}

DeltaAppends(es, more) ==
  IF Contains(es, more.prev) /\ ~Contains(es, more.last)
  THEN {AppendUnchecked(es, StripCommonPrefix(more, es))} ELSE {}

\* Node::handle_snapshot_installed replaces the log by since or a new one.
Install(l, p, c) ==
  [snapshot_config |-> c,
   entries |-> IF Contains(l.entries, p) THEN Since(l.entries, p) ELSE New(p)]

Installs(l) == {Install(l, p, c) : p \in Positions, c \in Configs}

-----------------------------------------------------------------------------
Local(results) ==
  /\ log' \in {[log EXCEPT !.entries = es] : es \in results}
  /\ UNCHANGED remote

Remote(results) == remote' \in results /\ UNCHANGED log

PushEntry == Local(Pushes(log.entries)) \/ Remote(Pushes(remote))

TruncateEntries == Local(Truncations(log.entries)) \/ Remote(Truncations(remote))

CopyEntries == Remote({log.entries})
DropPrefix == Remote(Suffixes(remote))
RebaseQueued == Remote(Rebased(remote))

AppendAll == Local(Appends(log.entries, remote))
AppendDelta == Local(DeltaAppends(log.entries, remote))

InstallSnapshot == log' \in Installs(log) /\ UNCHANGED remote

Init ==
  /\ log = [snapshot_config |-> R!EmptyConfig, entries |-> New(R!ZERO)]
  /\ remote = New(R!ZERO)

Next ==
  \/ PushEntry \/ TruncateEntries
  \/ CopyEntries \/ DropPrefix \/ RebaseQueued
  \/ AppendAll \/ AppendDelta
  \/ InstallSnapshot

Spec == Init /\ [][Next]_vars
=============================================================================
