---------------------------- MODULE SequenceLog ----------------------------
(***************************************************************************)
(* The log of a node and the entries of a leader as the sequences of       *)
(* RaftLog, under every operation of Log and LogEntries that changes them  *)
(* (src/src/log.rs).  CompactLog, the representation that the code has,    *)
(* implements it.                                                          *)
(***************************************************************************)
EXTENDS RaftLog

CONSTANTS
  Configs,   \* the configurations of ClusterConfig entries and of snapshots
  MaxTerm,   \* no Term entry has a later term
  MaxIndex   \* nothing is pushed after this index

VARIABLES
  log,       \* the Log of a node: snapshot_config and entries
  remote     \* LogEntries of a leader

vars == <<log, remote>>

-----------------------------------------------------------------------------
(* What a method may make of the entries es of a log. *)

Positions == [term : 0 .. MaxTerm, index : 0 .. MaxIndex]

\* A leader pushes commands, configurations and, at the start of a later term, its Term.
Pushes(es) ==
  LET t == LastPosition(es).term
      entries == {TermEntry(u) : u \in {v \in 1 .. MaxTerm : v > t}}
                   \cup {CommandEntry(t)} \cup {ConfigEntry(t, c) : c \in Configs}
  IN  IF LastIndex(es) < MaxIndex THEN {Push(es, e) : e \in entries} ELSE {}

Truncations(es) == {Truncate(es, n) : n \in 0 .. MaxIndex}

Suffixes(es) == {Since(es, p) : p \in {q \in Positions : Contains(es, q)}}

Rebased(es) == {RebaseEntries(es, p) : p \in Positions}

\* append_suffix, and what a follower does: it appends a delta of the leader's entries.
Appends(es, more) == {AppendSuffix(es, more)}

DeltaAppends(es, more) ==
  IF Contains(es, more.prev) /\ ~Contains(es, LastPosition(more))
  THEN {AppendUnchecked(es, StripCommonPrefix(more, es))} ELSE {}

Installs(l) == {InstallInLog(l, p, c) : p \in Positions, c \in Configs}

-----------------------------------------------------------------------------
Local(results) ==
  /\ log' \in {[log EXCEPT !.entries = es] : es \in results}
  /\ UNCHANGED remote

Remote(results) == remote' \in results /\ UNCHANGED log

PushEntry == Local(Pushes(log.entries)) \/ Remote(Pushes(remote))

TruncateEntries == Local(Truncations(log.entries)) \/ Remote(Truncations(remote))

\* The leader's entries become those of the node, a part of them, or are rebased.
CopyEntries == Remote({log.entries})
DropPrefix == Remote(Suffixes(remote))
RebaseQueued == Remote(Rebased(remote))

AppendAll == Local(Appends(log.entries, remote))
AppendDelta == Local(DeltaAppends(log.entries, remote))

InstallSnapshot == log' \in Installs(log) /\ UNCHANGED remote

Init == log = EmptyLog /\ remote = NewEntries(ZERO)

Next ==
  \/ PushEntry \/ TruncateEntries
  \/ CopyEntries \/ DropPrefix \/ RebaseQueued
  \/ AppendAll \/ AppendDelta
  \/ InstallSnapshot

Spec == Init /\ [][Next]_vars
=============================================================================
