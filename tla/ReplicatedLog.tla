--------------------------- MODULE ReplicatedLog ---------------------------
(***************************************************************************)
(* What a cluster promises to its users, without messages, storage or      *)
(* logs of single nodes: leaders, each alone in its term, decide the       *)
(* entries of one log, and nodes learn how far it is decided.              *)
(*                                                                         *)
(* An entry is a record with its term and kind; a "ClusterConfig" carries  *)
(* its configuration, which decides who may change it next: a joint        *)
(* configuration is left for its new voters before anything else changes.  *)
(***************************************************************************)
EXTENDS Naturals, FiniteSets

CONSTANT NodeId

VARIABLES
  leaders,   \* <<term, id>> of every leader so far
  decided,   \* <<index, entry>> of every decided entry
  known      \* how many of the decided entries each node knows to be decided

vars == <<leaders, decided, known>>

-----------------------------------------------------------------------------
(* The decided log. *)

Length == Cardinality(decided)

\* One entry at every index from the first on.
IsLog == {c[1] : c \in decided} = 1 .. Length

EntryAtIndex(i) == (CHOOSE c \in decided : c[1] = i)[2]

\* Terms start at 0 and rise at Term entries only.
TermsRise ==
  \A i \in 1 .. Length :
    LET before == IF i = 1 THEN 0 ELSE EntryAtIndex(i - 1).term
        e == EntryAtIndex(i)
    IN  IF e.kind = "Term" THEN e.term > before ELSE e.term = before

\* The configuration d may follow the configuration c: a joint one is left for its
\* new voters, another one keeps its voters and may name new ones.
MayFollow(c, d) ==
  IF c.new_voters = {} THEN d.voters = c.voters
  ELSE d.voters = c.new_voters /\ d.new_voters = {} /\ d.non_voters = c.non_voters

ConfigIndices == {i \in 1 .. Length : EntryAtIndex(i).kind = "ClusterConfig"}

ConfigsFollow ==
  \A i, j \in ConfigIndices :
    (i < j /\ ConfigIndices \cap (i + 1 .. j - 1) = {})
      => MayFollow(EntryAtIndex(i).config, EntryAtIndex(j).config)

-----------------------------------------------------------------------------
(* Steps. *)

\* No term has two leaders.
OneLeader == \A a, b \in leaders : a[1] = b[1] => a[2] = b[2]

\* A node may come to lead a term that no other node has led.
Elect == leaders \subseteq leaders' /\ OneLeader'

\* What is decided stays.  More is decided by a leader, up to an entry of its own term.
Decide ==
  \/ UNCHANGED decided
  \/ /\ decided \subseteq decided'
     /\ IsLog' /\ TermsRise' /\ ConfigsFollow'
     /\ \E l \in leaders' : l[1] = EntryAtIndex(Length)'.term

\* Nodes learn what is decided; one that restarts may forget.
Learn == \A id \in NodeId : known'[id] = known[id] \/ known'[id] <= Length'

Init ==
  /\ OneLeader
  /\ decided = {}
  /\ known = [id \in NodeId |-> 0]

\* A step of the cluster may do all of this at once (a solo voter does).
Next == Elect /\ Decide /\ Learn

Spec == Init /\ [][Next]_vars
=============================================================================
