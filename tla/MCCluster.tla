----------------------------- MODULE MCCluster -----------------------------
(***************************************************************************)
(* Instances of Cluster for TLC.  A Boot is what storage holds when the    *)
(* nodes start; the comment on each says how the program gets there.       *)
(***************************************************************************)
EXTENDS ClusterProperties, TLC

CONSTANTS n1, n2, n3

Voters(s) == [EmptyConfig EXCEPT !.voters = s]
LogOf(ents) == [EmptyLog EXCEPT !.entries.ents = ents]
Disk(t, v, ents) == [current_term |-> t, voted_for |-> v, log |-> LogOf(ents)]

Fresh == Disk(0, Nil, <<>>)
Founded(s) == <<ConfigEntry(0, Voters(s)), TermEntry(1)>>

\* Nodes that were never started.
FreshBoot == [id \in NodeId |-> Fresh]

\* n1 created a cluster of three and led term 1; all stored its log.
FoundedBoot == [id \in NodeId |-> Disk(1, n1, Founded({n1, n2, n3}))]

\* After FoundedBoot, n1 led term 2 with n2's vote and stored its Term entry and a
\* command alone; then n3 led term 3 with n2's vote and stored its own alone.
DivergedBoot ==
  LET base == Founded({n1, n2, n3}) IN
  n1 :> Disk(2, n1, base \o <<TermEntry(2), CommandEntry(2)>>)
    @@ n2 :> Disk(3, n3, base)
    @@ n3 :> Disk(3, n3, Append(base, TermEntry(3)))

\* n1 created a cluster of n1 and n2 and led term 1; n3 was never started.
PairBoot ==
  [id \in NodeId |-> IF id = n3 THEN Fresh ELSE Disk(1, n1, Founded({n1, n2}))]

\* The leaders that these tell of.
FoundedPast == {<<1, n1>>}
DivergedPast == {<<1, n1>>, <<2, n1>>, <<3, n3>>}

None == {}
ReplaceVoters == {<<{n3}, {n1}>>, <<{n3}, {n1, n2}>>}
AddOrReplace == {<<{n2}, {}>>, <<{n2}, {n1}>>}
ShrinkToN3 == {<<{}, {n1, n2}>>}
LearnN3 == {{n3}}
LearnN2 == {{n2}}
AnyVoters == {{n1}, {n1, n2}}

\* n2 and n3 are alike in FoundedBoot.
Symmetry == Permutations({n2, n3})
=============================================================================
