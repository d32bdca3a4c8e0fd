------------------------- MODULE HarnessProperties -------------------------
(***************************************************************************)
(* What the harness checks of the cluster, and what it takes for granted.  *)
(***************************************************************************)
EXTENDS Harness

\* check_election_safety: no term is seen with two leaders, among the nodes that
\* run and those that stopped as leaders.
HarnessElectionSafety ==
  \A a, b \in leaders_by_term : a[1] = b[1] => a[2] = b[2]

\* What d stores includes the position p, in its log or in the snapshot before it.
StoredAtLeast(d, p) ==
  \/ p.index <= d.log.entries.prev.index
  \/ Contains(d.log.entries, p)

\* What a message to `to' promises is on the storage of its sender.
Durably(m, to) ==
  LET d == nodes[m.from].durable IN
  /\ m.term <= d.current_term
  /\ m.term = d.current_term =>
       CASE m.type = "RequestVoteCall" -> d.voted_for # Nil
         [] m.type = "RequestVoteReply" ->
              m.vote_granted => d.voted_for \in {to} \cup {l[2] : l \in leaders_by_term}
         [] m.type = "AppendEntriesCall" -> StoredAtLeast(d, LastPosition(m.entries))
         [] m.type = "AppendEntriesReply" ->
              m.last_position.term = m.term => StoredAtLeast(d, m.last_position)

\* A message on the way promises nothing that a crash of its sender takes back, as
\* long as the sender stores no later term: its term, the vote it grants, and the
\* entries of its term that it offers or acknowledges are durable.
OutboundIsDurable == \A id \in NodeId : \A m \in BagToSet(incoming[id]) : Durably(m, id)

\* An entry that was reported committed is durable on a majority: it survives the
\* crash of any minority, that of the node that reported it included.
CommittedIsDurable ==
  \A c \in committed :
    HasMajority({id \in NodeId :
                   LET es == nodes[id].durable.log.entries IN
                   \/ c[1] <= es.prev.index
                   \/ c[1] <= LastIndex(es) /\ EntryAt(es, c[1]) = c[2]}, NodeId)

\* The debug_assert of run_tick, for every moment at which the snapshot could
\* arrive, a restart of its receiver before that included; and handle_message
\* returns no error (expect, "harness-produced messages must be valid").
SnapshotTermReached ==
  \A id \in NodeId :
    /\ \A s \in snapshot[id] : s.position.term <= nodes[id].durable.current_term
    /\ nodes[id].inner.broken \cap {"snapshot term", "two leaders", "LocalSnapshotMismatch"} = {}

\* A running voter always has a timer that leads to its next call, a leader included
\* (run_tick takes the timer before the call and sets it only if the call says so).
TimerSurvivesTick ==
  \A id \in NodeId :
    LET tn == nodes[id] IN
    (tn.running /\ IsVoter(Config(tn.inner), id))
      => tn.timeout \/ tn.inner.actions.set_election_timeout
=============================================================================
