------------------------------ MODULE Handlers ------------------------------
(***************************************************************************)
(* What handle_message does with a message (src/src/node.rs): one operator *)
(* per handler, from the receiver and the message to the receiver after    *)
(* it.  The branches are the handler's early returns, in its order.        *)
(***************************************************************************)
EXTENDS Node

-----------------------------------------------------------------------------
(* Votes. *)

HandleRequestVoteCall(nd, m) ==
  LET voted == IF nd.voted_for = Nil THEN SetVotedFor(nd, m.from) ELSE nd
      reply == QueueSend(voted, m.from, RequestVoteReply(nd, TRUE))
  IN  IF m.term < nd.current_term
      THEN QueueSend(nd, m.from, RequestVoteReply(nd, FALSE))
      ELSE IF PosLess(m.last_position, LastPosition(nd.log.entries)) THEN nd
      ELSE IF voted.voted_for # m.from THEN voted
      ELSE SetElectionTimeout(DebugAssert(reply, "voter is follower", nd.role = "Follower"))

\* Mutant of CountsVote: a vote of any term counts.
CountsAnyVote(nd, m) == nd.role = "Candidate" /\ m.vote_granted

CountsVote(nd, m) == nd.role = "Candidate" /\ m.vote_granted /\ m.term = nd.current_term

HandleRequestVoteReply(nd, m) ==
  LET voted == [nd EXCEPT !.granted_votes = @ \cup {m.from}]
  IN  IF ~CountsVote(nd, m) THEN nd
      ELSE IF Wins(voted.granted_votes, Config(nd)) THEN TransitionToLeader(voted)
      ELSE voted

-----------------------------------------------------------------------------
(* Replication. *)

\* append_log_entries_from_leader: the follower and whether its log agrees with
\* the leader's up to the last of the entries.
AppendFromLeader(nd, es) ==
  LET local == nd.log.entries
      delta == StripCommonPrefix(es, local)
      kept == Truncate(local, es.prev.index - local.prev.index - 1)
  IN  IF Contains(local, LastPosition(es))
      THEN [nd |-> nd, agrees |-> LastPosition(local) = LastPosition(es)]
      ELSE IF Contains(local, es.prev)
      THEN [nd |-> [QueueAppend(nd, delta)
                    EXCEPT !.log.entries = AppendUnchecked(local, delta)],
            agrees |-> TRUE]
      ELSE IF ContainsIndex(local, es.prev.index)
      THEN [nd |-> [nd EXCEPT !.log.entries = kept], agrees |-> FALSE]
      ELSE [nd |-> nd, agrees |-> FALSE]

\* The prefix of the log that a snapshot replaced differs from the leader's.
LocalSnapshotMismatch(nd, es) ==
  /\ ~Contains(nd.log.entries, LastPosition(es))
  /\ ~Contains(nd.log.entries, es.prev)
  /\ es.prev.index = nd.log.entries.prev.index

HandleAppendEntriesCall(nd, m) ==
  LET follower == IF nd.role = "Follower" THEN nd ELSE SetRole(nd, "Follower")
      voted == IF follower.voted_for = m.from THEN follower
               ELSE SetVotedFor(follower, m.from)
      result == AppendFromLeader(voted, m.entries)
      known == Min({m.commit_index, LastIndex(result.nd.log.entries)})
      updated == IF result.agrees
                 THEN [result.nd EXCEPT !.commit_index = Max({@, known})]
                 ELSE result.nd
  IN  IF m.term < nd.current_term THEN QueueSend(nd, m.from, AppendEntriesReply(nd))
      ELSE IF nd.role = "Leader" THEN DebugAssert(nd, "two leaders", FALSE)
      ELSE IF LocalSnapshotMismatch(voted, m.entries)
      THEN DebugAssert(voted, "LocalSnapshotMismatch", FALSE)
      ELSE SetElectionTimeout(QueueSend(updated, m.from, AppendEntriesReply(updated)))

\* Mutant of RepairFollower: it answers only if the log reaches back far enough.
RepairFromLog(nd, from, p) ==
  IF ContainsIndex(nd.log.entries, p.index)
  THEN QueueSend(nd, from,
                 AppendEntriesCall(nd, NewEntries(Pos(TermAt(nd.log.entries, p.index), p.index))))
  ELSE nd

\* Answer to a follower whose last position the leader's log does not contain.
RepairFollower(nd, from, p) ==
  LET es == nd.log.entries IN
  IF ContainsIndex(es, p.index)
  THEN QueueSend(nd, from,
                 AppendEntriesCall(nd, NewEntries(Pos(TermAt(es, p.index), p.index))))
  ELSE IF LastIndex(es) < p.index THEN nd
  ELSE QueueInstallSnapshot(nd, from)

\* The reply is for the current leadership, from a known follower, and not behind
\* what the follower has reported already.
CountsReply(nd, m) ==
  /\ m.term = nd.current_term
  /\ nd.role = "Leader"
  /\ m.from \in DOMAIN nd.followers
  /\ m.last_position.index >= nd.followers[m.from]

HandleAppendEntriesReply(nd, m) ==
  LET p == m.last_position
      matched == [nd EXCEPT !.followers[m.from] = p.index]
      advanced == IF nd.followers[m.from] = p.index THEN nd
                  ELSE IF nd.commit_index < p.index THEN UpdateCommitIndexIfPossible(matched)
                  ELSE matched
      call == AppendEntriesCall(advanced, Since(advanced.log.entries, p))
  IN  IF ~CountsReply(nd, m) THEN nd
      ELSE IF ~Contains(nd.log.entries, p) THEN RepairFollower(nd, m.from, p)
      ELSE IF p.index = LastIndex(nd.log.entries) THEN advanced
      ELSE QueueSend(advanced, m.from, call)

-----------------------------------------------------------------------------
\* The handler of the message's type, once the receiver has seen its term.
Dispatch(nd, m) ==
  CASE m.type = "RequestVoteCall"    -> HandleRequestVoteCall(nd, m)
    [] m.type = "RequestVoteReply"   -> HandleRequestVoteReply(nd, m)
    [] m.type = "AppendEntriesCall"  -> HandleAppendEntriesCall(nd, m)
    [] m.type = "AppendEntriesReply" -> HandleAppendEntriesReply(nd, m)

HandleMessage(nd, m) ==
  IF m.from = nd.id THEN nd ELSE Dispatch(ObserveTerm(nd, m.term), m)

\* Mutant of CouldBeDisruptiveRequestVote: a leader takes the message for a real one.
DisruptsFollower(nd, m) ==
  /\ nd.current_term < m.term
  /\ m.type = "RequestVoteCall"
  /\ nd.role = "Follower"
  /\ nd.voted_for \notin {Nil, m.from}

\* could_be_disruptive_request_vote: a user may drop the message before handle_message.
CouldBeDisruptiveRequestVote(nd, m) ==
  /\ nd.current_term < m.term
  /\ m.type = "RequestVoteCall"
  /\ nd.role # "Candidate"
  /\ nd.voted_for \notin {Nil, m.from}

\* handle_election_timeout: a leader sends a heartbeat, a voter starts an election.
HandleElectionTimeout(nd) ==
  IF nd.role = "Leader" THEN Heartbeat(nd)
  ELSE IF IsVoter(Config(nd), nd.id) THEN TransitionToCandidate(nd)
  ELSE nd

\* Mutant of Created: the caller waits for a timer that create_cluster did not set.
CreatedWaiting(nd, voters) ==
  LET e == ConfigEntry(0, [EmptyConfig EXCEPT !.voters = voters])
  IN  [QueueAppend(nd, [prev |-> ZERO, ents |-> <<e>>]) EXCEPT !.log.entries = Push(@, e)]

\* The rest of create_cluster: the caller appends the configuration and, if it is
\* one of the initial voters, starts an election.
Created(nd, voters) ==
  LET config == [EmptyConfig EXCEPT !.voters = voters]
      e == ConfigEntry(0, config)
      created == [QueueAppend(nd, [prev |-> ZERO, ents |-> <<e>>])
                  EXCEPT !.log.entries = Push(@, e)]
  IN  IF IsVoter(config, nd.id) THEN TransitionToCandidate(created) ELSE created

\* The early returns of create_cluster.
CanCreate(nd, voters) ==
  /\ LastPosition(nd.log.entries) = ZERO
  /\ Config(nd).voters = {}
  /\ voters # {}
=============================================================================
