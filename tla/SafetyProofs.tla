---------------------------- MODULE SafetyProofs ----------------------------
(***************************************************************************)
(* In every cluster of fixed voters whose users execute the actions of a   *)
(* call before the next one, nodes agree on what is committed              *)
(* (StateMachineSafety), the latest leader has it (LeaderCompleteness), a  *)
(* majority stores it (CommittedOnMajority), no node reports it as         *)
(* rejected (CommitStatusAgrees), none that has it loses its stored copy   *)
(* (StorageMonotonic), logs are compacted only up to committed entries     *)
(* (SnapshotBoundaryCommitted), and what a leader counts of a follower's   *)
(* log is in its storage (MatchIndexDurable). Such a cluster implements    *)
(* ReplicatedLog.                                                          *)
(*                                                                         *)
(* The invariant is that there is a tree G of logs and a set A of          *)
(* acknowledgements with which the nodes, their storage and the links are  *)
(* in line (SafeInv of CallProofs). A call that is executed widens both    *)
(* (CallKeeps of CallProofs): a leader's log grows by an entry, and the    *)
(* node acknowledges its log if that ends in its own term. A restart and a *)
(* snapshot leave the tree as it is. What a reply says of a log, or a      *)
(* leader counts of it, stays true of it for as long as it may matter to   *)
(* that leader (Shown).                                                    *)
(***************************************************************************)
EXTENDS CallProofs

-----------------------------------------------------------------------------
(* Steps that leave the tree as it is: restarts and snapshots. *)

\* Such a step takes node x, with the log b, to nd, and the end of the log is acknowledged.
Stays(V, G, A, x, nd) ==
  LET C == FixedConfigs(V)
      U == Voided(V, A, Now)
      a == node[x]
  IN  /\ IsFiniteSet(V)
      /\ Typed(C)
      /\ FixedInv(V)
      /\ SafeInv(V, G, A)
      /\ x \in NodeId
      /\ nd.current_term \in Nat
      /\ a.current_term <= nd.current_term
      /\ nd.log.entries \in Entries(C)
      /\ Backed(G, nd.log.entries)
      /\ \A r : Kept(G, U, r, LastPosition(a.log.entries))
                  => Kept(G, U, r, LastPosition(nd.log.entries))
      /\ nd.role = "Candidate" =>
           /\ a.role = "Candidate"
           /\ nd.current_term = a.current_term
           /\ nd.granted_votes = a.granted_votes

LEMMA StaysFacts ==
  ASSUME NEW V, NEW G, NEW A, NEW x, NEW nd, Stays(V, G, A, x, nd), NEW C, C = FixedConfigs(V),
         NEW A2, A2 = NewAcks(A, x, nd), NEW T2, T2 = NewTerms(x, nd)
  PROVE  /\ Later(x, A, Now, A2, T2)
         /\ Widens(C, G, Voided(V, A, Now), Chosen(V, A), G, Voided(V, A2, T2), Chosen(V, A2))
         /\ Tree(G, C)
         /\ Lined(G, Voided(V, A2, T2))
         /\ AcksOK(G, A2, T2)
         /\ Keeper(G, A2, Voided(V, A2, T2), x, nd.log.entries)
<1> DEFINE U == Voided(V, A, Now)
           X == Chosen(V, A)
           U2 == Voided(V, A2, T2)
           X2 == Chosen(V, A2)
           t == nd.current_term
           es == nd.log.entries
           old == LastPosition(node[x].log.entries)
           last == LastPosition(es)
<1>1. /\ IsFiniteSet(V) /\ Typed(C) /\ FixedInv(V) /\ SafeInv(V, G, A) /\ x \in NodeId
      /\ t \in Nat /\ node[x].current_term <= t
      /\ es \in Entries(C) /\ Backed(G, es)
      /\ \A r : Kept(G, U, r, old) => Kept(G, U, r, last)
  BY DEF Stays
<1>2. /\ Tree(G, C) /\ Lined(G, U) /\ AcksOK(G, A, Now)
      /\ Keeper(G, A, U, x, node[x].log.entries)
  BY <1>1 DEF SafeInv, SafeNow, NodeSafe
<1>3. \A id \in NodeId : T2[id] = IF id = x THEN t ELSE Now[id]
  BY DEF NewTerms, Now
<1>4. \A id \in NodeId : Now[id] \in Nat /\ T2[id] \in Nat /\ Now[id] <= T2[id]
  <2>1. \A id \in NodeId : node[id].current_term \in Nat /\ Now[id] = node[id].current_term
    BY <1>1, TypedFacts DEF IsNode, IsRecord, Now
  <2> QED
    BY <1>1, <1>3, <2>1
<1>5. A \subseteq A2 /\ \A a \in A2 : a \in A \/ (a = <<x, t, last.index>> /\ last.term = t)
  BY DEF NewAcks
<1>6. T2[x] = t
  BY <1>1, <1>3
<1> HIDE DEF U, X, U2, X2, es, last, old, t
<1>7. Later(x, A, Now, A2, T2)
  <2>1. \A a \in A2 \ A : a[1] = x /\ a[2] = T2[x]
    BY <1>5, <1>6
  <2> QED
    BY <1>4, <1>5, <2>1 DEF Later
<1>8. U \subseteq U2 /\ X \subseteq X2
  BY <1>1, <1>7, VoidedLater DEF U, U2, X, X2
<1>9. Widens(C, G, U, X, G, U2, X2)
  BY <1>2, <1>8 DEF Widens
<1>10. Lined(G, U2)
  BY <1>2, <1>8 DEF Lined, Kept
<1>11. OnTree(G, last)
  BY <1>1, <1>2, BackedFacts DEF last
<1>12. AcksOK(G, A2, T2)
  <2> SUFFICES ASSUME NEW a \in A2
               PROVE  a[1] \in NodeId /\ a[2] <= T2[a[1]] /\ OnTree(G, Pos(a[2], a[3]))
    BY DEF AcksOK
  <2>1. CASE a \in A
    <3>1. a[1] \in NodeId /\ a[2] <= Now[a[1]] /\ OnTree(G, Pos(a[2], a[3]))
      BY <1>2, <2>1 DEF AcksOK
    <3>2. Pos(a[2], a[3]).term \in Nat
      BY <1>2, <3>1, OnTreeTyped
    <3>3. a[2] \in Nat
      BY <3>2 DEF Pos
    <3> QED
      BY <1>4, <3>1, <3>3
  <2>2. CASE a = <<x, t, last.index>> /\ last.term = t
    <3>1. a[1] = x /\ a[2] = t /\ a[3] = last.index
      BY <2>2
    <3>2. last = Pos(last.term, last.index)
      BY DEF last, LastPosition, Pos
    <3> QED
      BY <1>1, <1>6, <1>11, <2>2, <3>1, <3>2
  <2> QED
    BY <1>5, <2>1, <2>2
<1>13. Keeper(G, A2, U2, x, es)
  <2> SUFFICES ASSUME NEW r, OnTree(G, r), Acked(A2, x, r)
               PROVE  Kept(G, U2, r, last)
    BY DEF Keeper, last
  <2>1. CASE Acked(A, x, r)
    <3>1. Kept(G, U, r, old)
      BY <1>2, <2>1 DEF Keeper, old
    <3> QED
      BY <1>1, <1>9, <3>1, KeptWidens
  <2>2. CASE ~Acked(A, x, r)
    <3>1. PICK a \in A2 : a[1] = x /\ a[2] = r.term /\ r.index <= a[3]
      BY DEF Acked
    <3>2. a \notin A
      BY <2>2, <3>1 DEF Acked
    <3>3. a = <<x, t, last.index>> /\ last.term = t
      BY <1>5, <3>1, <3>2
    <3>4. r.term = last.term /\ r.index <= last.index
      BY <3>1, <3>3
    <3>5. Before(G, r, last)
      BY <1>2, <1>11, <3>4, OneTermLine
    <3> QED
      BY <3>5 DEF Kept
  <2> QED
    BY <2>1, <2>2
<1> QED
  BY <1>2, <1>7, <1>9, <1>10, <1>12, <1>13 DEF U, X, U2, X2, es

\* The candidates' logs keep what they kept.
LEMMA CandidateStays ==
  ASSUME NEW V, NEW G, NEW A, NEW x, NEW nd, Stays(V, G, A, x, nd),
         NEW A2, A2 = NewAcks(A, x, nd), NEW T2, T2 = NewTerms(x, nd),
         NEW U2, U2 = Voided(V, A2, T2), node'[x] = nd, OthersRest(x), net' \subseteq net,
         NEW c \in NodeId, node'[c].role = "Candidate",
         Keeper(G, A2, U2, c, node'[c].log.entries)
  PROVE  CandidateSafe(V, G, A2, U2, c)'
<1> DEFINE C == FixedConfigs(V)
           U == Voided(V, A, Now)
           X == Chosen(V, A)
           X2 == Chosen(V, A2)
           old == LastPosition(node[c].log.entries)
           new == LastPosition(node'[c].log.entries)
<1>1. /\ Typed(C) /\ FixedInv(V) /\ SafeInv(V, G, A) /\ x \in NodeId
      /\ Later(x, A, Now, A2, T2)
      /\ Widens(C, G, U, X, G, U2, X2)
  BY StaysFacts DEF Stays
<1>2. /\ node[c].role = "Candidate"
      /\ node'[c].current_term = node[c].current_term
      /\ node'[c].granted_votes = node[c].granted_votes
      /\ \A r : Kept(G, U, r, old) => Kept(G, U, r, new)
  <2>1. CASE c = x
    BY <2>1 DEF Stays
  <2>2. CASE c # x
    BY <2>2 DEF OthersRest
  <2> QED
    BY <2>1, <2>2
<1>3. CandidateSafe(V, G, A, U, c) /\ AcksOK(G, A, Now)
  BY <1>1, <1>2 DEF SafeInv, SafeNow
<1>4. T2[x] \in Nat /\ T2[x] = node'[x].current_term /\ node[x].current_term <= T2[x]
      /\ node[x].current_term \in Nat
  BY <1>1, TypedFacts DEF Stays, NewTerms, Now, IsNode, IsRecord
<1>5. PICK t : t = node[c].current_term
  OBVIOUS
<1> HIDE DEF C, U, X, X2
<1>6. \A r : Kept(G, U, r, old) => Kept(G, U2, r, new)
  BY <1>1, <1>2, KeptWidens
<1> HIDE DEF old, new
<1>7. ASSUME NEW p \in net', p.msg.type = "RequestVoteCall", p.msg.from = c, p.msg.term = t,
             NEW r, Before(G, r, p.msg.last_position)
      PROVE  Kept(G, U2, r, new)
  BY <1>3, <1>5, <1>6, <1>7 DEF CandidateSafe, old
<1>8. ASSUME NEW w \in V, Granted(w, t, c)', NEW r, OnTree(G, r), r.term < t, Acked(A2, w, r)
      PROVE  Kept(G, U2, r, new)
  <2>1. CASE w = c
    BY <1>8, <2>1 DEF Keeper, new
  <2>2. CASE w # c
    <3>1. Granted(w, t, c)
      BY <1>2, <1>8 DEF Granted
    <3>2. t \in Nat /\ w \in NodeId /\ Loyal(node[w], t, Pledge(t, c))
      <4>1. Voted(w, t, c)
        BY <2>2, <3>1 DEF Voted
      <4> QED
        BY <1>1, <1>8, <4>1 DEF FixedInv, VotesPledged
    <3>3. Acked(A, w, r)
      <4>1. CASE w # x
        BY <1>1, <1>8, <4>1, AckedLater
      <4>2. CASE w = x
        <5>1. node[x].current_term >= t
          BY <1>4, <3>2, <4>2 DEF Loyal
        <5>2. r.term # T2[x]
          BY <1>4, <1>8, <3>2, <5>1
        <5> QED
          BY <1>1, <1>8, <4>2, <5>2, AckedLater
      <4> QED
        BY <4>1, <4>2
    <3>4. Kept(G, U, r, old)
      BY <1>3, <1>5, <1>8, <3>1, <3>3 DEF CandidateSafe, old
    <3> QED
      BY <1>6, <3>4
  <2> QED
    BY <2>1, <2>2
<1>9. \A w \in V : (Granted(w, node[c].current_term, c))' => Granted(w, t, c)'
  BY <1>2, <1>5 DEF Granted, Said
<1> QED
  BY <1>2, <1>5, <1>7, <1>8, <1>9 DEF CandidateSafe, new

LEMMA StayKeeps ==
  ASSUME NEW V, NEW G, NEW A, NEW x, NEW nd, Stays(V, G, A, x, nd),
         node'[x] = nd, OthersRest(x), net' \subseteq net, Led \subseteq Led',
         committed' \subseteq committed \cup CommittedEntries(nd),
         LogsSafe(G, nd.log.entries, stored'[x].log.entries),
         CommitSafe(G, Chosen(V, A), nd),
         nd.role = "Leader" => Matches(A, nd)
  PROVE  \E A2 : Spreads(V, G, A, G, A2) /\ SafeInv(V, G, A2)'
<1> DEFINE C == FixedConfigs(V)
           U == Voided(V, A, Now)
           X == Chosen(V, A)
<1>1. PICK A2, T2 : A2 = NewAcks(A, x, nd) /\ T2 = NewTerms(x, nd)
  OBVIOUS
<1> DEFINE U2 == Voided(V, A2, T2)
           X2 == Chosen(V, A2)
           last == LastPosition(nd.log.entries)
<1>2. /\ Typed(C) /\ SafeInv(V, G, A) /\ x \in NodeId /\ nd.current_term \in Nat
      /\ nd.log.entries \in Entries(C) /\ Backed(G, nd.log.entries)
  BY DEF Stays
<1>3. /\ Later(x, A, Now, A2, T2)
      /\ Widens(C, G, U, X, G, U2, X2)
      /\ Tree(G, C)
      /\ Lined(G, U2)
      /\ AcksOK(G, A2, T2)
      /\ Keeper(G, A2, U2, x, nd.log.entries)
  BY <1>1, StaysFacts
<1>4. T2 = Now'
  <2>1. T2 = [Now EXCEPT ![x] = nd.current_term]
    BY <1>1 DEF NewTerms
  <2>2. \A y \in NodeId : T2[y] = node'[y].current_term
    BY <2>1 DEF OthersRest, Now
  <2> QED
    BY <2>1, <2>2 DEF Now
<1>5. TreeLed(G) /\ HistorySafe(G, X) /\ AcksOK(G, A, Now)
  BY <1>2 DEF SafeInv, SafeNow
<1>6. TreeLed(G)'
  BY <1>5 DEF TreeLed
<1>7. CommitSafe(G, X2, nd)
  <2> HIDE DEF U, U2, X2, C
  <2> QED
    BY <1>2, <1>3, CommitWidens
<1>8. last.term = nd.current_term => Acked(A2, x, last)
  <2> SUFFICES ASSUME last.term = nd.current_term PROVE Acked(A2, x, last)
    OBVIOUS
  <2> DEFINE a == <<x, nd.current_term, last.index>>
  <2>1. a \in A2 /\ a[1] = x /\ a[2] = last.term /\ a[3] = last.index
    BY <1>1 DEF NewAcks
  <2>2. last.index \in Nat
    BY <1>2, LastPositionTyped DEF Position
  <2>3. last.index <= a[3]
    BY <2>1, <2>2
  <2> QED
    BY <2>1, <2>3 DEF Acked
<1>9. nd.role = "Leader" => Matches(A2, nd)
  <2>1. A \subseteq A2
    BY <1>3 DEF Later
  <2> QED
    BY <2>1 DEF Matches, Acked
<1>10. NodeSafe(G, A2, U2, X2, x, node'[x], stored'[x])
  <2> HIDE DEF U2, X2
  <2> QED
    BY <1>3, <1>7, <1>8, <1>9 DEF NodeSafe
<1>11. HistorySafe(G, X2)'
  <2>1. \A c \in CommittedEntries(nd) : Below(G, X2, c)
    <3>1. X2 \subseteq Position
      BY DEF Chosen
    <3> HIDE DEF X2, C
    <3> QED
      BY <1>2, <1>3, <1>7, <3>1, CommittedBelow
  <2> HIDE DEF X2, C, U, X, U2
  <2> QED
    BY <1>3, <1>5, <2>1, HistoryStep
<1>12. ASSUME NEW c \in NodeId, node'[c].role = "Candidate"
       PROVE  CandidateSafe(V, G, A2, U2, c)'
  <2>1. Keeper(G, A2, U2, c, node'[c].log.entries)
    <3>1. CASE c = x
      BY <1>3, <3>1
    <3>2. CASE c # x
      <4>1. node'[c] = node[c]
        BY <3>2 DEF OthersRest
      <4>2. node[c].current_term \in Nat
        BY <1>2, TypedFacts DEF IsNode, IsRecord
      <4>3. NodeSafe(G, A, U, X, c, node[c], stored[c])
        BY <1>2 DEF SafeInv, SafeNow
      <4>4. NodeSafe(G, A2, U2, X2, c, node[c], stored[c])
        <5> HIDE DEF U, X, U2, X2, C
        <5> QED
          BY <1>2, <1>3, <1>5, <3>2, <4>2, <4>3, OtherSafe
      <4> QED
        BY <4>1, <4>4 DEF NodeSafe
    <3> QED
      BY <3>1, <3>2
  <2> QED
    BY <1>1, <1>12, <2>1, CandidateStays
<1>13. SafeInv(V, G, A2)'
  <2>1. X2 = Chosen(V, A2) /\ U2 = Voided(V, A2, T2) /\ C = FixedConfigs(V)
    OBVIOUS
  <2>2. Widens(C, G, Voided(V, A, Now), Chosen(V, A), G, U2, X2)
    BY <1>3
  <2>3. \A c \in NodeId : node'[c].role = "Candidate" => CandidateSafe(V, G, A2, U2, c)'
    BY <1>12
  <2> HIDE DEF U2, X2, U, X, C
  <2> QED
    BY <1>2, <1>3, <1>4, <1>6, <1>10, <1>11, <2>1, <2>2, <2>3, OneKeeps
<1>14. Spreads(V, G, A, G, A2)
  BY <1>3 DEF Widens, Spreads
<1> QED
  BY <1>13, <1>14

\* The snapshot boundary is decided.
LEMMA BoundaryDecided ==
  ASSUME NEW C, NEW G, Tree(G, C), NEW X, NEW nd, nd.log.entries \in Entries(C),
         Backed(G, nd.log.entries), CommitSafe(G, X, nd)
  PROVE  LET q == nd.log.entries.prev IN OnTree(G, q) /\ Decided(G, X, q, nd.current_term)
<1> DEFINE es == nd.log.entries
           q == es.prev
           c == nd.commit_index
           r == Spot(es, c)
<1>1. ContainsIndex(es, c) /\ Decided(G, X, r, nd.current_term)
  BY DEF CommitSafe
<1>2. /\ q.index \in Nat /\ LastIndex(es) \in Nat /\ q.index <= LastIndex(es)
      /\ q \in Position
  BY EntriesFacts
<1>3. r = Pos(r.term, r.index) /\ r.index = c /\ r.term = TermAt(es, c)
  BY DEF Spot, Pos
<1>4. c \in q.index .. LastIndex(es)
  BY <1>1 DEF ContainsIndex
<1> HIDE DEF r, c
<1>5. Contains(es, r)
  BY <1>3, <1>4 DEF Contains, ContainsIndex
<1>6. Contains(es, q)
  BY <1>2 DEF Contains, ContainsIndex, TermAt
<1>7. PICK g \in G : PartOf(es, g)
  BY DEF Backed
<1>8. g \in Entries(C) /\ g.prev.index = 0
  BY DEF Tree, ZERO, Pos
<1>9. Contains(g, q) /\ Contains(g, r)
  <2>1. es \in Entries(C) /\ g.prev.index <= es.prev.index
    BY <1>2, <1>8
  <2> HIDE DEF es, q
  <2> QED
    BY <1>5, <1>6, <1>7, <1>8, <2>1, PartFacts
<1>10. Before(G, q, r)
  BY <1>2, <1>3, <1>4, <1>9 DEF Before
<1>11. q = Pos(q.term, q.index)
  BY <1>2 DEF Position, Pos
<1> HIDE DEF q
<1>12. Decided(G, X, q, nd.current_term)
  BY <1>1, <1>10, <1>11, DecidedBelow
<1> QED
  BY <1>9, <1>12 DEF OnTree, q

\* A restart: the node goes on with the log that is stored.
LEMMA RestartKeeps ==
  ASSUME NEW V, IsFiniteSet(V), NEW C, C = FixedConfigs(V), Typed(C), FixedInv(V),
         NEW G, NEW A, SafeInv(V, G, A), NEW x \in NodeId, NEW d, d.log = stored[x].log,
         d.current_term \in Nat, node[x].current_term <= d.current_term, RestartFrom(x, d),
         net' \subseteq net
  PROVE  \E A2 : Spreads(V, G, A, G, A2) /\ SafeInv(V, G, A2)'
<1> DEFINE U == Voided(V, A, Now)
           X == Chosen(V, A)
           a == node[x]
           es == a.log.entries
           ds == stored[x].log.entries
<1>1. PICK nd : nd = Restarted(x, d)
  OBVIOUS
<1>2. /\ node' = [node EXCEPT ![x] = nd]
      /\ stored' = [stored EXCEPT ![x] = d]
      /\ elected' = elected
      /\ committed' = committed
  BY <1>1 DEF RestartFrom, Restarted
<1>3. node'[x] = nd /\ stored'[x] = d /\ OthersRest(x)
  BY <1>2, TypedFacts DEF OthersRest
<1>4. /\ nd.current_term = d.current_term
      /\ nd.role = "Follower"
      /\ nd.log = stored[x].log
      /\ nd.commit_index = ds.prev.index
  BY <1>1 DEF Restarted, Restart, SetElectionTimeout, NewNode
<1>5. /\ a.current_term \in Nat
      /\ es \in Entries(C)
      /\ ds \in Entries(C)
  BY TypedFacts, SoundLog, LogFacts DEF IsNode, IsRecord
<1>6. Led \subseteq Led'
  <2>1. \A t, i \in Nat : Ahead(node[x], t, i) => Ahead(node'[x], t, i)
    BY <1>3, <1>4, <1>5 DEF Ahead, Settled
  <2> QED
    BY <1>2, <1>3, <2>1, LedKept
<1>7. /\ Tree(G, C)
      /\ LogsSafe(G, es, ds)
      /\ CommitSafe(G, X, a)
  BY DEF SafeInv, SafeNow, NodeSafe
<1> HIDE DEF U, X
<1>8. Backed(G, es) /\ Backed(G, ds) /\ ds.prev = es.prev /\ Contains(ds, LastPosition(es))
  BY <1>7 DEF LogsSafe
<1>9. Before(G, LastPosition(es), LastPosition(ds))
  <2> HIDE DEF es, ds
  <2> QED
    BY <1>5, <1>7, <1>8, BackedFacts
<1>10. \A r : Kept(G, U, r, LastPosition(es)) => Kept(G, U, r, LastPosition(ds))
  <2> HIDE DEF es, ds
  <2> QED
    BY <1>7, <1>9, BeforeTransitive DEF Kept
<1>11. Stays(V, G, A, x, nd)
  BY <1>4, <1>5, <1>8, <1>10 DEF Stays, U
<1>12. LogsSafe(G, nd.log.entries, stored'[x].log.entries)
  <2>1. PartOf(ds, ds)
    BY <1>5, PartSelf
  <2>2. LogsSafe(G, ds, ds)
    <3>1. Contains(ds, LastPosition(ds))
      <4> HIDE DEF es, ds
      <4>1. LastPosition(ds).index = LastIndex(ds) /\ LastPosition(ds).term = TermAt(ds, LastIndex(ds))
        BY DEF LastPosition, Pos
      <4> QED
        BY <1>5, <4>1, EntriesFacts DEF Contains, ContainsIndex
    <3> QED
      BY <1>8, <3>1 DEF LogsSafe
  <2> QED
    BY <1>3, <1>4, <2>2
<1>13. CommitSafe(G, X, nd)
  <2>1. OnTree(G, es.prev) /\ Decided(G, X, es.prev, a.current_term)
    <3>1. a.log.entries \in Entries(C) /\ Backed(G, a.log.entries)
      BY <1>5, <1>8
    <3> QED
      BY <1>7, <3>1, BoundaryDecided
  <2>2. Widens(C, G, U, X, G, U, X)
    BY <1>7 DEF Widens
  <2>3. Decided(G, X, ds.prev, nd.current_term)
    <3>1. Decided(G, X, es.prev, nd.current_term)
      <4> HIDE DEF a, es
      <4>1. a.current_term \in Nat /\ nd.current_term \in Nat /\ a.current_term <= nd.current_term
        BY <1>4, <1>5 DEF a
      <4> QED
        BY <2>1, <2>2, <4>1, DecidedWidens
    <3> QED
      BY <1>8, <3>1
  <2>4. /\ ds.prev.index \in Nat /\ LastIndex(ds) \in Nat /\ ds.prev.index <= LastIndex(ds)
        /\ ds.prev \in Position
    BY <1>5, EntriesFacts
  <2>5. Spot(ds, ds.prev.index) = ds.prev
    BY <2>4 DEF Spot, TermAt, Pos, Position
  <2>6. ContainsIndex(ds, ds.prev.index)
    BY <2>4 DEF ContainsIndex
  <2> QED
    BY <1>4, <2>3, <2>5, <2>6 DEF CommitSafe
<1>14. nd.role = "Leader" => Matches(A, nd)
  BY <1>4
<1>15. committed' \subseteq committed \cup CommittedEntries(nd)
  BY <1>2
<1> QED
  BY <1>3, <1>6, <1>11, <1>12, <1>13, <1>14, <1>15, StayKeeps DEF X

-----------------------------------------------------------------------------
(* Snapshots. *)

LEMMA SinceKeeps ==
  ASSUME NEW C, NEW es \in Entries(C), NEW p \in Position, Contains(es, p)
  PROVE  LET s == Since(es, p) IN
         /\ s \in Entries(C)
         /\ s.prev = p
         /\ es.prev.index <= p.index
         /\ p.index <= LastIndex(es)
         /\ PartOf(s, es)
         /\ LastIndex(s) = LastIndex(es)
         /\ \A i \in p.index .. LastIndex(es) : TermAt(s, i) = TermAt(es, i)
         /\ LastPosition(s) = LastPosition(es)
         /\ \A q : Contains(es, q) /\ p.index <= q.index => Contains(s, q)
<1> DEFINE s == Since(es, p)
<1>1. /\ s \in Entries(C) /\ s.prev = p /\ LastIndex(s) = LastIndex(es)
      /\ PartOf(s, es)
  BY SinceTyped, SinceIsPart DEF Contains
<1>2. /\ es.prev.index \in Nat /\ LastIndex(es) \in Nat /\ p.index \in Nat
      /\ es.prev.index <= p.index /\ p.index <= LastIndex(es)
      /\ es.prev.index <= s.prev.index
  BY <1>1, EntriesFacts DEF Contains, ContainsIndex, Position
<1> HIDE DEF s
<1>3. /\ \A i \in s.prev.index .. LastIndex(s) : TermAt(s, i) = TermAt(es, i)
      /\ \A q : Contains(es, q) /\ ContainsIndex(s, q.index) => Contains(s, q)
  BY <1>1, <1>2, PartFacts
<1>4. LastPosition(s) = LastPosition(es)
  <2>1. TermAt(s, LastIndex(s)) = TermAt(es, LastIndex(es))
    BY <1>1, <1>2, <1>3
  <2> QED
    BY <1>1, <2>1 DEF LastPosition
<1>5. ASSUME NEW q, Contains(es, q), p.index <= q.index PROVE Contains(s, q)
  <2>1. q.index \in es.prev.index .. LastIndex(es)
    BY <1>5 DEF Contains, ContainsIndex
  <2>2. ContainsIndex(s, q.index)
    BY <1>1, <1>2, <1>5, <2>1 DEF ContainsIndex
  <2> QED
    BY <1>3, <1>5, <2>2
<1> QED
  BY <1>1, <1>2, <1>3, <1>4, <1>5 DEF s

LEMMA EmptyKeeps ==
  ASSUME NEW C, NEW p \in Position
  PROVE  LET s == NewEntries(p) IN
         /\ s \in Entries(C)
         /\ s.prev = p
         /\ LastIndex(s) = p.index
         /\ LastPosition(s) = p
         /\ Contains(s, p)
         /\ \A g : Contains(g, p) => PartOf(s, g)
<1> DEFINE s == NewEntries(p)
<1>1. p.index \in Nat /\ p = Pos(p.term, p.index)
  BY DEF Position, Pos
<1>2. s.prev = p /\ LastIndex(s) = p.index
  BY <1>1 DEF NewEntries, LastIndex
<1>3. s \in Entries(C)
  BY NewEntriesTyped
<1> HIDE DEF s
<1>4. TermAt(s, p.index) = p.term
  BY <1>2 DEF TermAt
<1>5. LastPosition(s) = p
  BY <1>1, <1>2, <1>4 DEF LastPosition
<1>6. Contains(s, p)
  BY <1>1, <1>2, <1>4 DEF Contains, ContainsIndex
<1>7. ASSUME NEW g, Contains(g, p) PROVE PartOf(s, g)
  <2>1. p.index \in g.prev.index .. LastIndex(g) /\ TermAt(g, p.index) = p.term
    BY <1>7 DEF Contains, ContainsIndex
  <2>2. p.index <= LastIndex(g)
    BY <2>1
  <2>3. \A i \in p.index + 1 .. p.index : FALSE
    BY <1>1
  <2> QED
    BY <1>2, <2>1, <2>2, <2>3 DEF PartOf
<1> QED
  BY <1>2, <1>3, <1>5, <1>6, <1>7 DEF s

\* A snapshot at a decided position keeps the log and its stored copy together.
LEMMA InstallKeeps ==
  ASSUME NEW C, NEW G, Tree(G, C), NEW es \in Entries(C), NEW ds \in Entries(C),
         LogsSafe(G, es, ds), NEW p \in Position, OnTree(G, p),
         NEW es2, es2 = IF Contains(es, p) THEN Since(es, p) ELSE NewEntries(p),
         NEW ds2, ds2 = IF Contains(ds, p) THEN Since(ds, p) ELSE NewEntries(p)
  PROVE  /\ es2 \in Entries(C)
         /\ es2.prev = p
         /\ LogsSafe(G, es2, ds2)
<1>1. Backed(G, es) /\ Backed(G, ds) /\ Contains(ds, LastPosition(es))
  BY DEF LogsSafe
<1>2. ASSUME NEW e \in Entries(C), Backed(G, e),
             NEW e2, e2 = IF Contains(e, p) THEN Since(e, p) ELSE NewEntries(p)
      PROVE  e2 \in Entries(C) /\ e2.prev = p /\ Backed(G, e2)
  <2>1. CASE Contains(e, p)
    <3>1. e2 \in Entries(C) /\ e2.prev = p /\ PartOf(e2, e) /\ e.prev.index <= e2.prev.index
      BY <1>2, <2>1, SinceKeeps
    <3>2. PICK g \in G : PartOf(e, g)
      BY <1>2 DEF Backed
    <3>3. g \in Entries(C) /\ g.prev.index = 0 /\ e.prev.index \in Nat
      BY <1>2, EntriesFacts DEF Tree, ZERO, Pos
    <3>4. g.prev.index <= e.prev.index
      BY <3>3
    <3>5. PartOf(e2, g)
      BY <1>2, <3>1, <3>2, <3>3, <3>4, PartWithin
    <3> QED
      BY <3>1, <3>5 DEF Backed
  <2>2. CASE ~Contains(e, p)
    <3>1. e2 = NewEntries(p)
      BY <1>2, <2>2
    <3>2. PICK g \in G : Contains(g, p)
      BY DEF OnTree
    <3>3. e2 \in Entries(C) /\ e2.prev = p /\ PartOf(e2, g)
      BY <3>1, <3>2, EmptyKeeps
    <3> QED
      BY <3>3 DEF Backed
  <2> QED
    BY <2>1, <2>2
<1>3. /\ es2 \in Entries(C) /\ es2.prev = p /\ Backed(G, es2)
      /\ ds2 \in Entries(C) /\ ds2.prev = p /\ Backed(G, ds2)
  BY <1>1, <1>2
<1>4. Contains(ds2, LastPosition(es2))
  <2>1. CASE Contains(es, p)
    <3>1. Contains(ds, p)
      BY <2>1, StoredContains
    <3>2. /\ LastPosition(es2) = LastPosition(es)
          /\ p.index <= LastPosition(es).index
      BY <2>1, SinceKeeps DEF LastPosition, Pos
    <3> QED
      BY <1>1, <3>1, <3>2, SinceKeeps
  <2>2. CASE ~Contains(es, p)
    <3>1. LastPosition(es2) = p
      BY <2>2, EmptyKeeps
    <3>2. Contains(ds2, p)
      <4>1. p.index <= p.index
        BY DEF Position
      <4>2. CASE Contains(ds, p)
        BY <4>1, <4>2, SinceKeeps
      <4>3. CASE ~Contains(ds, p)
        BY <4>3, EmptyKeeps
      <4> QED
        BY <4>2, <4>3
    <3> QED
      BY <3>1, <3>2
  <2> QED
    BY <2>1, <2>2
<1> QED
  BY <1>3, <1>4 DEF LogsSafe

-----------------------------------------------------------------------------
(* A snapshot. *)

LEMMA SafeLawful ==
  ASSUME NEW V, IsFiniteSet(V), V # {}, NEW G, NEW A, SafeInv(V, G, A)
  PROVE  Lawful(FixedConfigs(V), G, Voided(V, A, Now), Chosen(V, A))
<1>1. Tree(G, FixedConfigs(V)) /\ Lined(G, Voided(V, A, Now))
  BY DEF SafeInv, SafeNow
<1>2. Chosen(V, A) \cap Voided(V, A, Now) = {}
  BY ChosenNotVoided
<1>3. Chosen(V, A) \subseteq Position
  BY DEF Chosen
<1> QED
  BY <1>1, <1>2, <1>3 DEF Lawful

\* What a node snapshots, or is sent a snapshot of, is decided.
LEMMA SnappedDecided ==
  ASSUME NEW V, NEW C, C = FixedConfigs(V), Typed(C), NEW G, NEW A, SafeInv(V, G, A),
         NEW x \in NodeId, NEW p, NEW config, Snapped(x, p, config)
  PROVE  OnTree(G, p) /\ Decided(G, Chosen(V, A), p, node[x].current_term)
<1> DEFINE X == Chosen(V, A)
           a == node[x]
           es == a.log.entries
           i == a.commit_index
<1>1. Tree(G, C) /\ LogsSafe(G, es, stored[x].log.entries) /\ CommitSafe(G, X, a)
  BY DEF SafeInv, SafeNow, NodeSafe
<1>2. es \in Entries(C)
  BY TypedFacts, SoundLog, LogFacts
<1>3. CASE p = Pos(TermAt(es, i), i)
  <2>1. p = Spot(es, i)
    BY <1>3 DEF Spot
  <2>2. Contains(es, p)
    <3>1. p.index = i /\ p.term = TermAt(es, i)
      BY <1>3 DEF Pos
    <3> QED
      BY <1>1, <3>1 DEF CommitSafe, Contains
  <2>3. OnTree(G, p)
    <3>1. Backed(G, es)
      BY <1>1 DEF LogsSafe
    <3> HIDE DEF es
    <3> QED
      BY <1>1, <1>2, <2>2, <3>1, BackedFacts
  <2> QED
    BY <1>1, <2>1, <2>3 DEF CommitSafe
<1>4. CASE \E q \in net : q.to = x /\ q.msg.type = "InstallSnapshot" /\ q.msg.position = p
  <2>1. PICK q \in net : q.to = x /\ q.msg.type = "InstallSnapshot" /\ q.msg.position = p
    BY <1>4
  <2>2. PacketSafe(G, A, X, Now, q)
    BY DEF SafeInv, SafeNow
  <2>3. Now[x] = a.current_term
    BY DEF Now
  <2> QED
    BY <2>1, <2>2, <2>3 DEF PacketSafe
<1> QED
  BY <1>3, <1>4 DEF Snapped

LEMMA SnapshotStays ==
  ASSUME NEW V, IsFiniteSet(V), V # {}, NEW C, C = FixedConfigs(V), Typed(C), FixedInv(V),
         NEW G, NEW A, SafeInv(V, G, A), NEW x \in NodeId, SnapshotStep(x)
  PROVE  \E A2 : Spreads(V, G, A, G, A2) /\ SafeInv(V, G, A2)'
<1>1. PICK p, config : /\ Snapped(x, p, config)
                       /\ IsValidSnapshot(node[x], p, config)
                       /\ InstallStoredSnapshot(node[x], p, config)
                       /\ net' \subseteq net
  BY DEF SnapshotStep
<1> DEFINE U == Voided(V, A, Now)
           X == Chosen(V, A)
           a == node[x]
           nd == InstallSnapshot(a, p, config)
           l == InstallInLog(stored[x].log, p, config)
           d == [stored[x] EXCEPT !.log = l]
           es == a.log.entries
           ds == stored[x].log.entries
           es2 == nd.log.entries
           ds2 == l.entries
<1>2. IsSnapshot(p, config, C) /\ p \in Position
  BY <1>1, SnappedTyped DEF IsSnapshot
<1>3. /\ Sound(a, C)
      /\ a.id = x
      /\ a.current_term \in Nat
      /\ a.commit_index \in Nat
      /\ a.log \in Logs(C)
      /\ es \in Entries(C)
      /\ ds \in Entries(C)
      /\ stored[x] = [current_term |-> stored[x].current_term,
                      voted_for |-> stored[x].voted_for, log |-> stored[x].log]
  BY TypedFacts, SoundLog, LogFacts DEF Backs, IsDisk, Sound, IsNode, IsRecord
<1>4. /\ nd.log = InstallInLog(a.log, p, config)
      /\ nd.commit_index = IF a.commit_index < p.index THEN p.index ELSE a.commit_index
  BY <1>3 DEF InstallSnapshot, Sound, IsNode, IsRecord
<1>5. Installed(a, nd, C)
  BY <1>1, <1>2, <1>3, InstallSnapshotInstalls
<1>6. /\ node' = [node EXCEPT ![x] = nd]
      /\ stored' = [stored EXCEPT ![x] = d]
      /\ Observe(nd)
  BY <1>1, <1>3 DEF InstallStoredSnapshot
<1>7. d.log = l
  BY <1>3
<1>8. /\ es2 = IF Contains(es, p) THEN Since(es, p) ELSE NewEntries(p)
      /\ ds2 = IF Contains(ds, p) THEN Since(ds, p) ELSE NewEntries(p)
  BY <1>4 DEF InstallInLog
<1>9. \A f, g : IsValidSnapshot(a, p, config) /\ ~Contains(es, p) => a.commit_index < p.index
  BY DEF IsValidSnapshot
<1> HIDE DEF nd, l, d
<1>10. /\ node'[x] = nd
       /\ stored'[x] = d
       /\ OthersRest(x)
  BY <1>6, TypedFacts DEF OthersRest
<1>11. /\ nd.current_term = a.current_term
       /\ nd.role = a.role
       /\ nd.granted_votes = a.granted_votes
       /\ nd.followers = a.followers
  BY <1>5 DEF Installed
<1>12. elected \subseteq elected' /\ committed' \subseteq committed \cup CommittedEntries(nd)
  BY <1>6 DEF Observe
<1>13. Turns(x, nd, C)
  <2> DEFINE W == a.granted_votes
  <2>1. Outcome(a, nd, C, W, Spoken("AppendEntriesCall"), Spoken("RequestVoteCall"))
    BY <1>3, <1>5, InstalledOutcome
  <2> QED
    BY <2>1 DEF Turns
<1>14. Led \subseteq Led'
  <2>1. \A t, i \in Nat : Ahead(node[x], t, i) => Ahead(node'[x], t, i)
    BY <1>10, <1>13, TurnsAhead
  <2> QED
    BY <1>10, <1>12, <2>1, LedKept
<1>15. /\ Tree(G, C)
       /\ LogsSafe(G, es, ds)
       /\ CommitSafe(G, X, a)
       /\ nd.role = "Leader" => Matches(A, a)
       /\ Lawful(C, G, U, X)
  BY <1>11, SafeLawful DEF SafeInv, SafeNow, NodeSafe
<1>16. OnTree(G, p) /\ Decided(G, X, p, a.current_term)
  BY <1>1, SnappedDecided
<1> HIDE DEF U, X
<1>17. es2 \in Entries(C) /\ es2.prev = p /\ LogsSafe(G, es2, ds2)
  <2> HIDE DEF es, ds, es2, ds2
  <2> QED
    BY <1>2, <1>3, <1>8, <1>15, <1>16, InstallKeeps
<1>18. Backed(G, es) /\ Backed(G, es2)
  BY <1>15, <1>17 DEF LogsSafe
<1>19. ASSUME ~Contains(es, p)
       PROVE  a.commit_index < p.index /\ ~Before(G, p, LastPosition(es))
  <2>1. a.commit_index < p.index
    BY <1>1, <1>9, <1>19
  <2>2. es.prev.index <= p.index
    <3>1. ContainsIndex(es, a.commit_index)
      BY <1>15 DEF CommitSafe
    <3>2. a.commit_index \in es.prev.index .. LastIndex(es)
      BY <3>1 DEF ContainsIndex
    <3>3. es.prev.index \in Nat /\ LastIndex(es) \in Nat /\ p.index \in Nat
      BY <1>2, <1>3, EntriesFacts DEF Position
    <3> QED
      BY <1>3, <2>1, <3>2, <3>3
  <2>3. Contains(es, LastPosition(es))
    <3> HIDE DEF es
    <3>1. LastPosition(es).index = LastIndex(es) /\ LastPosition(es).term = TermAt(es, LastIndex(es))
      BY DEF LastPosition, Pos
    <3> QED
      BY <1>3, <3>1, EntriesFacts DEF Contains, ContainsIndex
  <2>4. ~Before(G, p, LastPosition(es))
    <3> HIDE DEF es
    <3> QED
      BY <1>3, <1>15, <1>18, <1>19, <2>2, <2>3, BackedFacts
  <2> QED
    BY <2>1, <2>4
<1>20. \A r : Kept(G, U, r, LastPosition(es)) => Kept(G, U, r, LastPosition(es2))
  <2>1. CASE Contains(es, p)
    <3>1. LastPosition(es2) = LastPosition(es)
      <4>1. es2 = Since(es, p)
        BY <1>8, <2>1
      <4> HIDE DEF es, es2
      <4> QED
        BY <1>2, <1>3, <2>1, <4>1, SinceKeeps
    <3> QED
      BY <3>1
  <2>2. CASE ~Contains(es, p)
    <3>1. LastPosition(es2) = p
      <4>1. es2 = NewEntries(p)
        BY <1>8, <2>2
      <4> HIDE DEF es2
      <4> QED
        BY <1>2, <4>1, EmptyKeeps
    <3>2. OnTree(G, LastPosition(es))
      <4> HIDE DEF es
      <4> QED
        BY <1>3, <1>15, <1>18, BackedFacts
    <3>3. ~Before(G, p, LastPosition(es))
      BY <1>19, <2>2
    <3> HIDE DEF es, a
    <3>4. ASSUME NEW r, Kept(G, U, r, LastPosition(es)) PROVE Kept(G, U, r, p)
      BY <1>15, <1>16, <3>2, <3>3, <3>4, SnapshotKeeps
    <3> QED
      BY <3>1, <3>4
  <2> QED
    BY <2>1, <2>2
<1>21. Stays(V, G, A, x, nd)
  BY <1>3, <1>11, <1>17, <1>18, <1>20 DEF Stays, U
<1>22. LogsSafe(G, nd.log.entries, stored'[x].log.entries)
  BY <1>7, <1>10, <1>17
<1>23. CommitSafe(G, X, nd)
  <2>1. /\ p.index \in Nat /\ LastIndex(es2) \in Nat /\ p.index <= LastIndex(es2)
        /\ p = Pos(p.term, p.index)
    BY <1>2, <1>17, EntriesFacts DEF Position, Pos
  <2>2. CASE a.commit_index < p.index
    <3>1. nd.commit_index = p.index
      BY <1>4, <2>2
    <3>2. Spot(es2, p.index) = p
      BY <1>17, <2>1 DEF Spot, TermAt
    <3>3. ContainsIndex(es2, p.index)
      BY <1>17, <2>1 DEF ContainsIndex
    <3> QED
      BY <1>11, <1>16, <3>1, <3>2, <3>3 DEF CommitSafe
  <2>3. CASE ~(a.commit_index < p.index)
    <3> DEFINE i == a.commit_index
    <3>1. nd.commit_index = i
      BY <1>4, <2>3
    <3>2. Contains(es, p)
      BY <1>19, <2>3
    <3>3. es2 = Since(es, p)
      BY <1>8, <3>2
    <3>4. /\ LastIndex(es2) = LastIndex(es)
          /\ \A j \in p.index .. LastIndex(es) : TermAt(es2, j) = TermAt(es, j)
      <4> HIDE DEF es, es2
      <4> QED
        BY <1>2, <1>3, <3>2, <3>3, SinceKeeps
    <3>5. i \in p.index .. LastIndex(es2)
      <4>1. ContainsIndex(es, i)
        BY <1>15 DEF CommitSafe
      <4> HIDE DEF es, es2
      <4> QED
        BY <1>3, <2>1, <2>3, <3>4, <4>1 DEF ContainsIndex
    <3>6. ContainsIndex(es2, i) /\ Spot(es2, i) = Spot(es, i)
      BY <1>17, <3>4, <3>5 DEF ContainsIndex, Spot
    <3> QED
      BY <1>11, <1>15, <3>1, <3>6 DEF CommitSafe
  <2> QED
    BY <2>2, <2>3
<1>24. nd.role = "Leader" => Matches(A, nd)
  <2> SUFFICES ASSUME nd.role = "Leader" PROVE Matches(A, nd)
    OBVIOUS
  <2>1. Contains(es, p)
    BY <1>1, <1>11 DEF IsValidSnapshot
  <2>2. es2 = Since(es, p)
    BY <1>8, <2>1
  <2>3. /\ LastIndex(es2) = LastIndex(es)
        /\ es.prev.index <= p.index
        /\ \A j \in p.index .. LastIndex(es) : TermAt(es2, j) = TermAt(es, j)
    <3> HIDE DEF es, es2
    <3> QED
      BY <1>2, <1>3, <2>1, <2>2, SinceKeeps
  <2>4. es.prev.index \in Nat /\ LastIndex(es) \in Nat /\ p.index \in Nat
    BY <1>2, <1>3, EntriesFacts DEF Position
  <2>5. Matches(A, a)
    BY <1>15
  <2>6. ASSUME NEW f \in DOMAIN nd.followers
        PROVE  /\ nd.followers[f] <= LastIndex(es2)
               /\ \A i \in es2.prev.index .. nd.followers[f] :
                    TermAt(es2, i) = nd.current_term => Acked(A, f, Pos(nd.current_term, i))
    <3>1. nd.followers[f] <= LastIndex(es2)
      BY <1>11, <2>3, <2>5 DEF Matches
    <3>2. nd.followers[f] \in Nat
      BY <1>3, <1>11, <2>6 DEF Sound, IsNode, IsRecord
    <3>3. ASSUME NEW i \in es2.prev.index .. nd.followers[f], TermAt(es2, i) = nd.current_term
          PROVE  Acked(A, f, Pos(nd.current_term, i))
      <4>1. i \in p.index .. LastIndex(es) /\ i \in es.prev.index .. nd.followers[f]
        BY <1>17, <2>3, <2>4, <3>1, <3>2
      <4>2. TermAt(es, i) = a.current_term
        BY <1>11, <2>3, <3>3, <4>1
      <4>3. f \in DOMAIN a.followers /\ i \in es.prev.index .. a.followers[f]
        BY <1>11, <4>1
      <4> QED
        BY <1>11, <2>5, <4>2, <4>3 DEF Matches
    <3> QED
      BY <3>1, <3>3
  <2> QED
    BY <2>6 DEF Matches
<1> QED
  BY <1>1, <1>10, <1>12, <1>14, <1>21, <1>22, <1>23, <1>24, StayKeeps DEF X

-----------------------------------------------------------------------------
(* Every step. *)

\* A step that leaves nodes and storage alone and sends nothing.
LEMMA RestKeeps ==
  ASSUME NEW V, NEW G, NEW A, SafeInv(V, G, A), Rests
  PROVE  SafeInv(V, G, A)'
<1>1. /\ node' = node
      /\ stored' = stored
      /\ elected' = elected
      /\ committed' = committed
      /\ net' \subseteq net
  BY DEF Rests
<1>2. Now' = Now
  BY <1>1 DEF Now
<1>3. Led' = Led
  BY <1>1 DEF Led, Ahead, Settled
<1> DEFINE U == Voided(V, A, Now)
           X == Chosen(V, A)
<1>4. /\ Tree(G, FixedConfigs(V)) /\ Lined(G, U) /\ FoundingLogs \subseteq G /\ TreeLed(G)
      /\ AcksOK(G, A, Now)
      /\ \A x \in NodeId : NodeSafe(G, A, U, X, x, node[x], stored[x])
      /\ \A p \in net : PacketSafe(G, A, X, Now, p)
      /\ \A c \in NodeId : node[c].role = "Candidate" => CandidateSafe(V, G, A, U, c)
      /\ HistorySafe(G, X)
  BY DEF SafeInv, SafeNow
<1>5. U' = U /\ X' = X
  BY <1>2 DEF Voided, Movers, Acked, Chosen, Ackers
<1>6. TreeLed(G)'
  BY <1>3, <1>4 DEF TreeLed
<1>7. AcksOK(G, A, Now)'
  BY <1>2, <1>4 DEF AcksOK
<1>8. \A x \in NodeId : NodeSafe(G, A, U, X, x, node'[x], stored'[x])
  BY <1>1, <1>4
<1>9. \A p \in net' : PacketSafe(G, A, X, Now', p)
  BY <1>1, <1>2, <1>4
<1>10. ASSUME NEW c \in NodeId, node'[c].role = "Candidate"
       PROVE  CandidateSafe(V, G, A, U, c)'
  <2> DEFINE last == LastPosition(node[c].log.entries)
             t == node[c].current_term
  <2>1. CandidateSafe(V, G, A, U, c)
    BY <1>1, <1>4, <1>10
  <2>2. ASSUME NEW w, Granted(w, t, c)' PROVE Granted(w, t, c)
    BY <1>1, <2>2 DEF Granted
  <2>3. t' = t /\ last' = last
    BY <1>1
  <2>4. \A p \in net' :
          p.msg.type = "RequestVoteCall" /\ p.msg.from = c /\ p.msg.term = t
          => \A r : Before(G, r, p.msg.last_position) => Kept(G, U, r, last)
    BY <1>1, <2>1 DEF CandidateSafe
  <2>5. \A w \in V : Granted(w, t, c)' =>
          \A r : OnTree(G, r) /\ r.term < t /\ Acked(A, w, r) => Kept(G, U, r, last)
    BY <2>1, <2>2 DEF CandidateSafe
  <2> HIDE DEF U, last, t
  <2>6. /\ \A p \in net' :
             p.msg.type = "RequestVoteCall" /\ p.msg.from = c /\ p.msg.term = t'
             => \A r : Before(G, r, p.msg.last_position) => Kept(G, U', r, last')
        /\ \A w \in V : Granted(w, t, c)' =>
             \A r : OnTree(G, r) /\ r.term < t' /\ Acked(A, w, r) => Kept(G, U', r, last')
    BY <1>5, <2>3, <2>4, <2>5
  <2> QED
    BY <2>6 DEF CandidateSafe, last, t
<1>11. HistorySafe(G, X)'
  BY <1>1, <1>4, <1>5 DEF HistorySafe
<1> HIDE DEF U, X
<1>12. SafeNow(V, G, A, U, X)'
  BY <1>4, <1>5, <1>6, <1>7, <1>8, <1>9, <1>10, <1>11 DEF SafeNow
<1> QED
  BY <1>12 DEF SafeInv, U, X

\* A call that is executed is one of those that Acting describes.
LEMMA CallActing ==
  ASSUME NEW V, VotersFixed(V), V # {}, NEW C, C = FixedConfigs(V), Typed(C), FixedInv(V),
         MatchInv, NEW G, NEW A, SafeInv(V, G, A), NEW x \in NodeId, NEW nd, Calls(x, nd),
         NEW armed, NEW rest, ExecuteUpTo(nd, 4, armed, rest), ElectionSafety'
  PROVE  \E H : Acting(V, G, A, x, nd, H)
<1>1. Covering(C) /\ IsFiniteSet(V)
  BY FixedCover DEF VotersFixed
<1>2. Turns(x, nd, C) /\ nd.id = x /\ Sound(nd, C)
  BY <1>1, CallsTurns, TypedFacts, TurnsEvolves DEF Evolves
<1>3. PICK H : Come(x, H) /\ Deed(V, node[x], nd, H, C)
  BY CallsDeed
<1>4. Observe(Executed(nd, 4)) /\ SameState(nd, Executed(nd, 4))
  BY <1>2, ExecutedSound DEF ExecuteUpTo, Executed, SameState, Sound, IsNode, IsRecord
<1>5. /\ elected \subseteq elected'
      /\ nd.role = "Leader" => <<nd.current_term, x>> \in elected'
  BY <1>2, <1>4 DEF Observe, SameState
<1>6. Fits(node[x], nd)
  BY <1>5, CallFits
<1>7. Yields(node[x], nd, KnownTo(nd.current_term))
  BY <1>1, <1>6, CallsYields
<1>8. Alone(nd)
  BY <1>2, <1>5 DEF ElectionSafety, Alone
<1>9. nd.role = "Leader" => Ripe(nd)
  BY <1>7 DEF Yields
<1> QED
  BY <1>2, <1>3, <1>8, <1>9 DEF Acting

LEMMA CallStepKeeps ==
  ASSUME Batching = "none", NEW V, VotersFixed(V), V # {}, NEW C, C = FixedConfigs(V), Typed(C), FixedInv(V),
         MatchInv, NEW G, NEW A, SafeInv(V, G, A), NEW x \in NodeId, CallStep(x), ElectionSafety'
  PROVE  \E G2, A2 : Spreads(V, G, A, G2, A2) /\ SafeInv(V, G2, A2)'
<1>1. PICK nd, armed, rest : Calls(x, nd) /\ rest \subseteq net /\ Return(nd, armed, rest)
  BY DEF CallStep
<1>2. Covering(C) /\ IsFiniteSet(V)
  BY FixedCover DEF VotersFixed
<1>3. Turns(x, nd, C) /\ nd.id = x /\ Sound(nd, C)
  BY <1>1, <1>2, CallsTurns, TypedFacts, TurnsEvolves DEF Evolves
<1>5. CASE ExecuteUpTo(nd, 4, armed, rest)
  <2>1. PICK H : Acting(V, G, A, x, nd, H)
    BY <1>1, <1>5, CallActing
  <2> QED
    BY <1>1, <1>5, <2>1, CallKeeps
<1>6. CASE \E k \in 0 .. 2 : RestartFrom(nd.id, Persist(stored[nd.id], nd, k)) /\ net' = rest
  <2>1. PICK k \in 0 .. 2 : RestartFrom(nd.id, Persist(stored[nd.id], nd, k)) /\ net' = rest
    BY <1>6
  <2> DEFINE d == Persist(stored[x], nd, k)
  <2>2. RestartFrom(x, d) /\ net' \subseteq net
    BY <1>1, <1>3, <2>1
  <2>3. d.log = stored[x].log
    <3>1. ~(k >= 3)
      OBVIOUS
    <3> QED
      BY <3>1 DEF Persist
  <2>4. Settles(stored[x], nd, d) /\ d.current_term \in Nat
    <3>1. k \in 0 .. 4
      OBVIOUS
    <3> QED
      BY <1>3, <3>1, PersistForm
  <2> HIDE DEF d
  <2>5. node[x].current_term <= d.current_term
    <3>1. /\ stored[x].current_term = node[x].current_term
          /\ node[x].current_term \in Nat
          /\ node[x].current_term <= nd.current_term
      BY <1>3, TypedFacts, TurnsEvolves
      DEF MatchInv, Idle, Backs, NoActions, IsNode, IsRecord, Evolves
    <3> QED
      BY <2>4, <3>1 DEF Settles
  <2>6. \E A2 : Spreads(V, G, A, G, A2) /\ SafeInv(V, G, A2)'
    BY <1>2, <2>2, <2>3, <2>4, <2>5, RestartKeeps
  <2> QED
    BY <2>6
<1> QED
  BY <1>1, <1>5, <1>6 DEF Return

LEMMA NextKeeps ==
  ASSUME Batching = "none", NEW V, VotersFixed(V), V # {}, NEW C, C = FixedConfigs(V), Typed(C), FixedInv(V),
         MatchInv, NEW G, NEW A, SafeInv(V, G, A), ElectionSafety', [Next]_vars
  PROVE  \E G2, A2 : Spreads(V, G, A, G2, A2) /\ SafeInv(V, G2, A2)'
<1> DEFINE Good == \E G2, A2 : Spreads(V, G, A, G2, A2) /\ SafeInv(V, G2, A2)'
<1>1. IsFiniteSet(V)
  BY DEF VotersFixed
<1>2. ASSUME NEW x \in NodeId, CallStep(x) PROVE Good
  BY <1>2, CallStepKeeps
<1>3. ASSUME NEW x \in NodeId, SnapshotStep(x) PROVE Good
  <2>1. \E A2 : Spreads(V, G, A, G, A2) /\ SafeInv(V, G, A2)'
    BY <1>1, <1>3, SnapshotStays
  <2> QED
    BY <2>1
<1>4. ASSUME NEW x \in NodeId, Execute(x) PROVE FALSE
  BY <1>4 DEF Execute, MatchInv, Idle
<1>5. ASSUME NEW x \in NodeId, Crash(x) PROVE Good
  <2>1. RestartFrom(x, stored[x]) /\ net' \subseteq net
    BY <1>5 DEF Crash
  <2>2. stored[x].current_term = node[x].current_term /\ stored[x].current_term \in Nat
    BY TypedFacts DEF MatchInv, Idle, Backs, NoActions, IsNode, IsRecord
  <2>3. node[x].current_term <= stored[x].current_term
    BY <2>2
  <2>4. \E A2 : Spreads(V, G, A, G, A2) /\ SafeInv(V, G, A2)'
    <3> DEFINE d == stored[x]
    <3>1. d.log = stored[x].log
      OBVIOUS
    <3> QED
      BY <1>1, <2>1, <2>2, <2>3, <3>1, RestartKeeps
  <2> QED
    BY <2>4
<1>6. ASSUME Rests PROVE Good
  <2>1. Spreads(V, G, A, G, A)
    BY DEF Spreads
  <2> QED
    BY <1>6, <2>1, RestKeeps
<1>7. UNCHANGED vars => Rests
  BY DEF vars, Rests
<1> HIDE DEF Good
<1>8. Next => Good
  BY <1>2, <1>3, <1>4, <1>5, <1>6, NextCases
<1>9. Good
  BY <1>6, <1>7, <1>8
<1> QED
  BY <1>9 DEF Good

-----------------------------------------------------------------------------
(* The start. *)

\* What the nodes start from is uncompacted, and the entries of a term are one line.
PlainBoot ==
  \A a, b \in NodeId :
    /\ Boot[a].log.entries.prev = ZERO
    /\ OneLine(Boot[a].log.entries, Boot[b].log.entries)

LEMMA RootRises ==
  ASSUME NEW C, NEW g \in Entries(C), g.prev = ZERO, \A e \in Edges(g) : TermsStep(e)
  PROVE  Ascends(g)
<1> SUFFICES ASSUME NEW i \in 0 .. LastIndex(g), NEW j \in i .. LastIndex(g)
             PROVE  TermAt(g, i) <= TermAt(g, j)
  BY DEF Ascends
<1> DEFINE K == {k \in i .. LastIndex(g) : ~(TermAt(g, i) <= TermAt(g, k))}
<1>1. /\ LastIndex(g) \in Nat /\ g.prev.index = 0
      /\ \A k \in 0 .. LastIndex(g) : TermAt(g, k) \in Nat
  BY FullFacts
<1> SUFFICES ASSUME K # {} PROVE FALSE
  BY <1>1
<1>2. PICK m \in K : \A k \in K : m <= k
  <2>1. K \subseteq Nat
    BY <1>1
  <2> HIDE DEF K
  <2> QED
    BY <2>1, LeastIndex
<1>3. m \in i .. LastIndex(g) /\ ~(TermAt(g, i) <= TermAt(g, m))
  OBVIOUS
<1>4. m # i
  BY <1>1, <1>3
<1>5. /\ m \in 1 .. LastIndex(g) /\ m - 1 \in i .. LastIndex(g) /\ ~(m <= m - 1)
      /\ m - 1 \in 0 .. LastIndex(g) /\ m \in 0 .. LastIndex(g)
      /\ m \in g.prev.index + 1 .. LastIndex(g)
  BY <1>1, <1>3, <1>4
<1>6. TermAt(g, i) <= TermAt(g, m - 1)
  BY <1>2, <1>5
<1>7. TermsStep(Edge(g, m))
  BY <1>5, EdgeIn
<1>8. /\ Edge(g, m).entry.term = TermAt(g, m)
      /\ Edge(g, m).before = TermAt(g, m - 1)
  BY <1>5, TermAtEntry DEF Edge
<1>9. TermAt(g, m - 1) <= TermAt(g, m)
  <2>1. TermAt(g, m - 1) \in Nat /\ TermAt(g, m) \in Nat
    BY <1>1, <1>5
  <2>2. TermAt(g, m) > TermAt(g, m - 1) \/ TermAt(g, m) = TermAt(g, m - 1)
    BY <1>7, <1>8 DEF TermsStep
  <2> QED
    BY <2>1, <2>2
<1> QED
  <2>1. TermAt(g, i) \in Nat /\ TermAt(g, m - 1) \in Nat /\ TermAt(g, m) \in Nat
    BY <1>1, <1>5
  <2> QED
    BY <1>3, <1>6, <1>9, <2>1

LEMMA RootsAgree ==
  ASSUME NEW C, NEW g \in Entries(C), g.prev = ZERO, NEW h \in Entries(C), h.prev = ZERO,
         Distinct(Edges(g) \cup Edges(h))
  PROVE  Agree(g, h)
<1> SUFFICES ASSUME NEW i \in 1 .. LastIndex(g), i <= LastIndex(h), TermAt(g, i) = TermAt(h, i),
                    NEW j \in 1 .. i
             PROVE  EntryAt(g, j) = EntryAt(h, j)
  BY DEF Agree
<1> DEFINE lo == 0
<1>1. /\ g.prev.index <= lo /\ h.prev.index <= lo /\ lo \in Nat
      /\ i \in lo + 1 .. LastIndex(g) /\ j \in lo + 1 .. i
  BY DEF ZERO, Pos
<1> HIDE DEF lo
<1> QED
  BY <1>1, EdgesAgree

\* An entry of term 0 at most is on every line.
LEMMA ShortLines ==
  ASSUME NEW C, NEW g \in Entries(C), g.prev = ZERO, LastIndex(g) <= 1,
         \A i \in 0 .. LastIndex(g) : TermAt(g, i) = 0,
         NEW h \in Entries(C), h.prev = ZERO, Ascends(h)
  PROVE  OneLine(g, h) /\ OneLine(h, g)
<1>1. /\ LastIndex(g) \in Nat /\ LastIndex(h) \in Nat
      /\ TermAt(h, 0) = 0
      /\ \A i \in 0 .. LastIndex(h) : TermAt(h, i) \in Nat
  BY FullFacts
<1>2. ASSUME NEW i \in 0 .. LastIndex(g), NEW j \in i .. LastIndex(h), TermAt(g, i) = TermAt(h, j)
      PROVE  TermAt(h, i) = TermAt(g, i)
  <2>1. i \in 0 .. LastIndex(h) /\ j \in 0 .. LastIndex(h) /\ j \in i .. LastIndex(h)
    BY <1>1
  <2>2. TermAt(h, i) <= TermAt(h, j)
    BY <2>1 DEF Ascends
  <2>3. TermAt(g, i) = 0
    OBVIOUS
  <2>4. TermAt(h, i) \in Nat
    BY <1>1, <2>1
  <2> QED
    BY <1>2, <2>2, <2>3, <2>4
<1>3. ASSUME NEW i \in 0 .. LastIndex(h), NEW j \in i .. LastIndex(g), TermAt(h, i) = TermAt(g, j)
      PROVE  TermAt(g, i) = TermAt(h, i)
  <2>1. i \in 0 .. LastIndex(g) /\ j \in 0 .. LastIndex(g)
    BY <1>1
  <2> QED
    BY <1>3, <2>1
<1> QED
  BY <1>2, <1>3 DEF OneLine

\* The logs of a cluster that has not started, or has just been created.
LEMMA FoundingFacts ==
  ASSUME NEW V, VotersFixed(V), NEW C, C = FixedConfigs(V), NEW g \in FoundingLogs
  PROVE  /\ g \in Entries(C)
         /\ g.prev = ZERO
         /\ LastIndex(g) <= 1
         /\ \A i \in 0 .. LastIndex(g) : TermAt(g, i) = 0
         /\ Edges(g) \subseteq Foundings
<1>1. CASE g = NewEntries(ZERO)
  <2>1. ZERO \in Position
    BY DEF ZERO, Pos, Position
  <2>2. /\ g \in Entries(C) /\ g.prev = ZERO /\ LastIndex(g) = ZERO.index
        /\ ZERO.index = 0 /\ ZERO.term = 0
    BY <1>1, <2>1, EmptyKeeps DEF ZERO, Pos
  <2>3. \A i \in 0 .. LastIndex(g) : TermAt(g, i) = 0
    BY <2>2, FullFacts
  <2>4. Edges(g) = {}
    BY <2>2 DEF Edges
  <2> QED
    BY <2>2, <2>3, <2>4
<1>2. CASE \E voters \in Creations : g = FoundingLog(voters)
  <2>1. PICK voters \in Creations : g = FoundingLog(voters)
    BY <1>2
  <2> DEFINE c == [EmptyConfig EXCEPT !.voters = voters]
             e == ConfigEntry(0, c)
  <2>2. c \in C
    BY FixedCover DEF Covering
  <2> HIDE DEF c
  <2>3. e \in Entry(C) /\ e.term = 0 /\ e.kind = "ClusterConfig"
    BY <2>2 DEF ConfigEntry, Entry
  <2>4. g = [prev |-> ZERO, ents |-> <<e>>]
    BY <2>1 DEF FoundingLog, c
  <2> HIDE DEF e
  <2>5. g.prev = ZERO /\ g.ents = <<e>> /\ Len(g.ents) = 1 /\ ZERO.index = 0 /\ ZERO.term = 0
    BY <2>4 DEF ZERO, Pos
  <2>6. ZERO \in Position /\ <<e>> \in Seq(Entry(C))
    BY <2>3 DEF ZERO, Pos, Position
  <2>7. g \in Entries(C)
    BY <2>3, <2>4, <2>6 DEF Entries, ConfigFirst
  <2>8. LastIndex(g) = 1 /\ EntryAt(g, 1) = e
    BY <2>5 DEF LastIndex, EntryAt
  <2>9. /\ TermAt(g, 0) = 0 /\ TermAt(g, 1) = 0
    BY <2>3, <2>5, <2>7, <2>8, FullFacts
  <2>10. \A i \in 0 .. LastIndex(g) : TermAt(g, i) = 0
    BY <2>8, <2>9
  <2>11. Edges(g) \subseteq {Edge(g, 1)}
    BY <2>5, <2>8 DEF Edges
  <2>12. Edge(g, 1) = Founding(voters)
    BY <2>8, <2>9 DEF Edge, Founding, e, c
  <2>13. Edges(g) \subseteq Foundings
    BY <2>11, <2>12 DEF Foundings
  <2> QED
    BY <2>5, <2>7, <2>8, <2>10, <2>13
<1> QED
  BY <1>1, <1>2 DEF FoundingLogs

BootLogs == {Boot[id].log.entries : id \in NodeId}
BootTree == BootLogs \cup FoundingLogs
BootAcks ==
  {<<x, node[x].current_term, LastIndex(node[x].log.entries)>> :
     x \in {y \in NodeId : LastPosition(node[y].log.entries).term = node[y].current_term}}

LEMMA InitFacts ==
  ASSUME Init, NEW C, \A x \in NodeId : Boot[x].log \in Logs(C), PlainBoot, NEW x \in NodeId
  PROVE  LET es == Boot[x].log.entries IN
         /\ node[x].log = Boot[x].log
         /\ node[x].role = "Follower"
         /\ node[x].commit_index = 0
         /\ stored[x] = Boot[x]
         /\ es \in Entries(C)
         /\ es.prev = ZERO
         /\ es.prev.index = 0
         /\ LastIndex(es) \in Nat
         /\ LastPosition(es) = Pos(TermAt(es, LastIndex(es)), LastIndex(es))
         /\ Contains(es, LastPosition(es))
<1> DEFINE es == Boot[x].log.entries
<1>1. node[x] = Restarted(x, Boot[x]) /\ stored[x] = Boot[x]
  BY DEF Init, Restarted
<1>2. es \in Entries(C) /\ es.prev = ZERO
  BY LogFacts DEF PlainBoot
<1>3. /\ es.prev.index = 0 /\ LastIndex(es) \in Nat /\ es.prev.index <= LastIndex(es)
  BY <1>2, FullFacts
<1>4. /\ node[x].log = Boot[x].log
      /\ node[x].role = "Follower"
      /\ node[x].commit_index = es.prev.index
  BY <1>1 DEF Restarted, Restart, SetElectionTimeout, NewNode
<1>5. Contains(es, LastPosition(es)) /\ LastPosition(es) = Pos(TermAt(es, LastIndex(es)), LastIndex(es))
  <2> HIDE DEF es
  <2>1. /\ LastPosition(es) = Pos(TermAt(es, LastIndex(es)), LastIndex(es))
        /\ LastPosition(es).index = LastIndex(es)
        /\ LastPosition(es).term = TermAt(es, LastIndex(es))
    BY DEF LastPosition, Pos
  <2> QED
    BY <1>3, <2>1 DEF Contains, ContainsIndex
<1> QED
  BY <1>1, <1>2, <1>3, <1>4, <1>5

LEMMA InitTree ==
  ASSUME NEW V, VotersFixed(V), NEW C, C = FixedConfigs(V), MatchInv, Init, PlainBoot
  PROVE  Tree(BootTree, C) /\ TreeLed(BootTree)
<1>1. \A x \in NodeId : Boot[x].log \in Logs(C)
  BY DEF VotersFixed
<1>2. ASSUME NEW g \in BootTree
      PROVE  /\ g \in Entries(C) /\ g.prev = ZERO /\ Edges(g) \subseteq Known
  <2>1. CASE g \in FoundingLogs
    BY <2>1, FoundingFacts DEF Known
  <2>2. CASE g \in BootLogs
    <3>1. PICK x \in NodeId : g = Boot[x].log.entries
      BY <2>2 DEF BootLogs
    <3>2. g \in Entries(C) /\ g.prev = ZERO /\ g = node[x].log.entries
      BY <1>1, <3>1, InitFacts
    <3>3. Edges(g) \subseteq Known
      BY <3>2 DEF Known, World, Holders
    <3> QED
      BY <3>2, <3>3
  <2> QED
    BY <2>1, <2>2 DEF BootTree
<1>3. \A e \in Known : TermsStep(e) /\ <<e.entry.term, e.index>> \in Led
  BY DEF MatchInv, EdgesLed
<1>4. \A g \in BootTree : Ascends(g)
  BY <1>2, <1>3, RootRises
<1>5. ASSUME NEW g \in BootTree, NEW h \in BootTree PROVE Agree(g, h) /\ OneLine(g, h)
  <2>1. Distinct(Edges(g) \cup Edges(h))
    BY <1>2 DEF MatchInv, EdgesMatch, Distinct
  <2>2. Agree(g, h)
    BY <1>2, <2>1, RootsAgree
  <2>3. CASE g \in FoundingLogs
    <3>1. LastIndex(g) <= 1 /\ \A i \in 0 .. LastIndex(g) : TermAt(g, i) = 0
      BY <2>3, FoundingFacts
    <3> QED
      BY <1>2, <1>4, <2>2, <3>1, ShortLines
  <2>4. CASE h \in FoundingLogs
    <3>1. LastIndex(h) <= 1 /\ \A i \in 0 .. LastIndex(h) : TermAt(h, i) = 0
      BY <2>4, FoundingFacts
    <3> QED
      BY <1>2, <1>4, <2>2, <3>1, ShortLines
  <2>5. CASE g \in BootLogs /\ h \in BootLogs
    BY <2>2, <2>5 DEF PlainBoot, BootLogs
  <2> QED
    BY <2>3, <2>4, <2>5 DEF BootTree
<1>6. Tree(BootTree, C)
  BY <1>2, <1>4, <1>5 DEF Tree
<1>7. ASSUME NEW p, OnTree(BootTree, p) PROVE <<p.term, p.index>> \in Led
  <2>1. PICK g \in BootTree : Contains(g, p)
    BY <1>7 DEF OnTree
  <2>2. /\ g \in Entries(C) /\ g.prev = ZERO /\ Edges(g) \subseteq Known
        /\ g.prev.index = 0 /\ LastIndex(g) \in Nat
        /\ p.index \in 0 .. LastIndex(g) /\ TermAt(g, p.index) = p.term
        /\ TermAt(g, 0) = 0
    BY <1>2, <2>1, FullFacts
  <2>3. CASE p.index = 0
    <3> DEFINE q == <<p.term, p.index>>
    <3>1. q \in Nat \X Nat /\ q[1] = 0
      BY <2>2, <2>3
    <3>2. q \in Led
      BY <3>1 DEF Led
    <3> QED
      BY <3>2
  <2>4. CASE p.index # 0
    <3>1. p.index \in g.prev.index + 1 .. LastIndex(g)
      BY <2>2, <2>4
    <3>2. Edge(g, p.index) \in Known
      BY <2>2, <3>1, EdgeIn
    <3>3. Edge(g, p.index).index = p.index /\ Edge(g, p.index).entry.term = p.term
      BY <2>2, <3>1, TermAtEntry DEF Edge
    <3> QED
      BY <1>3, <3>2, <3>3
  <2> QED
    BY <2>3, <2>4
<1> QED
  BY <1>6, <1>7 DEF TreeLed

\* What nodes acknowledge at the start.
LEMMA InitAcked ==
  ASSUME Init, NEW C, Typed(C), \A x \in NodeId : Boot[x].log \in Logs(C), PlainBoot,
         NEW x \in NodeId
  PROVE  LET last == LastPosition(Boot[x].log.entries)
             t == node[x].current_term
         IN  /\ \A r : Acked(BootAcks, x, r) => last.term = t /\ r.term = t /\ r.index <= last.index
             /\ last.term = t => Acked(BootAcks, x, last)
<1> DEFINE es == Boot[x].log.entries
           last == LastPosition(es)
           t == node[x].current_term
<1>1. /\ node[x].log.entries = es /\ last.index = LastIndex(es) /\ LastIndex(es) \in Nat
  <2>1. /\ node[x].log.entries = es /\ LastIndex(es) \in Nat
        /\ last = Pos(TermAt(es, LastIndex(es)), LastIndex(es))
    BY InitFacts
  <2> HIDE DEF es, last
  <2> QED
    BY <2>1 DEF Pos
<1>2. ASSUME NEW r, Acked(BootAcks, x, r)
      PROVE  last.term = t /\ r.term = t /\ r.index <= last.index
  <2>1. PICK a \in BootAcks : a[1] = x /\ a[2] = r.term /\ r.index <= a[3]
    BY <1>2 DEF Acked
  <2>2. PICK y \in NodeId : /\ LastPosition(node[y].log.entries).term = node[y].current_term
                            /\ a = <<y, node[y].current_term, LastIndex(node[y].log.entries)>>
    BY DEF BootAcks
  <2>3. y = x /\ a[2] = t /\ a[3] = LastIndex(es)
    BY <1>1, <2>1, <2>2
  <2> QED
    BY <1>1, <2>1, <2>2, <2>3
<1>3. ASSUME last.term = t PROVE Acked(BootAcks, x, last)
  <2> DEFINE a == <<x, t, LastIndex(es)>>
  <2>1. a \in BootAcks
    BY <1>1, <1>3 DEF BootAcks
  <2>2. a[1] = x /\ a[2] = last.term /\ last.index <= a[3]
    BY <1>1, <1>3
  <2> QED
    BY <2>1, <2>2 DEF Acked
<1> QED
  BY <1>2, <1>3

\* What is not on the line to a later term's position was passed over by its voters.
LEMMA InitLined ==
  ASSUME NEW V, VotersFixed(V), NEW C, C = FixedConfigs(V), Typed(C), FixedInv(V),
         MatchInv, Init, PlainBoot
  PROVE  Lined(BootTree, Voided(V, BootAcks, Now))
<1>1. IsFiniteSet(V) /\ \A x \in NodeId : Boot[x].log \in Logs(C)
  BY DEF VotersFixed
<1>2. Tree(BootTree, C) /\ TreeLed(BootTree)
  BY InitTree
<1>3. \A w \in NodeId : node[w].current_term \in Nat
  BY TypedFacts DEF IsNode, IsRecord
<1> SUFFICES ASSUME NEW p, NEW r, OnTree(BootTree, p), OnTree(BootTree, r), r.term < p.term
             PROVE  Pos(r.term, r.index) \in Voided(V, BootAcks, Now)
  BY DEF Lined, Kept
<1> DEFINE q == <<p.term, p.index>>
           z == Pos(r.term, r.index)
<1>4. /\ p.term \in Nat /\ r.term \in Nat /\ r.index \in Nat
      /\ p.term > 0
  BY <1>2, OnTreeTyped
<1>5. q \in Led /\ q[1] = p.term
  BY <1>2 DEF TreeLed
<1>6. PICK d \in NodeId : <<p.term, d>> \in elected /\ Ahead(node[d], p.term, p.index)
  <2>1. \/ q[1] = 0
        \/ \E d \in NodeId : <<q[1], d>> \in elected /\ Ahead(node[d], q[1], q[2])
    BY <1>5 DEF Led
  <2> QED
    BY <1>4, <1>5, <2>1
<1>7. node[d].current_term >= p.term
  BY <1>3, <1>4, <1>6 DEF Ahead, Settled
<1>8. PICK Q \in SUBSET V : /\ HasMajority(Q, V)
                            /\ \A w \in Q : w \in NodeId /\ node[w].current_term >= p.term
  BY <1>3, <1>6, <1>7, ElectedMajority
<1>9. Q \cap V \subseteq Movers(BootAcks, Now, z)
  <2> SUFFICES ASSUME NEW w \in Q PROVE w \in Movers(BootAcks, Now, z)
    OBVIOUS
  <2>1. w \in NodeId /\ node[w].current_term > r.term
    BY <1>3, <1>4, <1>8
  <2>2. ~Acked(BootAcks, w, z)
    <3> SUFFICES ASSUME Acked(BootAcks, w, z) PROVE FALSE
      OBVIOUS
    <3>1. z.term = node[w].current_term
      BY <1>1, <2>1, InitAcked
    <3> QED
      BY <1>3, <1>4, <2>1, <3>1 DEF Pos
  <2>3. Now[w] > z.term
    BY <2>1 DEF Now, Pos
  <2> QED
    BY <2>1, <2>2, <2>3 DEF Movers
<1>10. HasMajority(Movers(BootAcks, Now, z), V)
  BY <1>1, <1>8, <1>9, MajorityMore
<1>11. z \in Position
  BY <1>4 DEF Pos, Position
<1> QED
  BY <1>10, <1>11 DEF Voided

LEMMA InitSafe ==
  ASSUME NEW V, VotersFixed(V), NEW C, C = FixedConfigs(V), Typed(C), FixedInv(V),
         MatchInv, Init, PlainBoot
  PROVE  SafeInv(V, BootTree, BootAcks)
<1> DEFINE G == BootTree
           A == BootAcks
           U == Voided(V, A, Now)
           X == Chosen(V, A)
<1>1. \A x \in NodeId : Boot[x].log \in Logs(C)
  BY DEF VotersFixed
<1>2. Tree(G, C) /\ TreeLed(G) /\ Lined(G, U) /\ FoundingLogs \subseteq G
  BY InitTree, InitLined DEF BootTree
<1>3. net = {} /\ committed = {} /\ \A c \in NodeId : node[c].role = "Follower"
  BY <1>1, InitFacts DEF Init
<1>4. \A x \in NodeId : node[x].current_term \in Nat
  BY TypedFacts DEF IsNode, IsRecord
<1> HIDE DEF U, X
<1>5. ASSUME NEW x \in NodeId PROVE NodeSafe(G, A, U, X, x, node[x], stored[x])
  <2> DEFINE es == Boot[x].log.entries
             last == LastPosition(es)
  <2>1. /\ node[x].log.entries = es
        /\ stored[x].log.entries = es
        /\ node[x].role = "Follower"
        /\ node[x].commit_index = 0
        /\ es \in Entries(C) /\ es.prev = ZERO /\ es.prev.index = 0
        /\ LastIndex(es) \in Nat
        /\ Contains(es, last)
    BY <1>1, InitFacts
  <2>2. es \in G
    BY DEF BootTree, BootLogs
  <2>3. Backed(G, es)
    BY <2>1, <2>2, PartSelf DEF Backed
  <2>4. LogsSafe(G, es, es)
    BY <2>1, <2>3 DEF LogsSafe
  <2>5. OnTree(G, last)
    BY <2>1, <2>2 DEF OnTree
  <2>6. last.term = node[x].current_term => Acked(A, x, last)
    BY <1>1, InitAcked
  <2>7. Keeper(G, A, U, x, es)
    <3> SUFFICES ASSUME NEW r, OnTree(G, r), Acked(A, x, r) PROVE Kept(G, U, r, last)
      BY DEF Keeper
    <3>1. r.term = last.term /\ r.index <= last.index
      BY <1>1, InitAcked
    <3> HIDE DEF last, G
    <3>2. Before(G, r, last)
      BY <1>2, <2>5, <3>1, OneTermLine
    <3> QED
      BY <3>2 DEF Kept
  <2>8. CommitSafe(G, X, node[x])
    <3>1. ContainsIndex(es, 0)
      BY <2>1 DEF ContainsIndex
    <3>2. Spot(es, 0) = ZERO
      BY <2>1 DEF Spot, TermAt, Pos, ZERO
    <3>3. Decided(G, X, Spot(es, 0), node[x].current_term)
      BY <3>2 DEF Decided
    <3> QED
      BY <2>1, <3>1, <3>3 DEF CommitSafe
  <2> QED
    BY <2>1, <2>4, <2>6, <2>7, <2>8 DEF NodeSafe
<1>6. AcksOK(G, A, Now)
  <2> SUFFICES ASSUME NEW a \in A
               PROVE  a[1] \in NodeId /\ a[2] <= Now[a[1]] /\ OnTree(G, Pos(a[2], a[3]))
    BY DEF AcksOK
  <2>1. PICK x \in NodeId : /\ LastPosition(node[x].log.entries).term = node[x].current_term
                            /\ a = <<x, node[x].current_term, LastIndex(node[x].log.entries)>>
    BY DEF BootAcks
  <2> DEFINE es == Boot[x].log.entries
             last == LastPosition(es)
  <2>2. /\ node[x].log.entries = es
        /\ last = Pos(TermAt(es, LastIndex(es)), LastIndex(es))
        /\ Contains(es, last)
    BY <1>1, InitFacts
  <2>3. Pos(a[2], a[3]) = last
    BY <2>1, <2>2 DEF Pos
  <2>4. es \in G
    BY DEF BootTree, BootLogs
  <2>5. OnTree(G, last)
    BY <2>2, <2>4 DEF OnTree
  <2>6. a[1] \in NodeId /\ a[2] = Now[a[1]] /\ Now[a[1]] \in Nat
    BY <1>4, <2>1 DEF Now
  <2> QED
    BY <2>3, <2>5, <2>6
<1>7. \A p \in net : PacketSafe(G, A, X, Now, p)
  BY <1>3
<1>8. HistorySafe(G, X)
  BY <1>3 DEF HistorySafe
<1>9. \A c \in NodeId : node[c].role = "Candidate" => CandidateSafe(V, G, A, U, c)
  BY <1>3
<1> HIDE DEF G, A
<1>10. SafeNow(V, G, A, U, X)
  BY <1>2, <1>5, <1>6, <1>7, <1>8, <1>9 DEF SafeNow
<1> QED
  BY <1>10 DEF SafeInv, U, X, G, A

-----------------------------------------------------------------------------
(* What the invariant says of committed entries. *)

\* The entry c is below the chosen position of index k on the log h.
Beneath(h, k, c) == k \in 1 .. LastIndex(h) /\ c[1] \in 1 .. k /\ EntryAt(h, c[1]) = c[2]

LEMMA ChosenSpot ==
  ASSUME NEW C, NEW G, NEW U, NEW X, Lawful(C, G, U, X), NEW h \in G,
         NEW k \in 1 .. LastIndex(h)
  PROVE  LET r == Spot(h, k) IN
         /\ Contains(h, r)
         /\ OnTree(G, r)
         /\ r.index = k
         /\ r = Pos(r.term, r.index)
         /\ r \in X => \A p : Kept(G, U, r, p) => Before(G, r, p)
<1> DEFINE r == Spot(h, k)
<1>1. r.index = k /\ r.term = TermAt(h, k) /\ r = Pos(r.term, r.index)
  BY DEF Spot, Pos
<1>2. h \in Entries(C) /\ h.prev = ZERO
  BY DEF Lawful, Tree
<1> HIDE DEF r
<1>3. k \in 0 .. LastIndex(h)
  BY <1>2, FullFacts
<1>4. Contains(h, r)
  BY <1>1, <1>2, <1>3, FullFacts
<1>5. r \in X => \A p : Kept(G, U, r, p) => Before(G, r, p)
  BY <1>1 DEF Lawful, Kept
<1> QED
  BY <1>1, <1>4, <1>5 DEF OnTree, r

\* A log whose end is after a chosen position has what is below it.
LEMMA KeepsBelow ==
  ASSUME NEW C, NEW G, NEW U, NEW X, Lawful(C, G, U, X), NEW h \in G, NEW k, NEW c,
         Beneath(h, k, c), NEW d \in Entries(C), Backed(G, d),
         NEW p, Contains(d, p), Before(G, Spot(h, k), p)
  PROVE  Keeps(d, c)
<1> DEFINE r == Spot(h, k)
<1>1. k \in 1 .. LastIndex(h) /\ c[1] \in 1 .. k /\ EntryAt(h, c[1]) = c[2]
  BY DEF Beneath
<1>2. Contains(h, r) /\ r.index = k
  BY <1>1, ChosenSpot
<1>3. Tree(G, C) /\ h \in Entries(C) /\ h.prev = ZERO
  BY DEF Lawful, Tree
<1>4. PICK g \in G : PartOf(d, g)
  BY DEF Backed
<1>5. g \in Entries(C) /\ g.prev = ZERO
  BY <1>3 DEF Tree
<1>6. /\ g.prev.index <= d.prev.index
      /\ d.prev.index \in Nat /\ LastIndex(d) \in Nat /\ LastIndex(h) \in Nat
  BY <1>3, <1>5, EntriesFacts DEF ZERO, Pos
<1> HIDE DEF r
<1>7. Contains(g, p)
  BY <1>4, <1>5, <1>6, PartFacts
<1>8. Before(G, r, p)
  BY DEF r
<1>9. Contains(g, r)
  BY <1>3, <1>7, <1>8, BeforeContained
<1>10. EntryAt(g, c[1]) = c[2]
  BY <1>1, <1>2, <1>3, <1>9, SameBelow
<1>11. k <= LastIndex(d)
  <2>1. p.index \in Nat /\ p.index <= LastIndex(d)
    BY TermAtTyped DEF Contains
  <2>2. r.index <= p.index
    BY <1>8 DEF Before
  <2> QED
    BY <1>1, <1>2, <1>6, <2>1, <2>2
<1>12. c[1] \in Nat /\ c[1] <= LastIndex(d)
  BY <1>1, <1>6, <1>11
<1>13. CASE c[1] <= d.prev.index
  BY <1>13 DEF Keeps
<1>14. CASE ~(c[1] <= d.prev.index)
  <2>1. c[1] \in d.prev.index + 1 .. LastIndex(d)
    BY <1>6, <1>12, <1>14
  <2>2. EntryAt(d, c[1]) = c[2]
    BY <1>4, <1>10, <2>1 DEF PartOf
  <2> QED
    BY <1>12, <2>2 DEF Keeps
<1> QED
  BY <1>13, <1>14

\* Entries of one index that are below chosen positions are the same.
LEMMA BelowAgrees ==
  ASSUME NEW C, NEW G, NEW U, NEW X, Lawful(C, G, U, X), NEW a, Below(G, X, a),
         NEW b, Below(G, X, b), a[1] = b[1]
  PROVE  a[2] = b[2]
<1>1. PICK h \in G : \E k : Beneath(h, k, a) /\ Spot(h, k) \in X
  BY DEF Below, Beneath
<1>2. PICK k : Beneath(h, k, a) /\ Spot(h, k) \in X
  BY <1>1
<1>3. PICK g \in G : \E n : Beneath(g, n, b) /\ Spot(g, n) \in X
  BY DEF Below, Beneath
<1>4. PICK n : Beneath(g, n, b) /\ Spot(g, n) \in X
  BY <1>3
<1> DEFINE r == Spot(h, k)
           q == Spot(g, n)
<1>5. /\ Contains(h, r) /\ OnTree(G, r) /\ r.index = k /\ r.term \in Nat
      /\ Contains(g, q) /\ OnTree(G, q) /\ q.index = n /\ q.term \in Nat
      /\ r \in X /\ q \in X
  <2>1. /\ Contains(h, r) /\ OnTree(G, r) /\ r.index = k
        /\ Contains(g, q) /\ OnTree(G, q) /\ q.index = n
    <3>1. k \in 1 .. LastIndex(h) /\ n \in 1 .. LastIndex(g)
      BY <1>2, <1>4 DEF Beneath
    <3>2. Contains(h, r) /\ OnTree(G, r) /\ r.index = k
      BY <3>1, ChosenSpot
    <3>3. Contains(g, q) /\ OnTree(G, q) /\ q.index = n
      BY <3>1, ChosenSpot
    <3> QED
      BY <3>2, <3>3
  <2>2. r \in X /\ q \in X
    BY <1>2, <1>4
  <2> HIDE DEF r, q
  <2>3. r.term \in Nat /\ q.term \in Nat
    BY <2>1, OnTreeTyped DEF Lawful
  <2> QED
    BY <2>1, <2>2, <2>3
<1>6. /\ k \in 1 .. LastIndex(h) /\ a[1] \in 1 .. k /\ EntryAt(h, a[1]) = a[2]
      /\ n \in 1 .. LastIndex(g) /\ b[1] \in 1 .. n /\ EntryAt(g, b[1]) = b[2]
  BY <1>2, <1>4 DEF Beneath
<1>7. Tree(G, C)
  BY DEF Lawful
<1> HIDE DEF r, q
<1>8. Before(G, r, q) \/ Before(G, q, r)
  <2>1. CASE r.term <= q.term
    BY <1>5, <2>1, ChosenBefore
  <2>2. CASE q.term <= r.term
    BY <1>5, <2>2, ChosenBefore
  <2> QED
    BY <1>5, <2>1, <2>2
<1>9. CASE Before(G, r, q)
  <2>1. Contains(g, r)
    BY <1>5, <1>7, <1>9, BeforeContained
  <2>2. EntryAt(g, a[1]) = EntryAt(h, a[1])
    BY <1>5, <1>6, <1>7, <2>1, SameBelow
  <2> QED
    BY <1>6, <2>2
<1>10. CASE Before(G, q, r)
  <2>1. Contains(h, q)
    BY <1>5, <1>7, <1>10, BeforeContained
  <2>2. EntryAt(g, b[1]) = EntryAt(h, b[1])
    BY <1>5, <1>6, <1>7, <2>1, SameBelow
  <2> QED
    BY <1>6, <2>2
<1> QED
  BY <1>8, <1>9, <1>10

\* Entries committed at one index are the same.
LEMMA HistoryAgrees ==
  ASSUME NEW C, NEW G, NEW U, NEW X, Lawful(C, G, U, X), HistorySafe(G, X)
  PROVE  StateMachineSafety
<1> SUFFICES ASSUME NEW a \in committed, NEW b \in committed, a[1] = b[1] PROVE a[2] = b[2]
  BY DEF StateMachineSafety
<1>1. Below(G, X, a) /\ Below(G, X, b)
  BY DEF HistorySafe, Below
<1> QED
  BY <1>1, BelowAgrees

\* A leader's log is on the line of every position of its term, and of what was decided by then.
LEMMA LeadersLine ==
  ASSUME NEW V, IsFiniteSet(V), V # {}, NEW C, C = FixedConfigs(V), Typed(C), FixedInv(V),
         MatchInv, NEW G, NEW A, SafeInv(V, G, A), NEW x \in NodeId, node[x].role = "Leader",
         NEW r, OnTree(G, r),
         \/ r.term = node[x].current_term
         \/ Decided(G, Chosen(V, A), r, node[x].current_term)
  PROVE  Before(G, r, LastPosition(node[x].log.entries))
<1> DEFINE es == node[x].log.entries
           last == LastPosition(es)
           t == node[x].current_term
           U == Voided(V, A, Now)
           X == Chosen(V, A)
<1>1. t \in Nat /\ es \in Entries(C)
  BY TypedFacts, SoundLog, LogFacts DEF IsNode, IsRecord
<1>2. <<t, x>> \in elected /\ last.term = t /\ t > 0
  BY DEF FixedInv, LeadersElected, MatchInv, LeadersRipe, Ripe
<1>3. /\ Tree(G, C) /\ TreeLed(G) /\ Backed(G, es)
      /\ Lawful(C, G, U, X)
  BY SafeLawful DEF SafeInv, SafeNow, NodeSafe, LogsSafe
<1> HIDE DEF U, X
<1>4. OnTree(G, last) /\ last.index = LastIndex(es)
  <2> HIDE DEF es
  <2>1. OnTree(G, last)
    BY <1>1, <1>3, BackedFacts
  <2>2. last.index = LastIndex(es)
    BY DEF LastPosition, Pos
  <2> QED
    BY <2>1, <2>2
<1>5. ASSUME NEW p, OnTree(G, p), p.term = t PROVE Before(G, p, last)
  <2> DEFINE q == <<p.term, p.index>>
  <2>1. q \in Led
    BY <1>3, <1>5 DEF TreeLed
  <2>2. \/ q[1] = 0
        \/ \E d \in NodeId : <<q[1], d>> \in elected /\ Ahead(node[d], q[1], q[2])
    BY <2>1 DEF Led
  <2>3. PICK d \in NodeId : <<t, d>> \in elected /\ Ahead(node[d], t, p.index)
    BY <1>2, <1>5, <2>2
  <2>4. d = x
    <3> DEFINE k == <<t, d>>
               l == <<t, x>>
    <3>1. k \in elected /\ l \in elected /\ k[1] = l[1] /\ k[2] = d /\ l[2] = x
      BY <1>2, <2>3
    <3> QED
      BY <3>1 DEF FixedInv, ElectionSafety
  <2>5. p.index <= last.index
    BY <1>4, <2>3, <2>4 DEF Ahead
  <2>6. p.term = last.term
    BY <1>2, <1>5
  <2> HIDE DEF last
  <2> QED
    BY <1>3, <1>4, <1>5, <2>5, <2>6, OneTermLine
<1>6. ASSUME NEW c \in X, OnTree(G, c), c.term <= t PROVE Before(G, c, last)
  <2>1. Before(G, c, last) \/ Before(G, last, c)
    <3> HIDE DEF last
    <3> QED
      BY <1>2, <1>3, <1>4, <1>6, ChosenBefore
  <2>2. CASE Before(G, last, c)
    <3>1. last.term <= c.term /\ c.term \in Nat
      <4> HIDE DEF last
      <4> QED
        BY <1>3, <2>2, BeforeFacts
    <3>2. c.term = t
      BY <1>1, <1>2, <1>6, <3>1
    <3> QED
      BY <1>5, <1>6, <3>2
  <2> QED
    BY <2>1, <2>2
<1>7. CASE r.term = t
  BY <1>5, <1>7
<1>8. CASE r = ZERO
  BY <1>3, <1>4, <1>8, OnTreeTyped
<1>9. ASSUME NEW c \in X, c.term <= t, Before(G, r, c) PROVE Before(G, r, last)
  <2>1. OnTree(G, c)
    BY <1>3, <1>9, BeforeFacts
  <2>2. Before(G, c, last)
    BY <1>6, <1>9, <2>1
  <2> QED
    BY <1>3, <1>9, <2>2, BeforeTransitive
<1> QED
  BY <1>7, <1>8, <1>9 DEF Decided, X

\* A chosen position of the latest leader's term or before is on its log.
LEMMA LeaderHas ==
  ASSUME NEW V, IsFiniteSet(V), V # {}, NEW C, C = FixedConfigs(V), Typed(C), FixedInv(V),
         MatchInv, NEW G, NEW A, SafeInv(V, G, A), NEW x \in NodeId, LatestLeader(x),
         NEW r \in Chosen(V, A), OnTree(G, r)
  PROVE  Before(G, r, LastPosition(node[x].log.entries))
<1> DEFINE t == node[x].current_term
           q == <<r.term, r.index>>
<1>1. t \in Nat /\ node[x].role = "Leader" /\ \A l \in elected : l[1] <= t
  BY TypedFacts DEF IsNode, IsRecord, LatestLeader
<1>2. Tree(G, C) /\ TreeLed(G)
  BY DEF SafeInv, SafeNow
<1>3. q \in Led
  BY <1>2 DEF TreeLed
<1>4. q[1] = 0 \/ \E d \in NodeId : <<q[1], d>> \in elected
  BY <1>3 DEF Led
<1>5. r.term <= t
  <2>1. CASE r.term = 0
    BY <1>1, <2>1
  <2>2. CASE \E d \in NodeId : <<r.term, d>> \in elected
    <3>1. PICK d \in NodeId : <<r.term, d>> \in elected
      BY <2>2
    <3> DEFINE l == <<r.term, d>>
    <3>2. l \in elected /\ l[1] = r.term
      BY <3>1
    <3>3. l[1] <= t
      BY <1>1, <3>2
    <3> QED
      BY <3>2, <3>3
  <2> QED
    BY <1>4, <2>1, <2>2
<1>6. Before(G, r, r)
  BY <1>2, OnTreeTyped
<1>7. Decided(G, Chosen(V, A), r, t)
  BY <1>5, <1>6 DEF Decided
<1> QED
  BY <1>1, <1>7, LeadersLine

\* What the leader of the latest term has, and who stores it.
LEMMA LeadersComplete ==
  ASSUME NEW V, IsFiniteSet(V), V # {}, NEW C, C = FixedConfigs(V), Typed(C), FixedInv(V),
         MatchInv, NEW G, NEW A, SafeInv(V, G, A)
  PROVE  LeaderCompleteness
<1> SUFFICES ASSUME NEW x \in NodeId, LatestLeader(x), NEW c \in committed
             PROVE  Keeps(node[x].log.entries, c)
  BY DEF LeaderCompleteness
<1> DEFINE es == node[x].log.entries
           last == LastPosition(es)
           U == Voided(V, A, Now)
           X == Chosen(V, A)
<1>1. es \in Entries(C)
  BY TypedFacts, SoundLog, LogFacts
<1>2. /\ HistorySafe(G, X) /\ Backed(G, es) /\ Lawful(C, G, U, X)
  BY SafeLawful DEF SafeInv, SafeNow, NodeSafe, LogsSafe
<1>3. PICK h \in G : \E k : Beneath(h, k, c) /\ Spot(h, k) \in X
  BY <1>2 DEF HistorySafe, Beneath
<1>4. PICK k : Beneath(h, k, c) /\ Spot(h, k) \in X
  BY <1>3
<1>5. OnTree(G, Spot(h, k))
  <2> HIDE DEF X, U
  <2> QED
    BY <1>2, <1>4, ChosenSpot DEF Beneath
<1>6. Before(G, Spot(h, k), last)
  BY <1>4, <1>5, LeaderHas
<1>7. Contains(es, last)
  BY <1>1, LastPositionTyped
<1> HIDE DEF es, last, U, X
<1>8. Keeps(es, c)
  BY <1>1, <1>2, <1>4, <1>6, <1>7, KeepsBelow
<1> QED
  BY <1>8 DEF es

LEMMA MajorityStores ==
  ASSUME NEW V, IsFiniteSet(V), V # {}, NEW C, C = FixedConfigs(V), Typed(C),
         NEW G, NEW A, SafeInv(V, G, A)
  PROVE  /\ \A c \in committed : HasMajority({n \in NodeId : Keeps(stored[n].log.entries, c)}, V)
         /\ CommittedOnMajority
<1> DEFINE U == Voided(V, A, Now)
           X == Chosen(V, A)
<1>1. Lawful(C, G, U, X) /\ HistorySafe(G, X)
  BY SafeLawful DEF SafeInv, SafeNow
<1>2. \A x \in NodeId : NodeSafe(G, A, U, X, x, node[x], stored[x])
  BY DEF SafeInv, SafeNow
<1>3. ASSUME NEW c \in committed
      PROVE  HasMajority({n \in NodeId : Keeps(stored[n].log.entries, c)}, V)
  <2> DEFINE S == {n \in NodeId : Keeps(stored[n].log.entries, c)}
  <2>1. PICK h \in G : \E k : Beneath(h, k, c) /\ Spot(h, k) \in X
    BY <1>1 DEF HistorySafe, Beneath
  <2>2. PICK k : Beneath(h, k, c) /\ Spot(h, k) \in X
    BY <2>1
  <2> DEFINE r == Spot(h, k)
  <2>3. HasMajority(Ackers(A, r), V)
    BY <2>2 DEF Chosen
  <2> HIDE DEF U, X
  <2>4. OnTree(G, r) /\ \A p : Kept(G, U, r, p) => Before(G, r, p)
    BY <1>1, <2>2, ChosenSpot DEF Beneath
  <2>5. ASSUME NEW w \in NodeId, Acked(A, w, r) PROVE Keeps(stored[w].log.entries, c)
    <3> DEFINE es == node[w].log.entries
               ds == stored[w].log.entries
               last == LastPosition(es)
    <3>1. ds \in Entries(C)
      BY TypedFacts, LogFacts
    <3>2. Backed(G, ds) /\ Contains(ds, last) /\ Keeper(G, A, U, w, es)
      BY <1>2 DEF NodeSafe, LogsSafe
    <3>3. Before(G, r, last)
      BY <2>4, <2>5, <3>2 DEF Keeper
    <3> HIDE DEF es, ds, last
    <3>4. Keeps(ds, c)
      BY <1>1, <2>2, <3>1, <3>2, <3>3, KeepsBelow
    <3> QED
      BY <3>4 DEF ds
  <2>6. Ackers(A, r) \cap V \subseteq S
    BY <2>5 DEF Ackers
  <2> HIDE DEF S, r
  <2>7. HasMajority(S, V)
    BY <2>3, <2>6, MajorityMore
  <2> QED
    BY <2>7 DEF S
<1>4. ASSUME NEW x \in NodeId, LatestLeader(x) PROVE Config(node[x]).voters = V
  <2>1. Sound(node[x], C) /\ node[x].role = "Leader"
    BY <1>4, TypedFacts DEF LatestLeader
  <2>2. Config(node[x]) \in C
    BY <2>1, ConfigOfLeader
  <2> QED
    BY <2>2 DEF FixedConfigs
<1> QED
  BY <1>3, <1>4 DEF CommittedOnMajority

\* What a node reports as committed no node reports as rejected.
LEMMA StatusAgrees ==
  ASSUME NEW V, IsFiniteSet(V), V # {}, NEW C, C = FixedConfigs(V), Typed(C),
         NEW G, NEW A, SafeInv(V, G, A)
  PROVE  CommitStatusAgrees
<1> DEFINE U == Voided(V, A, Now)
           X == Chosen(V, A)
<1>1. Lawful(C, G, U, X) /\ Tree(G, C)
  BY SafeLawful DEF SafeInv, SafeNow
<1>2. \A x \in NodeId : NodeSafe(G, A, U, X, x, node[x], stored[x])
  BY DEF SafeInv, SafeNow
<1> HIDE DEF U, X
<1>3. ASSUME NEW x \in NodeId
      PROVE  LET es == node[x].log.entries
                 q == Spot(es, node[x].commit_index)
             IN  /\ es \in Entries(C)
                 /\ Backed(G, es)
                 /\ Contains(es, q)
                 /\ q.index = node[x].commit_index
                 /\ q.index \in Nat
                 /\ OnTree(G, q)
                 /\ Decided(G, X, q, node[x].current_term)
  <2> DEFINE es == node[x].log.entries
             i == node[x].commit_index
             q == Spot(es, i)
  <2>1. es \in Entries(C) /\ i \in Nat
    BY TypedFacts, SoundLog, LogFacts DEF Sound
  <2>2. Backed(G, es) /\ ContainsIndex(es, i) /\ Decided(G, X, q, node[x].current_term)
    BY <1>2 DEF NodeSafe, LogsSafe, CommitSafe
  <2>3. q.index = i /\ q.term = TermAt(es, i)
    BY DEF Spot, Pos
  <2> HIDE DEF es, i
  <2>4. Contains(es, q)
    BY <2>2, <2>3 DEF Contains
  <2> HIDE DEF q
  <2>5. OnTree(G, q)
    BY <1>1, <2>1, <2>2, <2>4, BackedFacts
  <2> QED
    BY <2>1, <2>2, <2>3, <2>4, <2>5 DEF es, i, q
<1>4. ASSUME NEW p, NEW a \in NodeId, NEW b \in NodeId,
             CommitStatus(node[a], p) = "Committed", CommitStatus(node[b], p) = "Rejected"
      PROVE  FALSE
  <2> DEFINE ea == node[a].log.entries
             eb == node[b].log.entries
             ia == node[a].commit_index
             ib == node[b].commit_index
             qa == Spot(ea, ia)
             qb == Spot(eb, ib)
  <2>1. /\ ea \in Entries(C) /\ Backed(G, ea) /\ Contains(ea, qa)
        /\ qa.index = ia /\ qa.index \in Nat /\ OnTree(G, qa)
        /\ Decided(G, X, qa, node[a].current_term)
    BY <1>3
  <2>2. /\ eb \in Entries(C) /\ Backed(G, eb) /\ Contains(eb, qb)
        /\ qb.index = ib /\ qb.index \in Nat /\ OnTree(G, qb)
        /\ Decided(G, X, qb, node[b].current_term)
    BY <1>3
  <2>3. Contains(ea, p) /\ p.index <= ia
    BY <1>4 DEF CommitStatus
  <2>4. /\ ~(p.index < eb.prev.index)
        /\ \/ p.index <= ib /\ ~Contains(eb, p)
           \/ ~(p.index <= ib) /\ p.term < TermAt(eb, ib)
    BY <1>4 DEF CommitStatus
  <2>5. qb.term = TermAt(eb, ib)
    BY DEF Spot, Pos
  <2> HIDE DEF ea, eb, ia, ib, qa, qb
  <2>6. p.index \in Nat /\ eb.prev.index \in Nat /\ eb.prev.index <= p.index
    <3>1. p.index \in Nat
      BY <2>1, <2>3, TermAtTyped DEF Contains
    <3>2. eb.prev.index \in Nat
      BY <2>2, EntriesFacts
    <3> QED
      BY <2>4, <3>1, <3>2
  <2>7. Before(G, p, qa)
    <3>1. PICK g \in G : PartOf(ea, g)
      BY <2>1 DEF Backed
    <3>2. g \in Entries(C) /\ g.prev.index <= ea.prev.index
      BY <1>1, <2>1, EntriesFacts DEF Tree, ZERO, Pos
    <3>3. Contains(g, p) /\ Contains(g, qa)
      BY <2>1, <2>3, <3>1, <3>2, PartFacts
    <3> QED
      BY <2>1, <2>3, <3>3 DEF Before
  <2>8. /\ Before(G, qa, qb) \/ Before(G, qb, qa)
        /\ qb.index <= qa.index => Before(G, qb, qa)
    BY <1>1, <2>1, <2>2, DecidedLine
  <2>9. CASE p.index <= ib /\ ~Contains(eb, p)
    <3>1. Before(G, p, qb)
      <4>1. CASE Before(G, qa, qb)
        BY <1>1, <2>7, <4>1, BeforeTransitive
      <4>2. CASE Before(G, qb, qa)
        <5>1. p.index <= qb.index
          BY <2>2, <2>9
        <5> QED
          BY <1>1, <2>7, <4>2, <5>1, BeforeLinear
      <4> QED
        BY <2>8, <4>1, <4>2
    <3>2. Contains(eb, p)
      BY <1>1, <2>2, <2>6, <3>1, BackedFacts
    <3> QED
      BY <2>9, <3>2
  <2>10. CASE ~(p.index <= ib) /\ p.term < TermAt(eb, ib)
    <3>1. qb.index <= p.index /\ qb.index <= qa.index
      BY <2>1, <2>2, <2>3, <2>6, <2>10
    <3>2. Before(G, qb, qa)
      BY <2>8, <3>1
    <3>3. Before(G, qb, p)
      BY <1>1, <2>7, <3>1, <3>2, BeforeLinear
    <3>4. qb.term \in Nat /\ p.term \in Nat /\ qb.term <= p.term
      BY <1>1, <3>3, BeforeFacts
    <3>5. p.term < qb.term
      BY <2>5, <2>10
    <3> QED
      BY <3>4, <3>5
  <2> QED
    BY <2>4, <2>9, <2>10
<1> QED
  BY <1>4 DEF CommitStatusAgrees

-----------------------------------------------------------------------------
(* What storage keeps of the committed entries. *)

\* Where a committed entry is on a log that has it.
LEMMA CommittedDecided ==
  ASSUME NEW V, NEW C, C = FixedConfigs(V), NEW G, NEW A, SafeInv(V, G, A),
         NEW es \in Entries(C), NEW c \in committed, Keeps(es, c), es.prev.index < c[1],
         NEW t \in Nat, \A l \in elected : l[1] <= t
  PROVE  \E h \in G : LET p == Spot(h, c[1]) IN
           /\ Beneath(h, c[1], c)
           /\ Contains(es, p)
           /\ p.index = c[1]
           /\ Decided(G, Chosen(V, A), p, t)
<1> DEFINE X == Chosen(V, A)
<1>1. Tree(G, C) /\ TreeLed(G) /\ HistorySafe(G, X)
  BY DEF SafeInv, SafeNow
<1>2. PICK h \in G : \E k : Beneath(h, k, c) /\ Spot(h, k) \in X
  BY <1>1 DEF HistorySafe, Beneath
<1>3. PICK k : Beneath(h, k, c) /\ Spot(h, k) \in X
  BY <1>2
<1> HIDE DEF X
<1>4. k \in 1 .. LastIndex(h) /\ c[1] \in 1 .. k /\ EntryAt(h, c[1]) = c[2]
  BY <1>3 DEF Beneath
<1>5. h \in Entries(C) /\ h.prev = ZERO
  BY <1>1 DEF Tree
<1>6. LastIndex(h) \in Nat
  BY <1>5, EntriesFacts
<1>7. c[1] \in 1 .. LastIndex(h) /\ Beneath(h, c[1], c) /\ c[1] <= k /\ c[1] \in Nat /\ k \in Nat
  BY <1>4, <1>6 DEF Beneath
<1> DEFINE p == Spot(h, c[1])
           r == Spot(h, k)
<1>8. p.index = c[1] /\ p.term = TermAt(h, c[1]) /\ r.index = k /\ r.term = TermAt(h, k)
  BY DEF Spot, Pos
<1>9. Contains(h, p) /\ Contains(h, r)
  BY <1>4, <1>5, <1>6, <1>7, <1>8, FullFacts
<1>10. Before(G, p, r) /\ OnTree(G, r)
  BY <1>7, <1>8, <1>9 DEF Before, OnTree
<1>11. r.term <= t
  <2> DEFINE q == <<r.term, r.index>>
  <2>1. q \in Led
    BY <1>1, <1>10 DEF TreeLed
  <2>2. \/ q[1] = 0
        \/ \E d \in NodeId : <<q[1], d>> \in elected
    BY <2>1 DEF Led
  <2>3. q[1] = r.term
    OBVIOUS
  <2>4. CASE r.term = 0
    BY <2>4
  <2>5. CASE \E d \in NodeId : <<r.term, d>> \in elected
    <3>1. PICK d \in NodeId : <<r.term, d>> \in elected
      BY <2>5
    <3> DEFINE l == <<r.term, d>>
    <3>2. l \in elected /\ l[1] = r.term
      BY <3>1
    <3>3. l[1] <= t
      BY <3>2
    <3> QED
      BY <3>2, <3>3
  <2> QED
    BY <2>2, <2>3, <2>4, <2>5
<1>12. Decided(G, X, p, t)
  BY <1>3, <1>10, <1>11 DEF Decided
<1>13. Contains(es, p)
  <2>1. es.prev.index \in Nat /\ LastIndex(es) \in Nat
    BY EntriesFacts
  <2>2. c[1] <= LastIndex(es) /\ EntryAt(es, c[1]) = c[2]
    BY <1>7, <2>1 DEF Keeps
  <2>3. TermAt(es, c[1]) = EntryAt(es, c[1]).term
    <3>1. c[1] # es.prev.index
      BY <1>7, <2>1
    <3> QED
      BY <3>1 DEF TermAt, EntryAt
  <2>4. TermAt(h, c[1]) = EntryAt(h, c[1]).term
    BY <1>5, <1>7, FullFacts
  <2>5. TermAt(es, p.index) = p.term
    BY <1>4, <1>8, <2>2, <2>3, <2>4
  <2> HIDE DEF p
  <2>6. ContainsIndex(es, p.index)
    BY <1>7, <1>8, <2>1, <2>2 DEF ContainsIndex
  <2> QED
    BY <2>5, <2>6 DEF Contains
<1> QED
  BY <1>7, <1>8, <1>12, <1>13 DEF X

\* A log that contains the position of a committed entry keeps the entry.
LEMMA KeepsAt ==
  ASSUME NEW C, NEW G, NEW U, NEW X, Lawful(C, G, U, X), NEW h \in G, NEW c,
         Beneath(h, c[1], c), NEW d \in Entries(C), Backed(G, d), Contains(d, Spot(h, c[1]))
  PROVE  Keeps(d, c)
<1> DEFINE p == Spot(h, c[1])
<1>1. OnTree(G, p) /\ Tree(G, C)
  BY ChosenSpot DEF Beneath, Lawful
<1> HIDE DEF p
<1>2. Before(G, p, p)
  BY <1>1, BeforeReflexive
<1>3. Contains(d, p)
  BY DEF p
<1> QED
  BY <1>2, <1>3, KeepsBelow DEF p

\* A leader's log, or a log that has not heard of one, keeps all its positions.
LEMMA GrownKeeps ==
  ASSUME NEW V, NEW G, NEW A, NEW x, NEW nd, NEW H, Acting(V, G, A, x, nd, H),
         NEW C, C = FixedConfigs(V), Grown(V, node[x], nd, C),
         NEW p, Contains(node[x].log.entries, p)
  PROVE  Contains(nd.log.entries, p)
<1> DEFINE es == node[x].log.entries
           b == nd.log.entries
<1>1. es \in Entries(C) /\ b \in Entries(C)
  BY ActingTyped
<1>2. PICK a \in Entries(C) :
        /\ \/ a = es
           \/ V \in Creations /\ a = FoundingLog(V) /\ es = NewEntries(ZERO)
        /\ \/ b = a
           \/ /\ nd.role = "Leader"
              /\ LastIndex(a) > 0
              /\ \E e \in Entry(C) : e.term = nd.current_term /\ b = Push(a, e)
  BY DEF Grown
<1>3. /\ a.prev = es.prev
      /\ LastIndex(es) <= LastIndex(a)
      /\ \A i \in es.prev.index .. LastIndex(es) : TermAt(a, i) = TermAt(es, i)
  BY <1>2, GrownBase
<1>4. /\ p.index \in es.prev.index .. LastIndex(es) /\ TermAt(es, p.index) = p.term
  BY DEF Contains, ContainsIndex
<1>5. /\ es.prev.index \in Nat /\ LastIndex(es) \in Nat /\ LastIndex(a) \in Nat
      /\ a.prev.index \in Nat
  BY <1>1, EntriesFacts
<1>6. Contains(a, p)
  BY <1>3, <1>4, <1>5 DEF Contains, ContainsIndex
<1>7. CASE b = a
  BY <1>6, <1>7
<1>8. CASE LastIndex(a) > 0 /\ \E e \in Entry(C) : b = Push(a, e)
  <2>1. PICK e \in Entry(C) : b = Push(a, e)
    BY <1>8
  <2>2. LastIndex(a) = 0 => e.kind = "ClusterConfig"
    BY <1>8
  <2>3. PartOf(a, b)
    <3>1. PartOf(a, Push(a, e))
      BY <2>2, PushParts
    <3> QED
      BY <2>1, <3>1
  <2>4. b.prev = a.prev
    <3>1. Push(a, e).prev = a.prev
      BY <2>2, PushTyped
    <3> QED
      BY <2>1, <3>1
  <2> HIDE DEF b
  <2>5. b.prev.index <= a.prev.index
    BY <1>5, <2>4
  <2>6. Contains(b, p)
    BY <1>1, <1>6, <2>3, <2>5, PartFacts
  <2> QED
    BY <2>6 DEF b
<1> QED
  BY <1>2, <1>7, <1>8

\* What a log loses to its leader is off the line to a position of the leader's term.
LEMMA HeardRules ==
  ASSUME NEW V, NEW G, NEW A, NEW x, NEW nd, NEW H, Acting(V, G, A, x, nd, H),
         NEW C, C = FixedConfigs(V), NEW m \in H, OfLeader(nd, m),
         Cut(node[x], nd, m.entries) \/ Taken(node[x], nd, m.entries, C),
         Backed(G, nd.log.entries), nd.log.entries.prev = node[x].log.entries.prev,
         NEW p, Contains(node[x].log.entries, p)
  PROVE  \/ Contains(nd.log.entries, p)
         \/ \E l : /\ l.term = nd.current_term
                    /\ OnTree(G, l)
                    /\ ~Before(G, p, l)
                    /\ ~Before(G, l, p)
<1> DEFINE L == node[x].log.entries
           b == nd.log.entries
           es == m.entries
           U == Voided(V, A, Now)
           X == Chosen(V, A)
           last == LastPosition(L)
<1>1. L \in Entries(C) /\ b \in Entries(C) /\ nd.current_term \in Nat
  BY ActingTyped
<1>2. Tree(G, C) /\ Lawful(C, G, U, X) /\ Backed(G, L)
  BY ActingSafe DEF NodeSafe, LogsSafe
<1>3. es \in Entries(C)
  BY CallHeard
<1> DEFINE Has(g, n) == /\ Spot(g, n).term = nd.current_term
                        /\ OnTree(G, Spot(g, n))
                        /\ Before(G, LastPosition(es), Spot(g, n))
                        /\ Before(G, es.prev, Spot(g, n))
<1>a. PICK g \in G : \E n \in LastIndex(es) .. LastIndex(g) : Has(g, n)
  BY CallHeard
<1>b. PICK n \in LastIndex(es) .. LastIndex(g) : Has(g, n)
  BY <1>a
<1> DEFINE l == Spot(g, n)
<1>4. /\ l.term = nd.current_term
      /\ OnTree(G, l)
      /\ Before(G, LastPosition(es), l)
      /\ Before(G, es.prev, l)
  BY <1>b
<1> HIDE DEF Has
<1>5. /\ L.prev.index \in Nat /\ LastIndex(L) \in Nat
      /\ p.index \in Nat /\ L.prev.index <= p.index /\ p.index <= LastIndex(L)
      /\ TermAt(L, p.index) = p.term
      /\ b.prev.index \in Nat /\ LastIndex(b) \in Nat
      /\ b.prev.index = L.prev.index
  BY <1>1, EntriesFacts, TermAtTyped DEF Contains
<1> HIDE DEF l, U, X
<1>6. SUFFICES ASSUME Before(G, p, l) \/ Before(G, l, p)
      PROVE  Contains(nd.log.entries, p)
  BY <1>4
<1>7. Contains(L, last) /\ Before(G, p, last)
  <2>1. Contains(L, p)
    OBVIOUS
  <2> HIDE DEF L
  <2> QED
    BY <1>1, <1>2, <2>1, BackedFacts, LastPositionTyped
<1>8. ASSUME NEW e, Before(G, e, l), ~Contains(L, e), L.prev.index <= e.index
      PROVE  p.index < e.index /\ Before(G, p, e)
  <2> HIDE DEF L, last
  <2>1. ~Before(G, e, last)
    BY <1>1, <1>2, <1>7, <1>8, BackedFacts
  <2> QED
    BY <1>2, <1>6, <1>7, <1>8, <2>1, LeftAfter
<1>9. CASE Cut(node[x], nd, es)
  <2> DEFINE e == es.prev
             k == e.index - L.prev.index - 1
  <2>1. /\ L.prev.index < e.index
        /\ ContainsIndex(L, e.index)
        /\ ~Contains(L, e)
        /\ b = Truncate(L, k)
    BY <1>9 DEF Cut
  <2>2. e.index \in Nat
    BY <1>3, EntriesFacts
  <2>3. p.index < e.index
    BY <1>4, <1>5, <1>8, <2>1, <2>2
  <2> HIDE DEF b, L, e
  <2>4. e.index <= LastIndex(L) /\ Len(L.ents) \in Nat /\ LastIndex(L) = L.prev.index + Len(L.ents)
    BY <1>1, <2>1, EntriesFacts, TermAtTyped
  <2>5. k \in Int /\ k \in 0 .. Len(L.ents) /\ L.prev.index + k + 1 = e.index
    BY <1>5, <2>1, <2>2, <2>4
  <2> HIDE DEF k
  <2>6. PartOf(b, L) /\ LastIndex(b) = L.prev.index + k
    BY <1>1, <2>1, <2>5, TruncateIsPart
  <2>7. p.index <= LastIndex(b)
    BY <1>5, <2>2, <2>3, <2>5, <2>6
  <2>8. ContainsIndex(b, p.index) /\ L.prev.index <= b.prev.index
    BY <1>5, <2>7 DEF ContainsIndex
  <2>9. Contains(L, p)
    BY DEF L
  <2>10. Contains(b, p)
    BY <1>1, <2>6, <2>8, <2>9, PartFacts
  <2> QED
    BY <2>10 DEF b
<1>10. CASE Taken(node[x], nd, es, C)
  <2>1. PICK w \in Entries(C) :
          /\ Contains(L, w.prev)
          /\ LastPosition(w) = LastPosition(es)
          /\ b = AppendUnchecked(L, w)
    BY <1>10 DEF Taken
  <2> DEFINE e == LastPosition(w)
  <2>2. ~Contains(L, e) /\ Before(G, e, l)
    BY <1>4, <1>10, <2>1 DEF Taken
  <2> HIDE DEF b, L
  <2>3. L.prev.index <= e.index
    <3>1. L.prev.index <= w.prev.index
      BY <1>1, <2>1, TermAtTyped DEF Contains
    <3>2. w.prev.index \in Nat /\ e.index \in Nat /\ w.prev.index <= e.index
      BY EntriesFacts, LastPositionTyped
    <3> QED
      BY <1>5, <3>1, <3>2
  <2>4. LastPosition(b) = e
    BY <1>1, <2>1, AppendEdges
  <2>5. Contains(b, e)
    BY <1>1, <2>4, LastPositionTyped
  <2> HIDE DEF e
  <2>6. Before(G, p, e)
    BY <1>8, <2>2, <2>3
  <2>7. Backed(G, b)
    BY DEF b
  <2>8. b.prev.index <= p.index
    BY <1>5
  <2>9. Contains(b, p)
    BY <1>1, <1>2, <2>5, <2>6, <2>7, <2>8, BackedFacts
  <2> QED
    BY <2>9 DEF b
<1> QED
  BY <1>9, <1>10

\* What a log loses to its leader is not decided.
LEMMA HeardKeeps ==
  ASSUME NEW V, NEW G, NEW A, NEW x, NEW nd, NEW H, Acting(V, G, A, x, nd, H),
         NEW C, C = FixedConfigs(V), NEW m \in H, OfLeader(nd, m),
         Cut(node[x], nd, m.entries) \/ Taken(node[x], nd, m.entries, C),
         Backed(G, nd.log.entries), nd.log.entries.prev = node[x].log.entries.prev,
         NEW p, Contains(node[x].log.entries, p), Decided(G, Chosen(V, A), p, nd.current_term)
  PROVE  Contains(nd.log.entries, p)
<1>1. Lawful(C, G, Voided(V, A, Now), Chosen(V, A)) /\ nd.current_term \in Nat
  BY ActingSafe, ActingTyped
<1>2. ASSUME NEW l, l.term = nd.current_term, OnTree(G, l)
      PROVE  Before(G, p, l) \/ Before(G, l, p)
  <2>1. nd.current_term <= l.term
    BY <1>1, <1>2
  <2> QED
    BY <1>1, <1>2, <2>1, DecidedMeets
<1> QED
  BY <1>2, HeardRules

\* A call that is executed leaves in storage what is committed.
LEMMA CallStores ==
  ASSUME NEW V, NEW G, NEW A, NEW x, NEW nd, NEW H, Acting(V, G, A, x, nd, H),
         NEW c \in committed, Keeps(node[x].log.entries, c),
         \A l \in elected : l[1] <= nd.current_term
  PROVE  Keeps(Persist(stored[x], nd, 4).log.entries, c)
<1> DEFINE C == FixedConfigs(V)
           es == node[x].log.entries
           b == nd.log.entries
           new == Persist(stored[x], nd, 4).log.entries
           U == Voided(V, A, Now)
           X == Chosen(V, A)
<1>1. PICK G2, A2, T2 : Acted(V, G, A, x, nd, H, G2, A2, T2)
  BY CallActed
<1>2. /\ SafeInv(V, G, A) /\ Deed(V, node[x], nd, H, C)
      /\ es \in Entries(C) /\ b \in Entries(C) /\ nd.current_term \in Nat
  BY ActingTyped DEF Acting
<1>3. /\ Later(x, A, Now, A2, T2)
      /\ Widens(C, G, U, X, G2, Voided(V, A2, T2), Chosen(V, A2))
      /\ Lawful(C, G2, Voided(V, A2, T2), Chosen(V, A2))
      /\ Continues(G, U, G2, Voided(V, A2, T2), es, b, node[x].commit_index)
      /\ LogsSafe(G2, b, new)
  BY <1>1, ActedFacts
<1>4. new \in Entries(C)
  <2>1. stored[x].log \in Logs(C) /\ Sound(nd, C) /\ 4 \in 0 .. 4
    BY ActingTyped
  <2> HIDE DEF C
  <2>2. Persist(stored[x], nd, 4).log \in Logs(C)
    BY <2>1, PersistLog
  <2> QED
    BY <2>2, LogFacts
<1>5. b.prev = es.prev /\ new.prev = es.prev
  BY <1>3 DEF Continues, LogsSafe
<1>6. CASE c[1] <= es.prev.index
  BY <1>5, <1>6 DEF Keeps
<1>7. CASE ~(c[1] <= es.prev.index)
  <2>1. c[1] \in Nat
    <3>1. HistorySafe(G, X) /\ Tree(G, C)
      BY <1>2 DEF SafeInv, SafeNow
    <3>2. PICK h \in G : \E k \in 1 .. LastIndex(h) : c[1] \in 1 .. k
      BY <3>1 DEF HistorySafe
    <3> QED
      BY <3>2
  <2>2. es.prev.index \in Nat
    BY <1>2, EntriesFacts
  <2>3. es.prev.index < c[1]
    BY <1>7, <2>1, <2>2
  <2>4. PICK h \in G : LET p == Spot(h, c[1]) IN
          /\ Beneath(h, c[1], c)
          /\ Contains(es, p)
          /\ p.index = c[1]
          /\ Decided(G, X, p, nd.current_term)
    <3> HIDE DEF es
    <3> QED
      BY <1>2, <2>3, CommittedDecided DEF es
  <2> DEFINE p == Spot(h, c[1])
  <2>5. Contains(b, p)
    <3>1. CASE Grown(V, node[x], nd, C)
      BY <2>4, <3>1, GrownKeeps
    <3>2. ASSUME NEW m \in H, OfLeader(nd, m), nd.role = "Follower",
                 Cut(node[x], nd, m.entries) \/ Taken(node[x], nd, m.entries, C)
          PROVE  Contains(b, p)
      <4>1. Extended(V, G, A, x, nd, A2, T2, G)
        BY <1>3, <3>2, HeardExtends
      <4>2. Backed(G, b)
        BY <4>1 DEF Extended, Continues
      <4> QED
        BY <1>5, <2>4, <3>2, <4>2, HeardKeeps
    <3> QED
      BY <1>2, <3>1, <3>2 DEF Deed, Writing
  <2> HIDE DEF p, b, es, new, X, U, C
  <2>6. Contains(new, p)
    BY <1>2, <1>3, <1>4, <2>5, StoredContains DEF Lawful
  <2>7. h \in G2
    BY <1>3 DEF Widens
  <2>8. Backed(G2, new)
    BY <1>3 DEF LogsSafe
  <2>9. Beneath(h, c[1], c)
    BY <2>4
  <2>10. Keeps(new, c)
    BY <1>3, <1>4, <2>6, <2>7, <2>8, <2>9, KeepsAt DEF p
  <2> QED
    BY <2>10 DEF new
<1> QED
  BY <1>6, <1>7

\* So does a snapshot.
LEMMA SnapshotStores ==
  ASSUME NEW V, IsFiniteSet(V), V # {}, NEW C, C = FixedConfigs(V), Typed(C),
         NEW G, NEW A, SafeInv(V, G, A), NEW x \in NodeId, SnapshotStep(x),
         NEW c \in committed, Keeps(node[x].log.entries, c),
         \A l \in elected : l[1] <= node'[x].current_term
  PROVE  Keeps(stored'[x].log.entries, c) /\ OthersRest(x)
<1>1. PICK p, config : /\ Snapped(x, p, config)
                       /\ IsValidSnapshot(node[x], p, config)
                       /\ InstallStoredSnapshot(node[x], p, config)
  BY DEF SnapshotStep
<1> DEFINE U == Voided(V, A, Now)
           X == Chosen(V, A)
           a == node[x]
           nd == InstallSnapshot(a, p, config)
           l == InstallInLog(stored[x].log, p, config)
           d == [stored[x] EXCEPT !.log = l]
           es == a.log.entries
           ds == stored[x].log.entries
           es2 == nd.log.entries
           ds2 == l.entries
           t == a.current_term
<1>2. IsSnapshot(p, config, C) /\ p \in Position
  BY <1>1, SnappedTyped DEF IsSnapshot
<1>3. /\ Sound(a, C)
      /\ a.id = x
      /\ t \in Nat
      /\ a.commit_index \in Nat
      /\ es \in Entries(C)
      /\ ds \in Entries(C)
      /\ stored[x] = [current_term |-> stored[x].current_term,
                      voted_for |-> stored[x].voted_for, log |-> stored[x].log]
  BY TypedFacts, SoundLog, LogFacts DEF Backs, IsDisk, Sound, IsNode, IsRecord
<1>4. nd.log = InstallInLog(a.log, p, config)
  BY <1>3 DEF InstallSnapshot, Sound, IsNode, IsRecord
<1>5. nd.current_term = t
  <2>1. Installed(a, nd, C)
    BY <1>1, <1>2, <1>3, InstallSnapshotInstalls
  <2> QED
    BY <2>1 DEF Installed
<1>6. /\ node' = [node EXCEPT ![x] = nd]
      /\ stored' = [stored EXCEPT ![x] = d]
  BY <1>1, <1>3 DEF InstallStoredSnapshot
<1>7. d.log = l
  BY <1>3
<1>8. /\ es2 = IF Contains(es, p) THEN Since(es, p) ELSE NewEntries(p)
      /\ ds2 = IF Contains(ds, p) THEN Since(ds, p) ELSE NewEntries(p)
  BY <1>4 DEF InstallInLog
<1>9. ~Contains(es, p) => a.commit_index < p.index
  BY <1>1 DEF IsValidSnapshot
<1> HIDE DEF nd, l, d
<1>10. node'[x] = nd /\ stored'[x] = d /\ OthersRest(x)
  BY <1>6, TypedFacts DEF OthersRest
<1>11. \A k \in elected : k[1] <= t
  BY <1>5, <1>10
<1>12. Tree(G, C) /\ LogsSafe(G, es, ds) /\ CommitSafe(G, X, a) /\ Lawful(C, G, U, X)
  BY SafeLawful DEF SafeInv, SafeNow, NodeSafe
<1>13. OnTree(G, p) /\ Decided(G, X, p, t)
  BY <1>1, SnappedDecided
<1> HIDE DEF U, X, t
<1>14. /\ es2 \in Entries(C) /\ es2.prev = p /\ LogsSafe(G, es2, ds2)
       /\ ds2.prev = p /\ ds2 \in Entries(C)
  <2>1. es2 \in Entries(C) /\ es2.prev = p /\ LogsSafe(G, es2, ds2)
    <3> HIDE DEF es, ds, es2, ds2
    <3> QED
      BY <1>2, <1>3, <1>8, <1>12, <1>13, InstallKeeps
  <2>2. ds2 \in Entries(C)
    <3> HIDE DEF ds, ds2
    <3>1. CASE Contains(ds, p)
      BY <1>2, <1>3, <1>8, <3>1, SinceKeeps
    <3>2. CASE ~Contains(ds, p)
      BY <1>2, <1>8, <3>2, EmptyKeeps
    <3> QED
      BY <3>1, <3>2
  <2> QED
    BY <2>1, <2>2 DEF LogsSafe
<1>15. p.index \in Nat /\ es.prev.index \in Nat /\ LastIndex(es) \in Nat
  BY <1>2, <1>3, EntriesFacts DEF Position
<1>16. es.prev.index <= p.index
  <2>1. CASE Contains(es, p)
    BY <1>3, <2>1, TermAtTyped DEF Contains
  <2>2. CASE ~Contains(es, p)
    <3>1. a.commit_index \in es.prev.index .. LastIndex(es)
      BY <1>12 DEF CommitSafe, ContainsIndex
    <3> QED
      BY <1>3, <1>9, <1>15, <2>2, <3>1
  <2> QED
    BY <2>1, <2>2
<1>17. c[1] \in Nat
  <2>1. HistorySafe(G, X)
    BY DEF SafeInv, SafeNow, X
  <2>2. PICK h \in G : \E k \in 1 .. LastIndex(h) : c[1] \in 1 .. k
    BY <2>1 DEF HistorySafe
  <2> QED
    BY <2>2
<1>18. Keeps(ds2, c)
  <2>1. CASE c[1] <= p.index
    BY <1>14, <2>1 DEF Keeps
  <2>2. CASE p.index < c[1]
    <3>1. es.prev.index < c[1]
      BY <1>15, <1>16, <1>17, <2>2
    <3>2. PICK h \in G : LET q == Spot(h, c[1]) IN
            /\ Beneath(h, c[1], c)
            /\ Contains(es, q)
            /\ q.index = c[1]
            /\ Decided(G, X, q, t)
      <4>1. Keeps(es, c)
        OBVIOUS
      <4> HIDE DEF es
      <4> QED
        BY <1>3, <1>11, <3>1, <4>1, CommittedDecided DEF X
    <3> DEFINE q == Spot(h, c[1])
    <3>3. Contains(es, q) /\ q.index = c[1] /\ Decided(G, X, q, t) /\ Beneath(h, c[1], c)
      BY <3>2
    <3>4. Backed(G, es)
      BY <1>12 DEF LogsSafe
    <3> HIDE DEF q, es, a
    <3>5. OnTree(G, q)
      BY <1>3, <1>12, <3>3, <3>4, BackedFacts
    <3>6. Before(G, p, q)
      <4>1. p.index <= q.index
        BY <1>15, <1>17, <2>2, <3>3
      <4> QED
        BY <1>12, <1>13, <3>3, <3>5, <4>1, DecidedLine
    <3>7. Contains(es, p)
      BY <1>3, <1>12, <1>16, <3>3, <3>4, <3>6, BackedFacts
    <3>8. es2 = Since(es, p)
      BY <1>8, <3>7 DEF es, a
    <3> HIDE DEF es2, ds2
    <3>9. Contains(es2, q)
      <4>1. p.index <= q.index
        BY <3>6 DEF Before
      <4> QED
        BY <1>2, <1>3, <3>3, <3>7, <3>8, <4>1, SinceKeeps
    <3>10. Contains(ds2, q)
      BY <1>12, <1>14, <3>9, StoredContains
    <3>11. Backed(G, ds2)
      BY <1>14 DEF LogsSafe
    <3> QED
      BY <1>12, <1>14, <3>3, <3>10, <3>11, KeepsAt DEF q
  <2> QED
    BY <1>15, <1>17, <2>1, <2>2
<1> QED
  BY <1>7, <1>10, <1>18

\* No node loses the committed entry c that its log and its storage have.
LostNothing(c) ==
  \A id \in NodeId :
    (/\ \A l \in elected : l[1] <= node'[id].current_term
     /\ Keeps(node[id].log.entries, c)
     /\ Keeps(stored[id].log.entries, c)) => Keeps(stored'[id].log.entries, c)

\* A step that leaves the stored logs alone.
LEMMA RestartStores ==
  ASSUME NEW x \in NodeId, NEW c, DOMAIN stored = NodeId, DOMAIN node = NodeId,
         NEW d, d.log = stored[x].log, RestartFrom(x, d)
  PROVE  LostNothing(c)
<1>1. stored' = [stored EXCEPT ![x] = d]
  BY DEF RestartFrom
<1>2. \A id \in NodeId : stored'[id].log = stored[id].log
  BY <1>1
<1> QED
  BY <1>2 DEF LostNothing

LEMMA CallStepStores ==
  ASSUME Batching = "none", NEW V, VotersFixed(V), V # {}, NEW C, C = FixedConfigs(V), Typed(C), FixedInv(V),
         MatchInv, NEW G, NEW A, SafeInv(V, G, A), NEW x \in NodeId, CallStep(x), ElectionSafety',
         NEW c \in committed
  PROVE  LostNothing(c)
<1>1. PICK nd, armed, rest : Calls(x, nd) /\ rest \subseteq net /\ Return(nd, armed, rest)
  BY DEF CallStep
<1>2. Covering(C) /\ IsFiniteSet(V) /\ DOMAIN stored = NodeId /\ DOMAIN node = NodeId
  BY FixedCover, TypedFacts DEF VotersFixed
<1>3. Turns(x, nd, C) /\ nd.id = x /\ Sound(nd, C)
  BY <1>1, <1>2, CallsTurns, TypedFacts, TurnsEvolves DEF Evolves
<1>5. CASE ExecuteUpTo(nd, 4, armed, rest)
  <2>1. PICK H : Acting(V, G, A, x, nd, H)
    BY <1>1, <1>5, CallActing
  <2>2. SameState(nd, Executed(nd, 4))
    BY <1>3, ExecutedSound DEF Executed, SameState, Sound, IsNode, IsRecord
  <2>8. /\ node' = [node EXCEPT ![x] = Executed(nd, 4)]
        /\ stored' = [stored EXCEPT ![x] = Persist(stored[x], nd, 4)]
    BY <1>3, <1>5 DEF ExecuteUpTo
  <2>9. /\ stored'[x] = Persist(stored[x], nd, 4)
        /\ node'[x].current_term = nd.current_term
        /\ \A y \in NodeId : y # x => stored'[y] = stored[y]
    BY <1>2, <2>2, <2>8 DEF SameState
  <2>10. ASSUME Keeps(node[x].log.entries, c), \A l \in elected : l[1] <= nd.current_term
         PROVE  Keeps(stored'[x].log.entries, c)
    BY <2>1, <2>9, <2>10, CallStores
  <2> QED
    BY <2>9, <2>10 DEF LostNothing
<1>6. CASE \E k \in 0 .. 2 : RestartFrom(nd.id, Persist(stored[nd.id], nd, k)) /\ net' = rest
  <2>1. PICK k \in 0 .. 2 : RestartFrom(nd.id, Persist(stored[nd.id], nd, k)) /\ net' = rest
    BY <1>6
  <2> DEFINE d == Persist(stored[x], nd, k)
  <2>2. RestartFrom(x, d)
    BY <1>3, <2>1
  <2>3. d.log = stored[x].log
    <3>1. ~(k >= 3)
      OBVIOUS
    <3> QED
      BY <3>1 DEF Persist
  <2> HIDE DEF d
  <2> QED
    BY <1>2, <2>2, <2>3, RestartStores
<1> QED
  BY <1>1, <1>5, <1>6 DEF Return

LEMMA NextStores ==
  ASSUME Batching = "none", NEW V, VotersFixed(V), V # {}, NEW C, C = FixedConfigs(V), Typed(C), FixedInv(V),
         MatchInv, NEW G, NEW A, SafeInv(V, G, A), ElectionSafety', [Next]_vars,
         NEW c \in committed
  PROVE  LostNothing(c)
<1>1. IsFiniteSet(V)
  BY DEF VotersFixed
<1>2. ASSUME NEW x \in NodeId, CallStep(x) PROVE LostNothing(c)
  BY <1>2, CallStepStores
<1>3. ASSUME NEW x \in NodeId, SnapshotStep(x) PROVE LostNothing(c)
  <2>1. OthersRest(x)
    <3>1. PICK p, config : InstallStoredSnapshot(node[x], p, config)
      BY <1>3 DEF SnapshotStep
    <3>2. node[x].id = x /\ DOMAIN stored = NodeId /\ DOMAIN node = NodeId
      BY TypedFacts
    <3> QED
      BY <3>1, <3>2 DEF InstallStoredSnapshot, OthersRest
  <2>2. ASSUME Keeps(node[x].log.entries, c), \A l \in elected : l[1] <= node'[x].current_term
        PROVE  Keeps(stored'[x].log.entries, c)
    BY <1>1, <1>3, <2>2, SnapshotStores
  <2>3. \A y \in NodeId : y # x => stored'[y] = stored[y]
    BY <2>1 DEF OthersRest
  <2> QED
    BY <2>2, <2>3 DEF LostNothing
<1>4. ASSUME NEW x \in NodeId, Execute(x) PROVE FALSE
  BY <1>4 DEF Execute, MatchInv, Idle
<1>5. ASSUME NEW x \in NodeId, Crash(x) PROVE LostNothing(c)
  <2>1. RestartFrom(x, stored[x])
    BY <1>5 DEF Crash
  <2> DEFINE d == stored[x]
  <2>2. d.log = stored[x].log /\ RestartFrom(x, d)
    BY <2>1
  <2>3. DOMAIN stored = NodeId /\ DOMAIN node = NodeId
    BY TypedFacts
  <2> HIDE DEF d
  <2> QED
    BY <2>2, <2>3, RestartStores
<1>6. ASSUME stored' = stored PROVE LostNothing(c)
  BY <1>6 DEF LostNothing
<1>7. UNCHANGED vars => stored' = stored
  BY DEF vars
<1>8. Rests => stored' = stored
  BY DEF Rests
<1>9. Next => LostNothing(c)
  BY <1>2, <1>3, <1>4, <1>5, <1>6, <1>8, NextCases
<1> QED
  BY <1>6, <1>7, <1>9

-----------------------------------------------------------------------------
(* What leaders count.  A node has said, in its present term, that its log *)
(* reaches q: in a reply under way, or the leader of the term has counted  *)
(* it.  The node's log has q for the rest of the term, unless q is off the *)
(* line of that leader.                                                    *)

Replied(f, q) ==
  \E p \in net : /\ p.msg.type = "AppendEntriesReply"
                 /\ p.msg.from = f
                 /\ p.msg.term = node[f].current_term
                 /\ p.msg.last_position = q

Counted(id, f) ==
  /\ node[id].role = "Leader"
  /\ f \in DOMAIN node[id].followers
  /\ node[id].followers[f] > node[id].log.entries.prev.index

CountedSpot(id, f) == Spot(node[id].log.entries, node[id].followers[f])

Claimed(f, q) ==
  \/ Replied(f, q)
  \/ \E id \in NodeId : /\ Counted(id, f)
                        /\ node[id].current_term = node[f].current_term
                        /\ q = CountedSpot(id, f)

\* Some position of term t, or decided by then, is not on one line with q.
Excluded(G, X, q, t) ==
  \E r : /\ OnTree(G, r)
         /\ r.term = t \/ Decided(G, X, r, t)
         /\ ~Before(G, q, r)
         /\ ~Before(G, r, q)

Holding(es, q) == q.index \in 0 .. es.prev.index \/ Contains(es, q)

Shows(G, X, q, nd) ==
  \/ Holding(nd.log.entries, q)
  \/ OnTree(G, q) /\ Excluded(G, X, q, nd.current_term)

\* A leader counts nothing of a term that the follower has not entered.
CountsKnown ==
  \A id, f \in NodeId : Counted(id, f) => node[id].current_term <= node[f].current_term

Shown(G, X) ==
  /\ CountsKnown
  /\ \A f \in NodeId : \A q : Claimed(f, q) => Shows(G, X, q, node[f])

LEMMA ExcludedWidens ==
  ASSUME NEW C, NEW G, NEW H, G \subseteq H, Tree(H, C), NEW X, NEW X2, X \subseteq X2,
         NEW q, OnTree(G, q), NEW t, Excluded(G, X, q, t)
  PROVE  Excluded(H, X2, q, t)
<1>1. PICK r : /\ OnTree(G, r)
               /\ r.term = t \/ Decided(G, X, r, t)
               /\ ~Before(G, q, r)
               /\ ~Before(G, r, q)
  BY DEF Excluded
<1>2. OnTree(H, r) /\ ~Before(H, q, r) /\ ~Before(H, r, q)
  BY <1>1, BeforeGrown
<1>3. Decided(G, X, r, t) => Decided(H, X2, r, t)
  <2>1. \A k : Before(G, r, k) => Before(H, r, k)
    BY BeforeGrown
  <2> QED
    BY <2>1 DEF Decided
<1> QED
  BY <1>1, <1>2, <1>3 DEF Excluded

LEMMA ShowsWidens ==
  ASSUME NEW C, NEW G, NEW H, G \subseteq H, Tree(H, C), NEW X, NEW X2, X \subseteq X2,
         NEW q, NEW nd, Shows(G, X, q, nd)
  PROVE  Shows(H, X2, q, nd)
<1>1. CASE Holding(nd.log.entries, q)
  BY <1>1 DEF Shows
<1>2. CASE OnTree(G, q) /\ Excluded(G, X, q, nd.current_term)
  <2>1. OnTree(H, q)
    BY <1>2 DEF OnTree
  <2>2. Excluded(H, X2, q, nd.current_term)
    BY <1>2, ExcludedWidens
  <2> QED
    BY <2>1, <2>2 DEF Shows
<1> QED
  BY <1>1, <1>2 DEF Shows

\* Replies in flight are of terms that their senders have entered.
LEMMA ReplyKnown ==
  ASSUME NEW C, Typed(C), MatchInv, NEW p \in net, p.msg.type = "AppendEntriesReply"
  PROVE  /\ p.msg.from \in NodeId
         /\ p.msg.term \in Nat
         /\ p.msg.term <= node[p.msg.from].current_term
<1> DEFINE f == p.msg.from
<1>1. IsMessage(p.msg) /\ f \in NodeId /\ p.msg.term <= stored[f].current_term
  BY DEF Typed, Durable, PacketsDurable
<1>2. stored[f].current_term = node[f].current_term
  BY <1>1, TypedFacts DEF MatchInv, Idle, Backs, NoActions
<1>3. p.msg.term \in Nat
  BY <1>1 DEF IsMessage, IsRecord
<1> QED
  BY <1>1, <1>2, <1>3

\* What node x counts after a step it counted before, or a reply said it.
CountsHonestly(x) ==
  \A f \in NodeId : Counted(x, f)' =>
    \/ /\ Counted(x, f)
       /\ node'[x].current_term = node[x].current_term
       /\ CountedSpot(x, f)' = CountedSpot(x, f)
    \/ \E p \in net : /\ p.msg.type = "AppendEntriesReply"
                      /\ p.msg.from = f
                      /\ p.msg.term = node'[x].current_term
                      /\ p.msg.last_position = CountedSpot(x, f)'

\* What a node has said it had said before, or says it of the end of its log.
LEMMA SaidBefore ==
  ASSUME NEW C, Typed(C), MatchInv, CountsKnown, NEW x \in NodeId, OthersRest(x),
         node'[x].current_term \in Nat, node[x].current_term <= node'[x].current_term,
         \A p \in net' : \/ p \in net
                         \/ p.msg.type = "AppendEntriesReply"
                              => /\ p.msg.from = x
                                 /\ p.msg.last_position = LastPosition(node'[x].log.entries),
         CountsHonestly(x)
  PROVE  /\ CountsKnown'
         /\ \A f \in NodeId : \A q : Claimed(f, q)' =>
              \/ Claimed(f, q) /\ node'[f].current_term = node[f].current_term
              \/ f = x /\ q = LastPosition(node'[x].log.entries)
<1>1. \A y \in NodeId : y # x => node'[y] = node[y]
  BY DEF OthersRest
<1>2. \A y \in NodeId : node[y].current_term \in Nat
  BY TypedFacts DEF IsNode, IsRecord
<1>3. \A y \in NodeId : /\ node'[y].current_term \in Nat
                        /\ node[y].current_term <= node'[y].current_term
  BY <1>1, <1>2
<1>4. ASSUME NEW p \in net, p.msg.type = "AppendEntriesReply", NEW f \in NodeId, p.msg.from = f
      PROVE  p.msg.term \in Nat /\ p.msg.term <= node[f].current_term
  BY <1>4, ReplyKnown
<1>5. ASSUME NEW id \in NodeId, id # x, NEW f
      PROVE  (Counted(id, f)' <=> Counted(id, f)) /\ CountedSpot(id, f)' = CountedSpot(id, f)
  BY <1>1, <1>5 DEF Counted, CountedSpot
<1>6. CountsKnown'
  <2> SUFFICES ASSUME NEW id \in NodeId, NEW f \in NodeId, Counted(id, f)'
               PROVE  node'[id].current_term <= node'[f].current_term
    BY DEF CountsKnown
  <2>1. CASE id # x
    <3>1. node[id].current_term <= node[f].current_term
      BY <1>5, <2>1 DEF CountsKnown
    <3> QED
      BY <1>1, <1>2, <1>3, <2>1, <3>1
  <2>2. CASE id = x /\ Counted(x, f) /\ node'[x].current_term = node[x].current_term
    <3>1. node[x].current_term <= node[f].current_term
      BY <2>2 DEF CountsKnown
    <3> QED
      BY <1>2, <1>3, <2>2, <3>1
  <2>3. CASE id = x /\ \E p \in net : /\ p.msg.type = "AppendEntriesReply"
                                      /\ p.msg.from = f
                                      /\ p.msg.term = node'[x].current_term
    <3>1. node'[x].current_term <= node[f].current_term
      BY <1>4, <2>3
    <3> QED
      BY <1>2, <1>3, <2>3, <3>1
  <2> QED
    BY <2>1, <2>2, <2>3 DEF CountsHonestly
<1>7. ASSUME NEW f \in NodeId, NEW q, Claimed(f, q)'
      PROVE  \/ Claimed(f, q) /\ node'[f].current_term = node[f].current_term
             \/ f = x /\ q = LastPosition(node'[x].log.entries)
  <2>1. ASSUME NEW p \in net, p.msg.type = "AppendEntriesReply", p.msg.from = f,
               p.msg.term = node'[f].current_term, p.msg.last_position = q
        PROVE  Claimed(f, q) /\ node'[f].current_term = node[f].current_term
    <3>1. p.msg.term <= node[f].current_term
      BY <1>4, <2>1
    <3>2. node'[f].current_term <= node[f].current_term
      BY <2>1, <3>1
    <3>3. node'[f].current_term = node[f].current_term
      BY <1>2, <1>3, <3>2
    <3> QED
      BY <2>1, <3>3 DEF Claimed, Replied
  <2>2. CASE Replied(f, q)'
    <3>1. PICK p \in net' : /\ p.msg.type = "AppendEntriesReply"
                            /\ p.msg.from = f
                            /\ p.msg.term = node'[f].current_term
                            /\ p.msg.last_position = q
      BY <2>2 DEF Replied
    <3>2. CASE p \in net
      BY <2>1, <3>1, <3>2
    <3>3. CASE p \notin net
      BY <3>1, <3>3
    <3> QED
      BY <3>2, <3>3
  <2>3. ASSUME NEW id \in NodeId, Counted(id, f)',
               node'[id].current_term = node'[f].current_term, q = CountedSpot(id, f)'
        PROVE  Claimed(f, q) /\ node'[f].current_term = node[f].current_term
    <3>1. CASE id # x
      <4>1. Counted(id, f) /\ q = CountedSpot(id, f) /\ node'[id] = node[id]
        BY <1>1, <1>5, <2>3, <3>1
      <4>2. node[id].current_term <= node[f].current_term
        BY <4>1 DEF CountsKnown
      <4>3. node'[f].current_term = node[f].current_term
        BY <1>2, <1>3, <2>3, <4>1, <4>2
      <4> QED
        BY <2>3, <4>1, <4>3 DEF Claimed
    <3>2. CASE /\ id = x
               /\ Counted(x, f)
               /\ node'[x].current_term = node[x].current_term
               /\ CountedSpot(x, f)' = CountedSpot(x, f)
      <4>1. node[x].current_term <= node[f].current_term
        BY <3>2 DEF CountsKnown
      <4>2. node'[f].current_term = node[f].current_term
        BY <1>2, <1>3, <2>3, <3>2, <4>1
      <4> QED
        BY <2>3, <3>2, <4>2 DEF Claimed
    <3>3. CASE /\ id = x
               /\ \E p \in net : /\ p.msg.type = "AppendEntriesReply"
                                 /\ p.msg.from = f
                                 /\ p.msg.term = node'[x].current_term
                                 /\ p.msg.last_position = CountedSpot(x, f)'
      BY <2>1, <2>3, <3>3
    <3> QED
      BY <2>3, <3>1, <3>2, <3>3 DEF CountsHonestly
  <2> QED
    BY <1>7, <2>2, <2>3 DEF Claimed
<1> QED
  BY <1>6, <1>7

\* A call that stays in its term keeps what the log shows.
LEMMA CallShows ==
  ASSUME NEW V, NEW G, NEW A, NEW x, NEW nd, NEW H, Acting(V, G, A, x, nd, H),
         nd.current_term = node[x].current_term, NEW q, Shows(G, Chosen(V, A), q, node[x])
  PROVE  Shows(G, Chosen(V, A), q, nd)
<1> DEFINE C == FixedConfigs(V)
           es == node[x].log.entries
           b == nd.log.entries
           X == Chosen(V, A)
<1>1. PICK G2, A2, T2 : Acted(V, G, A, x, nd, H, G2, A2, T2)
  BY CallActed
<1>2. /\ Later(x, A, Now, A2, T2)
      /\ Continues(G, Voided(V, A, Now), G2, Voided(V, A2, T2), es, b, node[x].commit_index)
  BY <1>1, ActedFacts
<1>3. b.prev = es.prev
  BY <1>2 DEF Continues
<1>4. CASE q.index \in 0 .. es.prev.index
  BY <1>3, <1>4 DEF Shows, Holding
<1>5. CASE OnTree(G, q) /\ Excluded(G, X, q, nd.current_term)
  BY <1>5 DEF Shows
<1>6. CASE Contains(es, q)
  <2>1. CASE Grown(V, node[x], nd, C)
    <3>1. Contains(b, q)
      BY <1>6, <2>1, GrownKeeps
    <3> QED
      BY <3>1 DEF Shows, Holding
  <2>2. ASSUME NEW m \in H, OfLeader(nd, m), nd.role = "Follower",
               Cut(node[x], nd, m.entries) \/ Taken(node[x], nd, m.entries, C)
        PROVE  Shows(G, X, q, nd)
    <3>1. Backed(G, b)
      <4>1. Extended(V, G, A, x, nd, A2, T2, G)
        BY <1>2, <2>2, HeardExtends
      <4> QED
        BY <4>1 DEF Extended, Continues
    <3>2. OnTree(G, q)
      <4>1. Tree(G, C) /\ Backed(G, es) /\ es \in Entries(C)
        BY ActingSafe, ActingTyped DEF NodeSafe, LogsSafe
      <4> HIDE DEF es, C
      <4> QED
        BY <1>6, <4>1, BackedFacts
    <3>3. CASE Contains(b, q)
      BY <3>3 DEF Shows, Holding
    <3>4. ASSUME NEW l, l.term = nd.current_term, OnTree(G, l), ~Before(G, q, l), ~Before(G, l, q)
          PROVE  Excluded(G, X, q, nd.current_term)
      BY <3>4 DEF Excluded
    <3>5. CASE Excluded(G, X, q, nd.current_term)
      BY <3>2, <3>5 DEF Shows
    <3> HIDE DEF X
    <3>6. \/ Contains(b, q)
          \/ \E l : /\ l.term = nd.current_term
                    /\ OnTree(G, l)
                    /\ ~Before(G, q, l)
                    /\ ~Before(G, l, q)
      BY <1>3, <1>6, <2>2, <3>1, HeardRules
    <3> QED
      BY <3>3, <3>4, <3>5, <3>6
  <2> QED
    BY <2>1, <2>2 DEF Acting, Deed, Writing
<1> QED
  BY <1>4, <1>5, <1>6 DEF Shows, Holding

\* A node that restarts shows what it showed: storage has what the log had.
LEMMA StoredShows ==
  ASSUME NEW C, NEW G, Tree(G, C), NEW X, NEW nd, NEW nd2, nd.log.entries \in Entries(C),
         nd2.log.entries \in Entries(C), LogsSafe(G, nd.log.entries, nd2.log.entries),
         nd2.current_term = nd.current_term, NEW q, Shows(G, X, q, nd)
  PROVE  Shows(G, X, q, nd2)
<1> DEFINE es == nd.log.entries
           ds == nd2.log.entries
<1>1. ds.prev = es.prev
  BY DEF LogsSafe
<1>2. Contains(es, q) => Contains(ds, q)
  <2>1. es \in Entries(C) /\ ds \in Entries(C) /\ LogsSafe(G, es, ds)
    OBVIOUS
  <2> HIDE DEF es, ds
  <2> QED
    BY <2>1, StoredContains
<1> QED
  BY <1>1, <1>2 DEF Shows, Holding

\* So does one that takes a snapshot at a decided position.
LEMMA SnapshotShows ==
  ASSUME NEW C, NEW G, Tree(G, C), NEW X, NEW nd, NEW nd2, nd.log.entries \in Entries(C),
         Backed(G, nd.log.entries), nd2.current_term = nd.current_term,
         NEW p \in Position, OnTree(G, p), Decided(G, X, p, nd.current_term),
         nd.log.entries.prev.index <= p.index,
         nd2.log.entries = IF Contains(nd.log.entries, p) THEN Since(nd.log.entries, p)
                           ELSE NewEntries(p),
         NEW q, Shows(G, X, q, nd)
  PROVE  Shows(G, X, q, nd2)
<1> DEFINE es == nd.log.entries
           es2 == nd2.log.entries
<1>1. es2.prev = p
  <2>1. CASE Contains(es, p)
    <3>1. es2 = Since(es, p) /\ es \in Entries(C)
      BY <2>1
    <3> HIDE DEF es, es2
    <3> QED
      BY <2>1, <3>1, SinceKeeps
  <2>2. CASE ~Contains(es, p)
    <3>1. es2 = NewEntries(p)
      BY <2>2
    <3> HIDE DEF es, es2
    <3> QED
      BY <3>1, EmptyKeeps
  <2> QED
    BY <2>1, <2>2
<1>2. p.index \in Nat /\ es.prev.index \in Nat
  BY EntriesFacts DEF Position
<1>3. CASE OnTree(G, q) /\ Excluded(G, X, q, nd.current_term)
  BY <1>3 DEF Shows
<1>4. CASE Contains(es, q)
  <2>1. q.index \in Nat
    BY <1>4, TermAtTyped DEF Contains
  <2>2. CASE q.index <= p.index
    BY <1>1, <1>2, <2>1, <2>2 DEF Shows, Holding
  <2>3. CASE p.index < q.index /\ Contains(es, p)
    <3>1. es2 = Since(es, p) /\ es \in Entries(C) /\ p.index <= q.index
      BY <1>2, <2>1, <2>3
    <3> HIDE DEF es, es2
    <3>2. Contains(es2, q)
      BY <1>4, <2>3, <3>1, SinceKeeps
    <3> QED
      BY <3>2 DEF Shows, Holding, es2
  <2>4. CASE p.index < q.index /\ ~Contains(es, p)
    <3> HIDE DEF es2
    <3>1. OnTree(G, q) /\ ~Before(G, p, q)
      <4>1. es \in Entries(C) /\ Backed(G, es) /\ es.prev.index <= p.index
        OBVIOUS
      <4> HIDE DEF es
      <4> QED
        BY <1>4, <2>4, <4>1, BackedFacts
    <3>2. ~Before(G, q, p)
      BY <1>2, <2>1, <2>4 DEF Before
    <3>3. Excluded(G, X, q, nd.current_term)
      BY <3>1, <3>2 DEF Excluded
    <3> QED
      BY <3>1, <3>3 DEF Shows
  <2> QED
    BY <1>2, <2>1, <2>2, <2>3, <2>4
<1>5. CASE q.index \in 0 .. es.prev.index
  <2>1. q.index \in 0 .. p.index
    BY <1>2, <1>5
  <2> QED
    BY <1>1, <2>1 DEF Shows, Holding
<1> QED
  BY <1>3, <1>4, <1>5 DEF Shows, Holding

\* A leader counts what replies to it say.
LEMMA CountsActed ==
  ASSUME NEW V, NEW G, NEW A, NEW x, NEW nd, NEW H, NEW G2, NEW A2, NEW T2,
         Executes(V, G, A, x, nd, H, G2, A2, T2)
  PROVE  CountsHonestly(x)
<1> DEFINE C == FixedConfigs(V)
           L == node[x].log.entries
           b == nd.log.entries
           t == nd.current_term
<1>1. /\ Acted(V, G, A, x, nd, H, G2, A2, T2)
      /\ Acting(V, G, A, x, nd, H)
      /\ node'[x].role = nd.role
      /\ node'[x].current_term = t
      /\ node'[x].log = nd.log
      /\ node'[x].followers = nd.followers
  BY ExecutesFacts
<1>2. /\ L \in Entries(C) /\ b \in Entries(C) /\ Counting(node[x], nd, H)
  BY <1>1, ActingTyped DEF Acting, Deed
<1>3. L.prev.index \in Nat /\ LastIndex(L) \in Nat /\ b.prev.index \in Nat
  BY <1>2, EntriesFacts
<1> SUFFICES ASSUME NEW f \in NodeId, Counted(x, f)'
             PROVE  \/ /\ Counted(x, f)
                       /\ t = node[x].current_term
                       /\ CountedSpot(x, f)' = CountedSpot(x, f)
                    \/ \E p \in net : /\ p.msg.type = "AppendEntriesReply"
                                      /\ p.msg.from = f
                                      /\ p.msg.term = t
                                      /\ p.msg.last_position = CountedSpot(x, f)'
  BY <1>1 DEF CountsHonestly
<1> DEFINE k == nd.followers[f]
<1>4. nd.role = "Leader" /\ f \in DOMAIN nd.followers /\ k > b.prev.index
  BY <1>1 DEF Counted
<1>5. CountedSpot(x, f)' = Spot(b, k)
  BY <1>1 DEF CountedSpot
<1>6. k \in Nat
  BY <1>1, <1>4, ActingTyped DEF Sound
<1>7. CASE k = 0
  BY <1>3, <1>4, <1>7
<1>8. CASE /\ node[x].role = "Leader"
           /\ node[x].current_term = t
           /\ f \in DOMAIN node[x].followers
           /\ k = node[x].followers[f]
  <2>1. /\ b.prev = L.prev
        /\ \A i \in L.prev.index .. LastIndex(L) : TermAt(b, i) = TermAt(L, i)
    BY <1>1, <1>4, <1>8, LeaderGrowsOn
  <2>2. Matches(A, node[x])
    BY <1>1, <1>8, ActingSafe DEF NodeSafe
  <2>3. k <= LastIndex(L)
    BY <1>8, <2>2 DEF Matches
  <2>4. k \in L.prev.index .. LastIndex(L)
    BY <1>3, <1>4, <1>6, <2>1, <2>3
  <2>5. Spot(b, k) = Spot(L, k)
    BY <2>1, <2>4 DEF Spot
  <2>6. Counted(x, f)
    BY <1>4, <1>8, <2>1 DEF Counted
  <2>7. CountedSpot(x, f) = Spot(L, k)
    BY <1>8 DEF CountedSpot
  <2> QED
    BY <1>5, <1>8, <2>5, <2>6, <2>7
<1>9. ASSUME NEW m \in H, m.type = "AppendEntriesReply", m.from = f, m.term = t,
             Contains(b, m.last_position), k = m.last_position.index
      PROVE  \E p \in net : /\ p.msg.type = "AppendEntriesReply"
                            /\ p.msg.from = f
                            /\ p.msg.term = t
                            /\ p.msg.last_position = CountedSpot(x, f)'
  <2>1. MessageOK(m, C) /\ \E p \in net : p.msg = m
    BY <1>1, <1>9, PacketHeard
  <2>2. m.last_position \in Position
    BY <1>9, <2>1 DEF MessageOK
  <2>3. Spot(b, k) = m.last_position
    BY <1>9, <2>2 DEF Spot, Contains, Pos, Position
  <2> QED
    BY <1>5, <1>9, <2>1, <2>3
<1> QED
  BY <1>2, <1>4, <1>7, <1>8, <1>9 DEF Counting

\* What a call that is executed sends, and what it leaves claimed.
LEMMA CallClaims ==
  ASSUME MatchInv, CountsKnown, NEW V, NEW G, NEW A, NEW x, NEW nd, NEW H, NEW G2, NEW A2, NEW T2,
         Executes(V, G, A, x, nd, H, G2, A2, T2)
  PROVE  /\ CountsKnown'
         /\ \A f \in NodeId : \A q : Claimed(f, q)' =>
              \/ Claimed(f, q) /\ node'[f].current_term = node[f].current_term
              \/ f = x /\ q = LastPosition(nd.log.entries)
<1> DEFINE C == FixedConfigs(V)
<1>1. /\ Acting(V, G, A, x, nd, H)
      /\ Typed(C)
      /\ x \in NodeId
      /\ OthersRest(x)
      /\ node'[x].current_term = nd.current_term
      /\ node'[x].log = nd.log
      /\ \A p \in net' : p \in net \/ p \in Outbound(nd)
  BY ExecutesFacts
<1>2. /\ nd.current_term \in Nat
      /\ node[x].current_term <= nd.current_term
      /\ Sound(nd, C)
      /\ nd.id = x
  BY <1>1, ActingTyped
<1>3. ASSUME NEW p \in Outbound(nd), p.msg.type = "AppendEntriesReply"
      PROVE  p.msg.from = x /\ p.msg.last_position = LastPosition(nd.log.entries)
  <2>1. Acted(V, G, A, x, nd, H, G2, A2, T2)
    BY ExecutesFacts
  <2> QED
    BY <1>3, <2>1, OutboundSafe
<1>4. CountsHonestly(x)
  BY CountsActed
<1> HIDE DEF C
<1>5. \A p \in net' : \/ p \in net
                      \/ p.msg.type = "AppendEntriesReply"
                           => /\ p.msg.from = x
                              /\ p.msg.last_position = LastPosition(node'[x].log.entries)
  BY <1>1, <1>3
<1> QED
  BY <1>1, <1>2, <1>4, <1>5, SaidBefore

LEMMA ShownStep ==
  ASSUME NEW C, NEW x \in NodeId, OthersRest(x), node'[x].log.entries \in Entries(C),
         NEW G, NEW X, Shown(G, X),
         NEW G2, G \subseteq G2, Tree(G2, C), NEW X2, X \subseteq X2,
         CountsKnown',
         \A f \in NodeId : \A q : Claimed(f, q)' =>
           \/ Claimed(f, q) /\ node'[f].current_term = node[f].current_term
           \/ f = x /\ q = LastPosition(node'[x].log.entries),
         node'[x].current_term = node[x].current_term =>
           \A q : Shows(G, X, q, node[x]) => Shows(G, X, q, node'[x])
  PROVE  Shown(G2, X2)'
<1>1. ASSUME NEW f \in NodeId, NEW q, Claimed(f, q)' PROVE Shows(G2, X2, q, node'[f])
  <2>1. CASE Claimed(f, q) /\ node'[f].current_term = node[f].current_term
    <3>1. Shows(G, X, q, node[f])
      BY <2>1 DEF Shown
    <3>2. Shows(G, X, q, node'[f])
      <4>1. CASE f = x
        BY <2>1, <3>1, <4>1
      <4>2. CASE f # x
        BY <3>1, <4>2 DEF OthersRest
      <4> QED
        BY <4>1, <4>2
    <3> QED
      BY <3>2, ShowsWidens
  <2>2. CASE f = x /\ q = LastPosition(node'[x].log.entries)
    <3> DEFINE b == node'[x].log.entries
    <3>1. Contains(b, LastPosition(b))
      <4>1. b \in Entries(C)
        OBVIOUS
      <4> HIDE DEF b
      <4>2. LastPosition(b).index = LastIndex(b) /\ LastPosition(b).term = TermAt(b, LastIndex(b))
        BY DEF LastPosition, Pos
      <4> QED
        BY <4>1, <4>2, EntriesFacts DEF Contains, ContainsIndex
    <3> QED
      BY <2>2, <3>1 DEF Shows, Holding
  <2> QED
    BY <1>1, <2>1, <2>2
<1>2. \A f \in NodeId : \A q : Claimed(f, q)' => Shows(G2, X2, q, node[f])'
  BY <1>1 DEF Shows, Excluded, OnTree, Decided, Before
<1> QED
  BY <1>2 DEF Shown

\* The executed call, with what CallActed says of it.
LEMMA CallExecutes ==
  ASSUME NEW V, NEW G, NEW A, NEW x, NEW nd, NEW H, Acting(V, G, A, x, nd, H),
         NEW armed, NEW rest, rest \subseteq net, ExecuteUpTo(nd, 4, armed, rest)
  PROVE  \E G2, A2, T2 : Executes(V, G, A, x, nd, H, G2, A2, T2)
<1> DEFINE C == FixedConfigs(V)
           d == Persist(stored[x], nd, 4)
<1>1. PICK G2, A2, T2 : Acted(V, G, A, x, nd, H, G2, A2, T2)
  BY CallActed
<1>2. /\ Typed(C) /\ Turns(x, nd, C) /\ x \in NodeId
      /\ DOMAIN node = NodeId /\ DOMAIN stored = NodeId
      /\ nd.id = x
  BY ActingTyped, TypedFacts DEF Acting
<1>3. stored' = [stored EXCEPT ![x] = d]
  BY <1>2 DEF ExecuteUpTo
<1>4. Moves(x, nd, C)
  <2>1. 4 \in 1 .. 4
    OBVIOUS
  <2> QED
    BY <1>2, <2>1, ExecuteUpToForm
<1>5. stored'[x] = d
  BY <1>2, <1>3
<1>6. Executes(V, G, A, x, nd, H, G2, A2, T2)
  BY <1>1, <1>4, <1>5 DEF Executes
<1> QED
  BY <1>6

LEMMA CallShown ==
  ASSUME MatchInv, NEW V, NEW G, NEW A, NEW x, NEW nd, NEW H, Acting(V, G, A, x, nd, H),
         NEW armed, NEW rest, rest \subseteq net, ExecuteUpTo(nd, 4, armed, rest),
         Shown(G, Chosen(V, A)), NEW G2, NEW A2, Spreads(V, G, A, G2, A2),
         Tree(G2, FixedConfigs(V))
  PROVE  Shown(G2, Chosen(V, A2))'
<1> DEFINE C == FixedConfigs(V)
           X == Chosen(V, A)
           X2 == Chosen(V, A2)
<1>1. PICK g, a, t : Executes(V, G, A, x, nd, H, g, a, t)
  BY CallExecutes
<1>2. /\ x \in NodeId
      /\ OthersRest(x)
      /\ node'[x].current_term = nd.current_term
      /\ node'[x].log = nd.log
  BY <1>1, ExecutesFacts
<1>3. nd.log.entries \in Entries(C)
  BY ActingTyped
<1>4. CountsKnown
  BY DEF Shown
<1>5. /\ CountsKnown'
      /\ \A f \in NodeId : \A q : Claimed(f, q)' =>
           \/ Claimed(f, q) /\ node'[f].current_term = node[f].current_term
           \/ f = x /\ q = LastPosition(nd.log.entries)
  BY <1>1, <1>4, CallClaims
<1>6. ASSUME nd.current_term = node[x].current_term, NEW q, Shows(G, X, q, node[x])
      PROVE  Shows(G, X, q, node'[x])
  <2>1. Shows(G, X, q, nd)
    BY <1>6, CallShows
  <2> QED
    BY <1>2, <2>1 DEF Shows
<1>7. G \subseteq G2 /\ X \subseteq X2 /\ Tree(G2, C)
  BY DEF Spreads
<1>8. Shown(G, X) /\ node'[x].log.entries \in Entries(C)
  BY <1>2, <1>3
<1>9. \A f \in NodeId : \A q : Claimed(f, q)' =>
        \/ Claimed(f, q) /\ node'[f].current_term = node[f].current_term
        \/ f = x /\ q = LastPosition(node'[x].log.entries)
  BY <1>2, <1>5
<1>10. node'[x].current_term = node[x].current_term =>
         \A q : Shows(G, X, q, node[x]) => Shows(G, X, q, node'[x])
  BY <1>2, <1>6
<1>11. PICK Y, Y2 : Y = X /\ Y2 = X2
  OBVIOUS
<1> HIDE DEF C, X, X2
<1>12. Shown(G2, Y2)'
  BY <1>2, <1>5, <1>7, <1>8, <1>9, <1>10, <1>11, ShownStep
<1> QED
  BY <1>11, <1>12 DEF X2

\* A restart counts nothing, and brings back the stored log.
LEMMA RestartShown ==
  ASSUME MatchInv, NEW V, NEW C, C = FixedConfigs(V), Typed(C), NEW G, NEW A, SafeInv(V, G, A),
         NEW x \in NodeId, NEW d, d.log = stored[x].log, d.current_term \in Nat,
         node[x].current_term <= d.current_term, RestartFrom(x, d), net' \subseteq net,
         Shown(G, Chosen(V, A)), NEW G2, NEW A2, Spreads(V, G, A, G2, A2), Tree(G2, C)
  PROVE  Shown(G2, Chosen(V, A2))'
<1> DEFINE X == Chosen(V, A)
           X2 == Chosen(V, A2)
           nd == Restarted(x, d)
           es == node[x].log.entries
           ds == stored[x].log.entries
<1>1. node' = [node EXCEPT ![x] = nd] /\ stored' = [stored EXCEPT ![x] = d]
  BY DEF RestartFrom, Restarted
<1>2. /\ nd.current_term = d.current_term
      /\ nd.role = "Follower"
      /\ nd.log = stored[x].log
  BY DEF Restarted, Restart, SetElectionTimeout, NewNode
<1> HIDE DEF nd
<1>3. node'[x] = nd /\ OthersRest(x)
  BY <1>1, TypedFacts DEF OthersRest
<1>4. es \in Entries(C) /\ ds \in Entries(C)
  BY TypedFacts, SoundLog, LogFacts
<1>5. Tree(G, C) /\ LogsSafe(G, es, ds)
  BY DEF SafeInv, SafeNow, NodeSafe
<1>6. CountsHonestly(x)
  BY <1>2, <1>3 DEF CountsHonestly, Counted
<1>7. CountsKnown
  BY DEF Shown
<1>8. /\ CountsKnown'
      /\ \A f \in NodeId : \A q : Claimed(f, q)' =>
           \/ Claimed(f, q) /\ node'[f].current_term = node[f].current_term
           \/ f = x /\ q = LastPosition(node'[x].log.entries)
  <2>1. \A p \in net' : p \in net
    OBVIOUS
  <2> QED
    BY <1>2, <1>3, <1>6, <1>7, <2>1, SaidBefore
<1>9. node'[x].current_term = node[x].current_term =>
        \A q : Shows(G, X, q, node[x]) => Shows(G, X, q, node'[x])
  <2> HIDE DEF X
  <2> SUFFICES ASSUME nd.current_term = node[x].current_term, NEW q, Shows(G, X, q, node[x])
               PROVE  Shows(G, X, q, nd)
    BY <1>3
  <2> QED
    BY <1>2, <1>4, <1>5, StoredShows
<1>10. /\ Shown(G, X) /\ node'[x].log.entries \in Entries(C)
       /\ G \subseteq G2 /\ X \subseteq X2
  BY <1>2, <1>3, <1>4 DEF Spreads
<1>11. PICK Y, Y2 : Y = X /\ Y2 = X2
  OBVIOUS
<1> HIDE DEF X, X2
<1>12. Shown(G2, Y2)'
  BY <1>3, <1>8, <1>9, <1>10, <1>11, ShownStep
<1> QED
  BY <1>11, <1>12 DEF X2

\* A snapshot changes neither terms nor counts.
LEMMA SnapshotShown ==
  ASSUME MatchInv, NEW V, IsFiniteSet(V), V # {}, NEW C, C = FixedConfigs(V), Typed(C),
         NEW G, NEW A, SafeInv(V, G, A), NEW x \in NodeId, SnapshotStep(x),
         Shown(G, Chosen(V, A)), NEW G2, NEW A2, Spreads(V, G, A, G2, A2), Tree(G2, C)
  PROVE  Shown(G2, Chosen(V, A2))'
<1>1. PICK p, config : /\ Snapped(x, p, config)
                       /\ IsValidSnapshot(node[x], p, config)
                       /\ InstallStoredSnapshot(node[x], p, config)
                       /\ net' \subseteq net
  BY DEF SnapshotStep
<1> DEFINE X == Chosen(V, A)
           X2 == Chosen(V, A2)
           a == node[x]
           nd == InstallSnapshot(a, p, config)
           es == a.log.entries
           es2 == nd.log.entries
<1>2. IsSnapshot(p, config, C) /\ p \in Position
  BY <1>1, SnappedTyped DEF IsSnapshot
<1>3. /\ Sound(a, C)
      /\ a.id = x
      /\ a.current_term \in Nat
      /\ es \in Entries(C)
  BY TypedFacts, SoundLog, LogFacts DEF Sound, IsNode, IsRecord
<1>4. nd.log = InstallInLog(a.log, p, config)
  BY <1>3 DEF InstallSnapshot, Sound, IsNode, IsRecord
<1>5. Installed(a, nd, C)
  BY <1>1, <1>2, <1>3, InstallSnapshotInstalls
<1>6. node' = [node EXCEPT ![x] = nd] /\ \E d : stored' = [stored EXCEPT ![x] = d]
  BY <1>1, <1>3 DEF InstallStoredSnapshot
<1>7. es2 = IF Contains(es, p) THEN Since(es, p) ELSE NewEntries(p)
  BY <1>4 DEF InstallInLog
<1> HIDE DEF nd
<1>8. node'[x] = nd /\ OthersRest(x)
  BY <1>6, TypedFacts DEF OthersRest
<1>9. /\ nd.current_term = a.current_term
      /\ nd.role = a.role
      /\ nd.followers = a.followers
  BY <1>5 DEF Installed
<1>10. /\ Tree(G, C)
       /\ LogsSafe(G, es, stored[x].log.entries)
       /\ CommitSafe(G, X, a)
       /\ a.role = "Leader" => Matches(A, a)
  BY DEF SafeInv, SafeNow, NodeSafe
<1>11. OnTree(G, p) /\ Decided(G, X, p, a.current_term)
  BY <1>1, SnappedDecided
<1>12. Backed(G, es) /\ p.index \in Nat /\ es.prev.index \in Nat /\ LastIndex(es) \in Nat
  BY <1>2, <1>3, <1>10, EntriesFacts DEF LogsSafe, Position
<1>13. Contains(es, p) => /\ es2 = Since(es, p)
                          /\ es2 \in Entries(C)
                          /\ es2.prev = p
                          /\ LastIndex(es2) = LastIndex(es)
                          /\ es.prev.index <= p.index
                          /\ \A j \in p.index .. LastIndex(es) : TermAt(es2, j) = TermAt(es, j)
  <2> SUFFICES ASSUME Contains(es, p)
               PROVE  /\ es2 = Since(es, p)
                      /\ es2 \in Entries(C)
                      /\ es2.prev = p
                      /\ LastIndex(es2) = LastIndex(es)
                      /\ es.prev.index <= p.index
                      /\ \A j \in p.index .. LastIndex(es) : TermAt(es2, j) = TermAt(es, j)
    OBVIOUS
  <2>1. es2 = Since(es, p)
    BY <1>7
  <2> HIDE DEF es, es2
  <2> QED
    BY <1>2, <1>3, <2>1, SinceKeeps
<1>14. ~Contains(es, p) => /\ es2 \in Entries(C)
                           /\ es.prev.index <= p.index
  <2> SUFFICES ASSUME ~Contains(es, p)
               PROVE  es2 \in Entries(C) /\ es.prev.index <= p.index
    OBVIOUS
  <2>1. es2 = NewEntries(p)
    BY <1>7
  <2>2. es2 \in Entries(C)
    <3> HIDE DEF es2
    <3> QED
      BY <1>2, <2>1, EmptyKeeps
  <2>3. a.commit_index \in es.prev.index .. LastIndex(es)
    BY <1>10 DEF CommitSafe, ContainsIndex
  <2>4. a.commit_index < p.index
    BY <1>1 DEF IsValidSnapshot
  <2> QED
    BY <1>12, <2>2, <2>3, <2>4
<1>15. CountsHonestly(x)
  <2> SUFFICES ASSUME NEW f \in NodeId, Counted(x, f)'
               PROVE  Counted(x, f) /\ CountedSpot(x, f)' = CountedSpot(x, f)
    BY <1>8, <1>9 DEF CountsHonestly
  <2> DEFINE k == a.followers[f]
  <2>1. a.role = "Leader" /\ f \in DOMAIN a.followers /\ k > es2.prev.index
    BY <1>8, <1>9 DEF Counted
  <2>2. Contains(es, p) /\ Matches(A, a)
    BY <1>1, <1>10, <2>1 DEF IsValidSnapshot
  <2>3. k \in Nat /\ k <= LastIndex(es)
    BY <1>3, <2>1, <2>2 DEF Matches, Sound, IsNode, IsRecord
  <2>4. k > es.prev.index /\ k \in p.index .. LastIndex(es)
    BY <1>12, <1>13, <2>1, <2>2, <2>3
  <2>5. Counted(x, f)
    BY <2>1, <2>4 DEF Counted
  <2>6. CountedSpot(x, f)' = Spot(es2, k)
    BY <1>8, <1>9 DEF CountedSpot
  <2>7. CountedSpot(x, f) = Spot(es, k)
    BY DEF CountedSpot
  <2>8. Spot(es2, k) = Spot(es, k)
    BY <1>13, <2>2, <2>4 DEF Spot
  <2> QED
    BY <2>5, <2>6, <2>7, <2>8
<1>16. CountsKnown
  BY DEF Shown
<1>17. /\ CountsKnown'
       /\ \A f \in NodeId : \A q : Claimed(f, q)' =>
            \/ Claimed(f, q) /\ node'[f].current_term = node[f].current_term
            \/ f = x /\ q = LastPosition(node'[x].log.entries)
  <2>1. \A q \in net' : q \in net
    BY <1>1
  <2>2. node'[x].current_term \in Nat /\ node[x].current_term <= node'[x].current_term
    BY <1>3, <1>8, <1>9
  <2> QED
    BY <1>8, <1>15, <1>16, <2>1, <2>2, SaidBefore
<1>18. \A q : Shows(G, X, q, node[x]) => Shows(G, X, q, node'[x])
  <2> SUFFICES ASSUME NEW q, Shows(G, X, q, node[x]) PROVE Shows(G, X, q, nd)
    BY <1>8
  <2>1. a.log.entries.prev.index <= p.index
    BY <1>13, <1>14
  <2>2. /\ a.log.entries \in Entries(C)
        /\ Backed(G, a.log.entries)
        /\ nd.log.entries = IF Contains(a.log.entries, p) THEN Since(a.log.entries, p)
                            ELSE NewEntries(p)
    BY <1>3, <1>7, <1>12
  <2> HIDE DEF X
  <2> QED
    BY <1>2, <1>9, <1>10, <1>11, <2>1, <2>2, SnapshotShows
<1>19. /\ Shown(G, X) /\ node'[x].log.entries \in Entries(C)
       /\ G \subseteq G2 /\ X \subseteq X2
  BY <1>8, <1>13, <1>14 DEF Spreads
<1>20. PICK Y, Y2 : Y = X /\ Y2 = X2
  OBVIOUS
<1> HIDE DEF X, X2
<1>21. Shown(G2, Y2)'
  BY <1>8, <1>17, <1>18, <1>19, <1>20, ShownStep
<1> QED
  BY <1>20, <1>21 DEF X2

LEMMA CallStepShown ==
  ASSUME NEW V, VotersFixed(V), V # {}, NEW C, C = FixedConfigs(V), Typed(C), FixedInv(V),
         MatchInv, NEW G, NEW A, SafeInv(V, G, A), NEW x \in NodeId, CallStep(x), ElectionSafety',
         Batching = "none", Shown(G, Chosen(V, A)),
         NEW G2, NEW A2, Spreads(V, G, A, G2, A2), Tree(G2, C)
  PROVE  Shown(G2, Chosen(V, A2))'
<1>1. PICK nd, armed, rest : Calls(x, nd) /\ rest \subseteq net /\ Return(nd, armed, rest)
  BY DEF CallStep
<1>2. Covering(C) /\ IsFiniteSet(V)
  BY FixedCover DEF VotersFixed
<1>3. Turns(x, nd, C) /\ nd.id = x /\ Sound(nd, C)
  BY <1>1, <1>2, CallsTurns, TypedFacts, TurnsEvolves DEF Evolves
<1>4. CASE ExecuteUpTo(nd, 4, armed, rest)
  <2>1. PICK H : Acting(V, G, A, x, nd, H)
    BY <1>1, <1>4, CallActing
  <2> QED
    BY <1>1, <1>4, <2>1, CallShown
<1>5. CASE \E k \in 0 .. 2 : RestartFrom(nd.id, Persist(stored[nd.id], nd, k)) /\ net' = rest
  <2>1. PICK k \in 0 .. 2 : RestartFrom(nd.id, Persist(stored[nd.id], nd, k)) /\ net' = rest
    BY <1>5
  <2> DEFINE d == Persist(stored[x], nd, k)
  <2>2. RestartFrom(x, d) /\ net' \subseteq net
    BY <1>1, <1>3, <2>1
  <2>3. d.log = stored[x].log
    <3>1. ~(k >= 3)
      OBVIOUS
    <3> QED
      BY <3>1 DEF Persist
  <2>4. Settles(stored[x], nd, d) /\ d.current_term \in Nat
    <3>1. k \in 0 .. 4
      OBVIOUS
    <3> QED
      BY <1>3, <3>1, PersistForm
  <2> HIDE DEF d
  <2>5. node[x].current_term <= d.current_term
    <3>1. /\ stored[x].current_term = node[x].current_term
          /\ node[x].current_term \in Nat
          /\ node[x].current_term <= nd.current_term
      BY <1>3, TypedFacts, TurnsEvolves
      DEF MatchInv, Idle, Backs, NoActions, IsNode, IsRecord, Evolves
    <3> QED
      BY <2>4, <3>1 DEF Settles
  <2> QED
    BY <2>2, <2>3, <2>4, <2>5, RestartShown
<1> QED
  BY <1>1, <1>4, <1>5 DEF Return

LEMMA NextShown ==
  ASSUME NEW V, VotersFixed(V), V # {}, NEW C, C = FixedConfigs(V), Typed(C), FixedInv(V),
         MatchInv, NEW G, NEW A, SafeInv(V, G, A), ElectionSafety', [Next]_vars,
         Batching = "none", Shown(G, Chosen(V, A)),
         NEW G2, NEW A2, Spreads(V, G, A, G2, A2), Tree(G2, C)
  PROVE  Shown(G2, Chosen(V, A2))'
<1> DEFINE Good == Shown(G2, Chosen(V, A2))'
<1>1. IsFiniteSet(V)
  BY DEF VotersFixed
<1>2. ASSUME NEW x \in NodeId, CallStep(x) PROVE Good
  BY <1>2, CallStepShown
<1>3. ASSUME NEW x \in NodeId, SnapshotStep(x) PROVE Good
  BY <1>1, <1>3, SnapshotShown
<1>4. ASSUME NEW x \in NodeId, Execute(x) PROVE FALSE
  BY <1>4 DEF Execute, MatchInv, Idle
<1>5. ASSUME NEW x \in NodeId, Crash(x) PROVE Good
  <2>1. RestartFrom(x, stored[x]) /\ net' \subseteq net
    BY <1>5 DEF Crash
  <2>2. stored[x].current_term = node[x].current_term /\ stored[x].current_term \in Nat
    BY TypedFacts DEF MatchInv, Idle, Backs, NoActions, IsNode, IsRecord
  <2>3. node[x].current_term <= stored[x].current_term
    BY <2>2
  <2> DEFINE d == stored[x]
  <2>4. d.log = stored[x].log /\ RestartFrom(x, d)
    BY <2>1
  <2>5. d.current_term \in Nat /\ node[x].current_term <= d.current_term
    BY <2>2, <2>3
  <2> HIDE DEF d
  <2> QED
    BY <2>1, <2>4, <2>5, RestartShown
<1>6. ASSUME Rests PROVE Good
  <2> DEFINE X == Chosen(V, A)
             X2 == Chosen(V, A2)
  <2>1. node' = node /\ net' \subseteq net
    BY <1>6 DEF Rests
  <2>2. CountsKnown'
    BY <2>1 DEF Shown, CountsKnown, Counted
  <2>3. ASSUME NEW f \in NodeId, NEW q, Claimed(f, q)' PROVE Claimed(f, q)
    <3>1. CASE Replied(f, q)'
      BY <2>1, <3>1 DEF Replied, Claimed
    <3>2. ASSUME NEW id \in NodeId, Counted(id, f)', node'[id].current_term = node'[f].current_term,
                 q = CountedSpot(id, f)'
          PROVE  Claimed(f, q)
      <4>1. Counted(id, f) /\ node[id].current_term = node[f].current_term
        BY <2>1, <3>2 DEF Counted
      <4>2. q = CountedSpot(id, f)
        BY <2>1, <3>2 DEF CountedSpot
      <4> QED
        BY <4>1, <4>2 DEF Claimed
    <3> QED
      BY <2>3, <3>1, <3>2 DEF Claimed
  <2>4. G \subseteq G2 /\ X \subseteq X2
    BY DEF Spreads
  <2>5. PICK Y, Y2 : Y = X /\ Y2 = X2
    OBVIOUS
  <2> HIDE DEF X, X2
  <2>6. ASSUME NEW f \in NodeId, NEW q, Claimed(f, q)' PROVE Shows(G2, Y2, q, node'[f])
    <3>1. Shows(G, Y, q, node[f])
      BY <2>3, <2>5, <2>6 DEF Shown, X
    <3>2. Shows(G2, Y2, q, node[f])
      BY <2>4, <2>5, <3>1, ShowsWidens
    <3> QED
      BY <2>1, <3>2
  <2>7. \A f \in NodeId : \A q : Claimed(f, q)' => Shows(G2, Y2, q, node[f])'
    BY <2>6 DEF Shows, Excluded, OnTree, Decided, Before
  <2>8. Shown(G2, Y2)'
    BY <2>2, <2>7 DEF Shown
  <2> QED
    BY <2>5, <2>8 DEF X2
<1>7. UNCHANGED vars => Rests
  BY DEF vars, Rests
<1> HIDE DEF Good
<1>8. Next => Good
  BY <1>2, <1>3, <1>4, <1>5, <1>6, NextCases
<1>9. Good
  BY <1>6, <1>7, <1>8
<1> QED
  BY <1>9 DEF Good

LEMMA InitShown ==
  ASSUME NEW G, NEW X, Init
  PROVE  Shown(G, X)
<1>1. net = {}
  BY DEF Init
<1>2. \A id \in NodeId : node[id].role = "Follower"
  BY DEF Init, Restart, SetElectionTimeout, NewNode
<1> QED
  BY <1>1, <1>2 DEF Shown, CountsKnown, Claimed, Replied, Counted

\* What a leader has counted is stored, unless the follower is past the leader's term.
LEMMA CountsStored ==
  ASSUME NEW V, IsFiniteSet(V), V # {}, NEW C, C = FixedConfigs(V), Typed(C), FixedInv(V),
         MatchInv, NEW G, NEW A, SafeInv(V, G, A), Shown(G, Chosen(V, A))
  PROVE  MatchIndexDurable
<1> SUFFICES ASSUME NEW id \in NodeId, node[id].role = "Leader",
                    NEW f \in DOMAIN node[id].followers \cap NodeId,
                    LET mine == node[id].log.entries
                        its == stored[f].log.entries
                    IN  /\ node[id].followers[f] > Max({mine.prev.index, its.prev.index})
                        /\ node[f].current_term <= node[id].current_term
             PROVE  LET i == node[id].followers[f] IN
                    Contains(stored[f].log.entries, Pos(TermAt(node[id].log.entries, i), i))
  BY DEF MatchIndexDurable
<1> DEFINE mine == node[id].log.entries
           es == node[f].log.entries
           its == stored[f].log.entries
           i == node[id].followers[f]
           t == node[id].current_term
           X == Chosen(V, A)
           q == Spot(mine, i)
           last == LastPosition(mine)
<1>1. /\ t \in Nat /\ node[f].current_term \in Nat
      /\ mine \in Entries(C) /\ es \in Entries(C) /\ its \in Entries(C)
      /\ i \in Nat
  BY TypedFacts, SoundLog, LogFacts DEF Sound, IsNode, IsRecord
<1>2. /\ mine.prev.index \in Nat /\ LastIndex(mine) \in Nat /\ its.prev.index \in Nat
  BY <1>1, EntriesFacts
<1>3. i > mine.prev.index /\ i > its.prev.index
  <2> DEFINE a == mine.prev.index
             b == its.prev.index
  <2>1. i > Max({a, b}) /\ i \in Nat /\ a \in Nat /\ b \in Nat
    BY <1>1, <1>2
  <2> HIDE DEF a, b, i
  <2>2. Max({a, b}) >= a /\ Max({a, b}) >= b /\ Max({a, b}) \in {a, b}
    <3>1. \E m \in {a, b} : \A y \in {a, b} : m >= y
      BY <2>1
    <3> QED
      BY <3>1 DEF Max
  <2>3. i > a /\ i > b
    BY <2>1, <2>2
  <2> QED
    BY <2>3 DEF a, b, i
<1>4. /\ Tree(G, C)
      /\ LogsSafe(G, es, its)
      /\ Backed(G, mine)
      /\ Matches(A, node[id])
  BY DEF SafeInv, SafeNow, NodeSafe, LogsSafe
<1>5. Counted(id, f) /\ node[id].current_term = node[f].current_term
  <2>1. Counted(id, f)
    BY <1>3 DEF Counted
  <2>2. node[id].current_term <= node[f].current_term
    BY <2>1 DEF Shown, CountsKnown
  <2> QED
    BY <1>1, <2>1, <2>2
<1>6. Shows(G, X, q, node[f])
  <2>1. Claimed(f, q)
    BY <1>5 DEF Claimed, CountedSpot
  <2> QED
    BY <2>1 DEF Shown
<1>7. q.index = i
  BY DEF Spot, Pos
<1>8. Contains(mine, q)
  <2>1. i <= LastIndex(mine)
    BY <1>4 DEF Matches
  <2>2. i \in mine.prev.index .. LastIndex(mine)
    BY <1>1, <1>2, <1>3, <2>1
  <2>3. q.term = TermAt(mine, i)
    BY DEF Spot, Pos
  <2> HIDE DEF q, mine, i
  <2> QED
    BY <1>7, <2>2, <2>3 DEF Contains, ContainsIndex
<1>9. CASE Contains(es, q)
  <2> HIDE DEF q, es, its
  <2>1. Contains(its, q)
    BY <1>1, <1>4, <1>9, StoredContains
  <2> QED
    BY <2>1 DEF its, q, Spot
<1>10. CASE q.index \in 0 .. es.prev.index
  <2>1. its.prev = es.prev
    BY <1>4 DEF LogsSafe
  <2> QED
    BY <1>1, <1>2, <1>3, <1>7, <1>10, <2>1
<1>11. CASE Excluded(G, X, q, t)
  <2>1. PICK r : /\ OnTree(G, r)
                 /\ r.term = t \/ Decided(G, X, r, t)
                 /\ ~Before(G, q, r)
                 /\ ~Before(G, r, q)
    BY <1>11 DEF Excluded
  <2>2. Before(G, r, last)
    BY <2>1, LeadersLine
  <2>3. Before(G, q, last)
    <3> HIDE DEF q, mine
    <3> QED
      BY <1>1, <1>4, <1>8, BackedFacts DEF last
  <2> HIDE DEF q, last
  <2> QED
    BY <1>4, <2>1, <2>2, <2>3, BeforeLinear
<1> QED
  BY <1>5, <1>6, <1>9, <1>10, <1>11 DEF Shows, Holding

-----------------------------------------------------------------------------
(* The theorems. *)

\* The inductive invariant.
Invariant(V) ==
  /\ Typed(FixedConfigs(V))
  /\ FixedInv(V)
  /\ NoRival
  /\ MatchInv
  /\ \E G, A : SafeInv(V, G, A) /\ Shown(G, Chosen(V, A))

LEMMA InvariantInit ==
  ASSUME NEW V, VotersFixed(V), OneFounding, PlainBoot, Init
  PROVE  Invariant(V)
<1>1. Typed(FixedConfigs(V))
  BY FixedCover, InitTyped
<1>2. FixedInv(V) /\ MatchInv
  BY FixedInit, InitMatches
<1>3. NoRival
  <2>1. \A id \in NodeId : node[id] = Restarted(id, Boot[id])
    BY DEF Init, Restarted
  <2>2. \A id \in NodeId : node[id].broken = {}
    <3> TAKE id \in NodeId
    <3>1. Boot[id].current_term \in Nat /\ Boot[id].log \in Logs(FixedConfigs(V))
      BY BootAssumption DEF VotersFixed
    <3> QED
      BY <2>1, <3>1, RestartFacts
  <2> QED
    BY <2>2 DEF NoRival
<1>4. SafeInv(V, BootTree, BootAcks)
  BY <1>1, <1>2, InitSafe
<1>5. Shown(BootTree, Chosen(V, BootAcks))
  BY InitShown
<1>6. \E G, A : SafeInv(V, G, A) /\ Shown(G, Chosen(V, A))
  BY <1>4, <1>5
<1> QED
  BY <1>1, <1>2, <1>3, <1>6 DEF Invariant

LEMMA InvariantStep ==
  ASSUME Batching = "none", NEW CONSTANT V, VotersFixed(V), V # {}, Invariant(V), [Next]_vars
  PROVE  Invariant(V)'
<1> DEFINE C == FixedConfigs(V)
<1>1. Typed(C) /\ FixedInv(V) /\ NoRival /\ MatchInv
  BY DEF Invariant
<1>2. PICK G, A : SafeInv(V, G, A) /\ Shown(G, Chosen(V, A))
  BY DEF Invariant
<1>3. Covering(C)
  BY FixedCover
<1>4. FixedInv(V)' /\ NoRival'
  BY <1>1, FixedStep
<1>5. ElectionSafety'
  BY <1>4 DEF FixedInv
<1>6. Typed(C)'
  BY <1>1, <1>3, TypedStep
<1>7. MatchInv'
  BY <1>1, <1>3, <1>5, MatchStep
<1>8. PICK G2, A2 : Spreads(V, G, A, G2, A2) /\ SafeInv(V, G2, A2)'
  BY <1>1, <1>2, <1>5, NextKeeps
<1>9. Tree(G2, C)
  BY <1>8 DEF SafeInv, SafeNow
<1>10. Shown(G2, Chosen(V, A2))'
  BY <1>1, <1>2, <1>5, <1>8, <1>9, NextShown
<1>11. (\E H, B : SafeInv(V, H, B) /\ Shown(H, Chosen(V, B)))'
  BY <1>8, <1>10
<1> QED
  BY <1>4, <1>6, <1>7, <1>11 DEF Invariant

LEMMA InvariantSafe ==
  ASSUME NEW V, VotersFixed(V), V # {}, Invariant(V)
  PROVE  /\ StateMachineSafety
         /\ LeaderCompleteness
         /\ CommittedOnMajority
         /\ CommitStatusAgrees
         /\ MatchIndexDurable
<1> DEFINE C == FixedConfigs(V)
<1>1. Typed(C) /\ FixedInv(V) /\ NoRival /\ MatchInv /\ IsFiniteSet(V)
  BY DEF Invariant, VotersFixed
<1>2. PICK G, A : SafeInv(V, G, A) /\ Shown(G, Chosen(V, A))
  BY DEF Invariant
<1>3. Lawful(C, G, Voided(V, A, Now), Chosen(V, A)) /\ HistorySafe(G, Chosen(V, A))
  BY <1>1, <1>2, SafeLawful DEF SafeInv, SafeNow
<1>4. StateMachineSafety
  BY <1>3, HistoryAgrees
<1>5. LeaderCompleteness
  BY <1>1, <1>2, LeadersComplete
<1>6. CommittedOnMajority
  BY <1>1, <1>2, MajorityStores
<1>7. CommitStatusAgrees
  BY <1>1, <1>2, StatusAgrees
<1>8. MatchIndexDurable
  BY <1>1, <1>2, CountsStored
<1> QED
  BY <1>4, <1>5, <1>6, <1>7, <1>8

LEMMA InvariantHolds ==
  ASSUME NEW CONSTANT V, V # {}, VotersFixed(V), Batching = "none", OneFounding, PlainBoot
  PROVE  Spec => []Invariant(V)
<1>1. Init => Invariant(V)
  BY InvariantInit
<1>2. Invariant(V) /\ [Next]_vars => Invariant(V)'
  BY InvariantStep
<1> QED
  BY <1>1, <1>2, PTL DEF Spec

\* Nodes never see different entries committed at one index (handle_append_entries_reply
\* commits what a majority has stored in the leader's own term, and handle_append_entries_call
\* what the leader says), whatever is lost, repeated, reordered, truncated or compacted, and
\* whichever nodes crash, in every cluster of fixed voters whose users execute the actions of a
\* call before the next one.
THEOREM FixedVotersAgree ==
  ASSUME NEW CONSTANT V, V # {}, VotersFixed(V), Batching = "none", OneFounding, PlainBoot
  PROVE  Spec => []StateMachineSafety
<1>1. Invariant(V) => StateMachineSafety
  BY InvariantSafe
<1> QED
  BY <1>1, InvariantHolds, PTL

\* The leader of the latest term has every committed entry: handle_request_vote_call denies its
\* vote to a candidate whose last position is behind the voter's, and a leader commits entries of
\* its own term only (update_commit_index_if_possible).
THEOREM FixedVotersComplete ==
  ASSUME NEW CONSTANT V, V # {}, VotersFixed(V), Batching = "none", OneFounding, PlainBoot
  PROVE  Spec => []LeaderCompleteness
<1>1. Invariant(V) => LeaderCompleteness
  BY InvariantSafe
<1> QED
  BY <1>1, InvariantHolds, PTL

\* A committed entry is in the storage of a majority of the voters for good: what
\* handle_append_entries_call truncates, and what a snapshot replaces, was not committed or is kept.
THEOREM FixedVotersStore ==
  ASSUME NEW CONSTANT V, V # {}, VotersFixed(V), Batching = "none", OneFounding, PlainBoot
  PROVE  Spec => []CommittedOnMajority
<1>1. Invariant(V) => CommittedOnMajority
  BY InvariantSafe
<1> QED
  BY <1>1, InvariantHolds, PTL

\* get_commit_status of one node never calls rejected what that of another calls committed.
THEOREM FixedVotersReport ==
  ASSUME NEW CONSTANT V, V # {}, VotersFixed(V), Batching = "none", OneFounding, PlainBoot
  PROVE  Spec => []CommitStatusAgrees
<1>1. Invariant(V) => CommitStatusAgrees
  BY InvariantSafe
<1> QED
  BY <1>1, InvariantHolds, PTL

\* What a leader counts as replicated (the match index of handle_append_entries_reply) is in
\* the follower's storage, until the follower enters a later term: replies repeated, delayed
\* past the follower's crash or past the leader's compaction make it count nothing else.
THEOREM FixedVotersCount ==
  ASSUME NEW CONSTANT V, V # {}, VotersFixed(V), Batching = "none", OneFounding, PlainBoot
  PROVE  Spec => []MatchIndexDurable
<1>1. Invariant(V) => MatchIndexDurable
  BY InvariantSafe
<1> QED
  BY <1>1, InvariantHolds, PTL

\* No write that truncates (append_unchecked on the stored entries), no snapshot that replaces
\* the stored log and no crash takes from storage a committed entry that the node's log has too,
\* once the node has seen the term of every leader. Its stored term never falls.
THEOREM FixedVotersKeep ==
  ASSUME NEW CONSTANT V, V # {}, VotersFixed(V), Batching = "none", OneFounding, PlainBoot
  PROVE  Spec => StorageMonotonic
<1> DEFINE Body ==
      \A id \in NodeId :
        LET old == stored[id].log.entries
            new == stored[id]'.log.entries
            current == \A l \in elected : l[1] <= node[id]'.current_term
        IN  /\ stored[id].current_term <= stored[id]'.current_term
            /\ current => \A c \in committed :
                 Keeps(node[id].log.entries, c) /\ Keeps(old, c) => Keeps(new, c)
<1>1. ASSUME Invariant(V), [Next]_vars PROVE Body
  <2> DEFINE C == FixedConfigs(V)
  <2>1. Typed(C) /\ FixedInv(V) /\ NoRival /\ MatchInv
    BY <1>1 DEF Invariant
  <2>2. PICK G, A : SafeInv(V, G, A)
    BY <1>1 DEF Invariant
  <2>3. FixedInv(V)' /\ NoRival'
    BY <1>1, <2>1, FixedStep
  <2>4. ElectionSafety'
    BY <2>3 DEF FixedInv
  <2>5. StoredTermsRise
    BY <1>1, <2>1, DurableStep DEF Typed
  <2>6. ASSUME NEW c \in committed PROVE LostNothing(c)
    <3> HIDE DEF C
    <3>1. C = FixedConfigs(V)
      BY DEF C
    <3> QED
      BY <1>1, <2>1, <2>2, <2>4, <3>1, NextStores
  <2> QED
    BY <2>5, <2>6 DEF StoredTermsRise, LostNothing
<1>2. StorageMonotonic <=> [][Body]_vars
  BY DEF StorageMonotonic
<1> HIDE DEF Body
<1>3. Spec => []Invariant(V)
  BY InvariantHolds
<1>4. Spec => [][Next]_vars
  BY PTL DEF Spec
<1> QED
  BY <1>1, <1>2, <1>3, <1>4, PTL

-----------------------------------------------------------------------------
(* The replicated log. *)

\* What is committed are the first n entries of the log h.
Recorded(C, h, n) ==
  /\ h \in Entries(C)
  /\ h.prev = ZERO
  /\ n \in 0 .. LastIndex(h)
  /\ committed = {<<i, EntryAt(h, i)>> : i \in 1 .. n}
  /\ \A i \in 1 .. n : TermsStep(Edge(h, i))

\* No node takes more for committed, nor is told that more is.
Reported(n) ==
  /\ \A id \in NodeId : node[id].commit_index <= n
  /\ \A p \in net :
       /\ p.msg.type = "AppendEntriesCall" => p.msg.commit_index <= n
       /\ p.msg.type = "InstallSnapshot" => p.msg.position.index <= n

OneRecord(C) == \E h, n : Recorded(C, h, n) /\ Reported(n)

\* The record stays, or more is committed, up to an entry of a leader's term.
Advances(C) ==
  /\ elected \subseteq elected'
  /\ \E h, n :
       /\ Recorded(C, h, n)'
       /\ Reported(n)'
       /\ \/ committed' = committed
          \/ /\ committed \subseteq committed'
             /\ n > 0
             /\ \E l \in elected' : l[1] = EntryAt(h, n).term

\* A node that commits nothing beyond the record adds nothing to it.
LEMMA RecordSame ==
  ASSUME NEW C, NEW h, NEW n, Recorded(C, h, n), StateMachineSafety', NEW nd,
         nd.log.entries.prev.index \in Nat, nd.commit_index \in Nat, nd.commit_index <= n,
         committed \subseteq committed', committed' \subseteq committed \cup CommittedEntries(nd)
  PROVE  committed' = committed
<1> SUFFICES ASSUME NEW c \in CommittedEntries(nd), c \in committed' PROVE c \in committed
  OBVIOUS
<1> DEFINE es == nd.log.entries
<1>1. PICK i \in es.prev.index + 1 .. nd.commit_index : c = <<i, EntryAt(es, i)>>
  BY DEF CommittedEntries
<1>2. n \in Nat
  BY EntriesFacts DEF Recorded
<1>3. i \in 1 .. n
  BY <1>1, <1>2
<1> DEFINE d == <<i, EntryAt(h, i)>>
<1>4. d \in committed
  BY <1>3 DEF Recorded
<1>5. c[1] = d[1]
  BY <1>1
<1>6. d \in committed'
  BY <1>4
<1>7. c[2] = d[2]
  BY <1>5, <1>6 DEF StateMachineSafety
<1>8. c = d
  BY <1>1, <1>7
<1> QED
  BY <1>4, <1>8

\* Then the record stays.
LEMMA RecordStays ==
  ASSUME NEW C, NEW h, NEW n, Recorded(C, h, n), committed' = committed,
         elected \subseteq elected', Reported(n)'
  PROVE  Advances(C)
<1>1. Recorded(C, h, n)'
  BY DEF Recorded
<1> QED
  BY <1>1 DEF Advances

-----------------------------------------------------------------------------
(* A call that is executed. *)

\* What the node says of its commit index and of its snapshot.
LEMMA OutboundReports ==
  ASSUME NEW V, NEW G, NEW A, NEW x, NEW nd, NEW H, Acting(V, G, A, x, nd, H),
         NEW p \in Outbound(nd)
  PROVE  /\ p.msg.type = "AppendEntriesCall" => p.msg.commit_index <= nd.commit_index
         /\ p.msg.type = "InstallSnapshot" => p.msg.position = nd.log.entries.prev
<1> DEFINE C == FixedConfigs(V)
<1>1. Sound(nd, C) /\ nd.id = x
  BY ActingTyped
<1>2. Speaking(nd, H)
  BY DEF Acting, Deed
<1>3. /\ \A b \in nd.actions.broadcast_message :
           IsMessage(b) /\ MessageOK(b, C) /\ Honest(nd, b) /\ b.from = x
      /\ \A d \in DOMAIN nd.actions.send_messages :
           /\ IsMessage(nd.actions.send_messages[d])
           /\ MessageOK(nd.actions.send_messages[d], C)
           /\ Honest(nd, nd.actions.send_messages[d])
           /\ nd.actions.send_messages[d].from = x
  BY <1>1, <1>2 DEF Sound, QueuesOK, IsNode, OwnMessages, Speaks, Speaking
<1> HIDE DEF C
<1>4. ASSUME NEW m, IsMessage(m), MessageOK(m, C), Honest(nd, m), p.msg \in Slices(m)
      PROVE  /\ p.msg.type # "InstallSnapshot"
             /\ p.msg.type = "AppendEntriesCall" => p.msg.commit_index <= nd.commit_index
  <2>1. IsMessage(p.msg) /\ Honest(nd, p.msg)
    BY <1>1, <1>4, SliceHonest
  <2> QED
    BY <2>1 DEF Honest, Cites, IsMessage
<1>5. CASE p \in Broadcasts(nd)
  <2>1. PICK b \in nd.actions.broadcast_message : p.msg \in Slices(b)
    BY <1>5 DEF Broadcasts
  <2> QED
    BY <1>3, <1>4, <2>1
<1>6. CASE p \in Sends(nd)
  <2>1. PICK d \in DOMAIN nd.actions.send_messages :
          p.msg \in Slices(nd.actions.send_messages[d])
    BY <1>6 DEF Sends
  <2> QED
    BY <1>3, <1>4, <2>1
<1>7. CASE p \in Transfers(nd)
  BY <1>7 DEF Transfers, SnapshotTransfer
<1> QED
  BY <1>5, <1>6, <1>7 DEF Outbound

\* A leader that commits has in its log what the record has, and goes on from there.
LEMMA RecordGrows ==
  ASSUME NEW V, NEW G, NEW A, NEW x, NEW nd, NEW H, Acting(V, G, A, x, nd, H),
         NEW C, C = FixedConfigs(V), NEW h, NEW n, Recorded(C, h, n),
         nd.role = "Leader", Commits(V, nd), nd.commit_index \in Nat, n < nd.commit_index,
         node[x].commit_index <= n, node[x].commit_index \in Nat,
         \A e \in Edges(nd.log.entries) : TermsStep(e),
         committed' = committed \cup CommittedEntries(nd)
  PROVE  \E g : /\ Recorded(C, g, nd.commit_index)'
                /\ EntryAt(g, nd.commit_index).term = nd.current_term
<1> DEFINE U == Voided(V, A, Now)
           X == Chosen(V, A)
           L == node[x].log.entries
           b == nd.log.entries
           t == nd.current_term
           k == nd.commit_index
<1>1. PICK G2, A2, T2 : Acted(V, G, A, x, nd, H, G2, A2, T2)
  BY CallActed
<1> DEFINE U2 == Voided(V, A2, T2)
           X2 == Chosen(V, A2)
<1>2. /\ Widens(C, G, U, X, G2, U2, X2)
      /\ Lawful(C, G2, U2, X2)
      /\ Tree(G2, C)
      /\ Backed(G2, b)
      /\ b.prev = L.prev
  BY <1>1, ActedFacts DEF Continues
<1>3. /\ b \in Entries(C) /\ L \in Entries(C) /\ t \in Nat
      /\ b.prev.index \in Nat /\ LastIndex(b) \in Nat
  BY ActingTyped, EntriesFacts
<1>4. h \in Entries(C) /\ h.prev = ZERO /\ h.prev.index = 0 /\ n \in Nat /\ n <= LastIndex(h)
      /\ LastIndex(h) \in Nat
  BY EntriesFacts DEF Recorded, ZERO, Pos
<1>5. b.prev.index <= n
  <2>1. ContainsIndex(L, node[x].commit_index)
    BY ActingSafe DEF NodeSafe, CommitSafe
  <2>2. L.prev.index <= node[x].commit_index
    BY <1>2, <1>3, <2>1 DEF ContainsIndex
  <2> QED
    BY <1>2, <1>3, <1>4, <2>2
<1>6. PICK g \in G2 : PartOf(b, g)
  BY <1>2 DEF Backed
<1>7. g \in Entries(C) /\ g.prev = ZERO /\ g.prev.index = 0 /\ LastIndex(g) \in Nat
  BY <1>2, EntriesFacts DEF Tree, ZERO, Pos
<1>8. /\ LastIndex(b) <= LastIndex(g)
      /\ \A i \in b.prev.index .. LastIndex(b) : TermAt(b, i) = TermAt(g, i)
      /\ \A i \in b.prev.index + 1 .. LastIndex(b) : EntryAt(b, i) = EntryAt(g, i)
  <2>1. g.prev.index <= b.prev.index
    BY <1>3, <1>7
  <2> HIDE DEF b
  <2>2. /\ LastIndex(b) <= LastIndex(g)
        /\ \A i \in b.prev.index .. LastIndex(b) : TermAt(b, i) = TermAt(g, i)
    BY <1>3, <1>6, <1>7, <2>1, PartFacts
  <2> QED
    BY <1>6, <2>2 DEF PartOf
<1>9. k \in b.prev.index + 1 .. LastIndex(b) /\ TermAt(b, k) = t /\ k > 0 /\ k <= LastIndex(g)
  <2>1. k \in b.prev.index .. LastIndex(b) /\ TermAt(b, k) = t
    BY DEF Commits, ContainsIndex
  <2> HIDE DEF b, k
  <2>2. k \in Nat /\ n < k
    BY DEF k
  <2> QED
    BY <1>3, <1>4, <1>5, <1>7, <1>8, <2>1, <2>2
<1>10. Spot(g, k) \in X2
  <2>1. Pos(t, k) \in X2
    BY <1>1, <1>9, CommitsChosen
  <2>2. TermAt(g, k) = t
    BY <1>3, <1>8, <1>9
  <2> QED
    BY <2>1, <2>2 DEF Spot
<1> HIDE DEF U, X, U2, X2, L, b, t, k
<1>11. \A i \in 1 .. n : EntryAt(h, i) = EntryAt(g, i)
  <2> TAKE i \in 1 .. n
  <2> DEFINE c == <<i, EntryAt(h, i)>>
             d == <<i, EntryAt(g, i)>>
  <2>1. Below(G2, X2, c)
    <3>1. c \in committed
      BY DEF Recorded
    <3>2. HistorySafe(G, X)
      BY DEF Acting, SafeInv, SafeNow, X
    <3>3. Below(G, X, c)
      BY <3>1, <3>2 DEF HistorySafe, Below
    <3> HIDE DEF c
    <3> QED
      BY <1>2, <3>3 DEF Below, Widens
  <2>2. Below(G2, X2, d)
    <3>1. k \in 1 .. LastIndex(g) /\ i \in 1 .. k
      <4>1. k \in Nat /\ n < k
        BY DEF k
      <4> QED
        BY <1>4, <1>7, <1>9, <4>1
    <3>2. d[1] = i /\ d[2] = EntryAt(g, i)
      OBVIOUS
    <3> HIDE DEF d
    <3> QED
      BY <1>6, <1>10, <3>1, <3>2 DEF Below
  <2>3. c[1] = d[1]
    OBVIOUS
  <2>4. c[2] = d[2]
    <3> HIDE DEF c, d
    <3> QED
      BY <1>2, <2>1, <2>2, <2>3, BelowAgrees
  <2> QED
    BY <2>4
<1>12. k \in Nat /\ n < k
  BY DEF k
<1>13. committed' = {<<i, EntryAt(g, i)>> : i \in 1 .. k}
  <2>1. CommittedEntries(nd) = {<<i, EntryAt(b, i)>> : i \in {j \in b.prev.index + 1 .. k : ContainsIndex(b, j)}}
    BY DEF CommittedEntries, b, k
  <2>2. \A j \in b.prev.index + 1 .. k : ContainsIndex(b, j) /\ EntryAt(b, j) = EntryAt(g, j)
    BY <1>3, <1>8, <1>9, <1>12 DEF ContainsIndex
  <2>3. CommittedEntries(nd) = {<<i, EntryAt(g, i)>> : i \in b.prev.index + 1 .. k}
    BY <2>1, <2>2
  <2>4. committed = {<<i, EntryAt(g, i)>> : i \in 1 .. n}
    BY <1>11 DEF Recorded
  <2>5. 1 .. k = (1 .. n) \cup (b.prev.index + 1 .. k)
    BY <1>3, <1>4, <1>5, <1>12
  <2> QED
    BY <2>3, <2>4, <2>5
<1>14. \A i \in 1 .. k : TermsStep(Edge(g, i))
  <2> TAKE i \in 1 .. k
  <2>1. CASE i \in 1 .. n
    <3>1. TermAt(h, i - 1) = TermAt(g, i - 1)
      <4>1. CASE i = 1
        <5>1. TermAt(h, 0) = 0 /\ TermAt(g, 0) = 0
          BY <1>4, <1>7, FullFacts
        <5> QED
          BY <4>1, <5>1
      <4>2. CASE i # 1
        <5>1. /\ i - 1 \in 1 .. n
              /\ i - 1 \in 1 .. LastIndex(h)
              /\ i - 1 \in 1 .. LastIndex(g)
          BY <1>4, <1>7, <1>9, <1>12, <2>1, <4>2
        <5>2. TermAt(h, i - 1) = EntryAt(h, i - 1).term
          BY <1>4, <5>1, FullFacts
        <5>3. TermAt(g, i - 1) = EntryAt(g, i - 1).term
          BY <1>7, <5>1, FullFacts
        <5> QED
          BY <1>11, <5>1, <5>2, <5>3
      <4> QED
        BY <4>1, <4>2
    <3>2. Edge(g, i) = Edge(h, i)
      BY <1>11, <2>1, <3>1 DEF Edge
    <3>3. TermsStep(Edge(h, i))
      BY <2>1 DEF Recorded
    <3> QED
      BY <3>2, <3>3
  <2>2. CASE ~(i \in 1 .. n)
    <3>1. i \in b.prev.index + 1 .. LastIndex(b) /\ i - 1 \in b.prev.index .. LastIndex(b)
      BY <1>3, <1>4, <1>5, <1>9, <1>12, <2>2
    <3>2. Edge(b, i) \in Edges(b)
      BY <3>1 DEF Edges
    <3>3. Edge(b, i) = Edge(g, i)
      BY <1>8, <3>1 DEF Edge
    <3> QED
      BY <3>2, <3>3 DEF b
  <2> QED
    BY <2>1, <2>2
<1>15. EntryAt(g, k).term = t
  <2>1. TermAt(b, k) = EntryAt(b, k).term
    BY <1>3, <1>9, TermAtEntry
  <2> QED
    BY <1>8, <1>9, <2>1
<1>16. k \in 0 .. LastIndex(g)
  BY <1>7, <1>9, <1>12
<1>17. Recorded(C, g, k)'
  BY <1>7, <1>13, <1>14, <1>16 DEF Recorded
<1> QED
  BY <1>15, <1>17 DEF k, t

\* A call whose actions are executed.
LEMMA CallRecords ==
  ASSUME NEW V, NEW G, NEW A, NEW x, NEW nd, NEW H, Acting(V, G, A, x, nd, H),
         NEW C, C = FixedConfigs(V), StateMachineSafety',
         \A e \in Edges(nd.log.entries) : TermsStep(e),
         NEW armed, NEW rest, rest \subseteq net, ExecuteUpTo(nd, 4, armed, rest),
         NEW h, NEW n, Recorded(C, h, n), Reported(n)
  PROVE  Advances(C)
<1> DEFINE nd2 == Executed(nd, 4)
           b == nd.log.entries
           k == nd.commit_index
<1>1. /\ x \in NodeId /\ Sound(nd, C) /\ nd.id = x /\ Typed(C)
      /\ b \in Entries(C) /\ b.prev.index \in Nat /\ LastIndex(b) \in Nat
      /\ k \in Nat /\ node[x].commit_index \in Nat
      /\ DOMAIN node = NodeId
  BY ActingTyped, TypedFacts, EntriesFacts DEF Sound
<1>2. SameState(nd, nd2) /\ nd2.actions = NoActions
  <2>1. 4 \in 1 .. 4
    OBVIOUS
  <2>2. SameState(nd, nd2)
    BY <1>1, <2>1, ExecutedSound
  <2>3. IsRecord(nd)
    BY <1>1 DEF Sound, IsNode
  <2>4. nd2.actions = NoActions
    BY <2>3 DEF Executed, IsRecord
  <2> QED
    BY <2>2, <2>4
<1>3. /\ node' = [node EXCEPT ![x] = nd2]
      /\ Observe(nd2)
      /\ \A p \in net' : p \in net \/ p \in Outbound(nd)
  BY <1>1 DEF ExecuteUpTo
<1>4. /\ elected \subseteq elected'
      /\ nd.role = "Leader" => <<nd.current_term, x>> \in elected'
      /\ committed' = committed \cup CommittedEntries(nd)
  <2>1. StorageIdle(nd2.actions)
    BY <1>2 DEF StorageIdle, NoActions
  <2>2. CommittedEntries(nd2) = CommittedEntries(nd)
    BY <1>2 DEF CommittedEntries, SameState
  <2> HIDE DEF nd2
  <2> QED
    BY <1>1, <1>2, <1>3, <2>1, <2>2 DEF Observe, SameState
<1>5. /\ node'[x].commit_index = k
      /\ \A y \in NodeId : y # x => node'[y] = node[y]
  <2> HIDE DEF nd2
  <2> QED
    BY <1>1, <1>2, <1>3 DEF SameState
<1>6. n \in Nat /\ node[x].commit_index <= n
  BY <1>1, EntriesFacts DEF Recorded, Reported
<1>7. b.prev.index <= k
  <2>1. PICK G2, A2, T2 : Acted(V, G, A, x, nd, H, G2, A2, T2)
    BY CallActed
  <2>2. ContainsIndex(b, k)
    BY <2>1, CommitActed DEF CommitSafe
  <2> HIDE DEF b, k
  <2> QED
    BY <1>1, <2>2 DEF ContainsIndex
<1> HIDE DEF nd2
<1>8. ASSUME NEW m \in Nat, n <= m, k <= m PROVE Reported(m)'
  <2>1. \A id \in NodeId : node'[id].commit_index <= m
    <3> TAKE id \in NodeId
    <3>1. CASE id = x
      BY <1>5, <1>8, <3>1
    <3>2. CASE id # x
      <4>1. node[id].commit_index <= n /\ node[id].commit_index \in Nat
        BY <1>1, TypedFacts DEF Reported, Sound
      <4> QED
        BY <1>5, <1>6, <1>8, <3>2, <4>1
    <3> QED
      BY <3>1, <3>2
  <2>2. ASSUME NEW p \in net'
        PROVE  /\ p.msg.type = "AppendEntriesCall" => p.msg.commit_index <= m
               /\ p.msg.type = "InstallSnapshot" => p.msg.position.index <= m
    <3>1. CASE p \in net
      <4>1. PacketOK(p, C)
        BY <1>1, <3>1 DEF Typed
      <4>2. /\ p.msg.type = "AppendEntriesCall" => p.msg.commit_index \in Nat
            /\ p.msg.type = "InstallSnapshot" => p.msg.position.index \in Nat
        BY <4>1 DEF PacketOK, MessageOK, IsSnapshot, Position
      <4>3. /\ p.msg.type = "AppendEntriesCall" => p.msg.commit_index <= n
            /\ p.msg.type = "InstallSnapshot" => p.msg.position.index <= n
        BY <3>1 DEF Reported
      <4> QED
        BY <1>6, <1>8, <4>2, <4>3
    <3>2. CASE p \in Outbound(nd)
      <4>1. /\ p.msg.type = "AppendEntriesCall" => p.msg.commit_index <= k
            /\ p.msg.type = "InstallSnapshot" => p.msg.position = b.prev
        BY <3>2, OutboundReports
      <4>2. p.msg.type = "AppendEntriesCall" => p.msg.commit_index <= m
        <5>1. SUFFICES ASSUME p.msg.type = "AppendEntriesCall" PROVE p.msg.commit_index <= m
          OBVIOUS
        <5>2. PacketOK(p, C)
          BY <1>1, <3>2, OutboundTyped
        <5>3. p.msg.commit_index \in Nat
          BY <5>1, <5>2 DEF PacketOK, MessageOK
        <5> QED
          BY <1>1, <1>8, <4>1, <5>1, <5>3
      <4>3. p.msg.type = "InstallSnapshot" => p.msg.position.index <= m
        BY <1>1, <1>7, <1>8, <4>1
      <4> QED
        BY <4>2, <4>3
    <3> QED
      BY <1>3, <3>1, <3>2
  <2> QED
    BY <2>1, <2>2 DEF Reported
<1>9. CASE k <= n
  <2>1. committed' = committed
    BY <1>1, <1>4, <1>9, RecordSame
  <2>2. Reported(n)'
    BY <1>6, <1>8, <1>9
  <2> QED
    BY <1>4, <2>1, <2>2, RecordStays
<1>10. CASE n < k
  <2>1. Committing(V, node[x], nd, H)
    BY DEF Acting, Deed
  <2>2. ASSUME NEW m \in H, Hears(node[x], nd, m) PROVE FALSE
    <3>1. PICK p \in net : p.to = x /\ p.msg = m
      BY <2>2 DEF Acting, Come
    <3>2. m.type = "AppendEntriesCall" /\ k = Min({m.commit_index, LastIndex(b)})
      BY <2>2 DEF Hears, OfLeader
    <3>3. PacketOK(p, C)
      BY <1>1, <3>1 DEF Typed
    <3>4. m.commit_index \in Nat /\ m.commit_index <= n
      BY <3>1, <3>2, <3>3 DEF PacketOK, MessageOK, Reported
    <3>5. k <= m.commit_index
      BY <1>1, <3>2, <3>4, LesserOf
    <3> QED
      BY <1>1, <1>6, <1>10, <3>4, <3>5
  <2>3. nd.role = "Leader" /\ Commits(V, nd)
    BY <1>1, <1>6, <1>10, <2>1, <2>2 DEF Committing
  <2>4. PICK g : Recorded(C, g, k)' /\ EntryAt(g, k).term = nd.current_term
    BY <1>1, <1>4, <1>6, <1>10, <2>3, RecordGrows
  <2>5. Reported(k)'
    BY <1>1, <1>6, <1>8, <1>10
  <2>6. \E l \in elected' : l[1] = EntryAt(g, k).term
    <3>1. <<nd.current_term, x>> \in elected' /\ <<nd.current_term, x>>[1] = nd.current_term
      BY <1>4, <2>3
    <3> QED
      BY <2>4, <3>1
  <2>7. k > 0
    BY <1>1, <1>6, <1>10
  <2> HIDE DEF k, b
  <2> QED
    BY <1>4, <2>4, <2>5, <2>6, <2>7 DEF Advances
<1> QED
  BY <1>1, <1>6, <1>9, <1>10

-----------------------------------------------------------------------------
(* Steps that commit nothing. *)

\* What is reported stays within the record if the node's commit index does.
LEMMA ReportStays ==
  ASSUME NEW n, Reported(n), NEW x \in NodeId, OthersRest(x), net' \subseteq net,
         node'[x].commit_index <= n
  PROVE  Reported(n)'
<1>1. \A y \in NodeId : y = x \/ node'[y] = node[y]
  BY DEF OthersRest
<1> QED
  BY <1>1 DEF Reported

\* A restarted node takes for committed what the snapshot it loads stands for.
LEMMA RestartRecords ==
  ASSUME NEW V, NEW C, C = FixedConfigs(V), Typed(C), NEW G, NEW A, SafeInv(V, G, A),
         NEW x \in NodeId, NEW d, d.log = stored[x].log, RestartFrom(x, d), net' \subseteq net,
         NEW h, NEW n, Recorded(C, h, n), Reported(n)
  PROVE  Advances(C)
<1> DEFINE es == node[x].log.entries
<1>1. PICK nd : nd = Restarted(x, d)
  OBVIOUS
<1>2. /\ node' = [node EXCEPT ![x] = nd]
      /\ stored' = [stored EXCEPT ![x] = d]
      /\ elected' = elected
      /\ committed' = committed
  BY <1>1 DEF RestartFrom, Restarted
<1>3. node'[x] = nd /\ OthersRest(x)
  BY <1>2, TypedFacts DEF OthersRest
<1>4. nd.commit_index = stored[x].log.entries.prev.index
  BY <1>1 DEF Restarted, Restart, SetElectionTimeout, NewNode
<1>5. /\ stored[x].log.entries.prev = es.prev
      /\ ContainsIndex(es, node[x].commit_index)
  BY DEF SafeInv, SafeNow, NodeSafe, LogsSafe, CommitSafe
<1>6. /\ es \in Entries(C)
      /\ es.prev.index \in Nat
      /\ LastIndex(es) \in Nat
      /\ node[x].commit_index \in Nat
      /\ n \in Nat
  BY TypedFacts, SoundLog, LogFacts, EntriesFacts DEF Sound, Recorded
<1>7. node[x].commit_index <= n
  BY DEF Reported
<1>8. node'[x].commit_index <= n
  <2> HIDE DEF es
  <2>1. es.prev.index <= node[x].commit_index
    BY <1>5, <1>6 DEF ContainsIndex
  <2> QED
    BY <1>3, <1>4, <1>5, <1>6, <1>7, <2>1
<1>9. Reported(n)'
  BY <1>3, <1>8, ReportStays
<1> QED
  BY <1>2, <1>9, RecordStays

\* A snapshot stands for entries that are committed.
LEMMA SnapshotRecords ==
  ASSUME NEW V, NEW C, C = FixedConfigs(V), Typed(C), NEW x \in NodeId, SnapshotStep(x),
         StateMachineSafety', NEW h, NEW n, Recorded(C, h, n), Reported(n)
  PROVE  Advances(C)
<1>1. PICK p, config : /\ Snapped(x, p, config)
                       /\ IsValidSnapshot(node[x], p, config)
                       /\ InstallStoredSnapshot(node[x], p, config)
                       /\ net' \subseteq net
  BY DEF SnapshotStep
<1> DEFINE a == node[x]
           nd == InstallSnapshot(a, p, config)
<1>2. IsSnapshot(p, config, C) /\ p \in Position /\ p.index \in Nat
  BY <1>1, SnappedTyped DEF IsSnapshot, Position
<1>3. a.id = x /\ a.commit_index \in Nat /\ n \in Nat /\ Sound(a, C)
  BY TypedFacts, EntriesFacts DEF Sound, Recorded
<1>4. /\ nd.log = InstallInLog(a.log, p, config)
      /\ nd.commit_index = IF a.commit_index < p.index THEN p.index ELSE a.commit_index
  BY <1>3 DEF InstallSnapshot, Sound, IsNode, IsRecord
<1>5. /\ node' = [node EXCEPT ![x] = nd]
      /\ stored' = [stored EXCEPT ![x].log = InstallInLog(@, p, config)]
      /\ Observe(nd)
  BY <1>1, <1>3 DEF InstallStoredSnapshot
<1> HIDE DEF nd
<1>6. node'[x] = nd /\ OthersRest(x)
  BY <1>5, TypedFacts DEF OthersRest
<1>7. p.index <= n /\ a.commit_index <= n
  <2>1. a.commit_index <= n
    BY DEF Reported
  <2>2. CASE p = Pos(TermAt(a.log.entries, a.commit_index), a.commit_index)
    BY <2>1, <2>2 DEF Pos
  <2>3. CASE \E q \in net : q.msg.type = "InstallSnapshot" /\ q.msg.position = p
    BY <2>3 DEF Reported
  <2> QED
    BY <1>1, <2>1, <2>2, <2>3 DEF Snapped
<1>8. nd.commit_index \in Nat /\ nd.commit_index <= n
  BY <1>2, <1>3, <1>4, <1>7
<1>9. /\ elected \subseteq elected'
      /\ committed \subseteq committed'
      /\ committed' \subseteq committed \cup CommittedEntries(nd)
  BY <1>5 DEF Observe
<1>10. nd.log.entries.prev.index \in Nat
  BY <1>2, <1>4 DEF InstallInLog, Since, NewEntries
<1>11. committed' = committed
  BY <1>8, <1>9, <1>10, RecordSame
<1>12. Reported(n)'
  BY <1>1, <1>6, <1>8, ReportStays
<1> QED
  BY <1>9, <1>11, <1>12, RecordStays

-----------------------------------------------------------------------------
(* Every step. *)

\* A call of a node.
LEMMA CallStepRecords ==
  ASSUME Batching = "none", NEW V, VotersFixed(V), V # {}, NEW C, C = FixedConfigs(V), Typed(C),
         FixedInv(V), MatchInv, NEW G, NEW A, SafeInv(V, G, A), NEW x \in NodeId, CallStep(x),
         ElectionSafety', StateMachineSafety',
         NEW h, NEW n, Recorded(C, h, n), Reported(n)
  PROVE  Advances(C)
<1>1. PICK nd, armed, rest : Calls(x, nd) /\ rest \subseteq net /\ Return(nd, armed, rest)
  BY DEF CallStep
<1>2. Covering(C) /\ IsFiniteSet(V) /\ DOMAIN stored = NodeId /\ DOMAIN node = NodeId
  BY FixedCover, TypedFacts DEF VotersFixed
<1>3. Turns(x, nd, C) /\ nd.id = x /\ Sound(nd, C)
  BY <1>1, <1>2, CallsTurns, TypedFacts, TurnsEvolves DEF Evolves
<1>4. PICK H : Come(x, H) /\ Deed(V, node[x], nd, H, C)
  BY <1>1, CallsDeed
<1>5. CASE ExecuteUpTo(nd, 4, armed, rest)
  <2>1. Observe(Executed(nd, 4)) /\ SameState(nd, Executed(nd, 4))
    BY <1>3, <1>5, ExecutedSound DEF ExecuteUpTo, Executed, SameState, Sound, IsNode, IsRecord
  <2>2. /\ elected \subseteq elected'
        /\ nd.role = "Leader" => <<nd.current_term, x>> \in elected'
    BY <1>3, <2>1 DEF Observe, SameState
  <2>3. Fits(node[x], nd)
    BY <2>2, CallFits
  <2>4. Yields(node[x], nd, KnownTo(nd.current_term))
    BY <1>1, <1>2, <2>3, CallsYields
  <2>5. Alone(nd)
    BY <1>3, <2>2 DEF ElectionSafety, Alone
  <2>6. nd.role = "Leader" => Ripe(nd)
    BY <2>4 DEF Yields
  <2>7. Acting(V, G, A, x, nd, H)
    BY <1>3, <1>4, <2>5, <2>6 DEF Acting
  <2>8. \A e \in Edges(nd.log.entries) : TermsStep(e)
    BY <2>4 DEF Yields, KnownTo, IsNew, MatchInv, EdgesLed
  <2> QED
    BY <1>1, <1>5, <2>7, <2>8, CallRecords
<1>6. CASE \E k \in 0 .. 2 : RestartFrom(nd.id, Persist(stored[nd.id], nd, k)) /\ net' = rest
  <2>1. PICK k \in 0 .. 2 : RestartFrom(nd.id, Persist(stored[nd.id], nd, k)) /\ net' = rest
    BY <1>6
  <2> DEFINE d == Persist(stored[x], nd, k)
  <2>2. RestartFrom(x, d)
    BY <1>3, <2>1
  <2>3. d.log = stored[x].log
    <3>1. ~(k >= 3)
      OBVIOUS
    <3> QED
      BY <3>1 DEF Persist
  <2>4. net' \subseteq net
    BY <1>1, <2>1
  <2> HIDE DEF d
  <2> QED
    BY <2>2, <2>3, <2>4, RestartRecords
<1> QED
  BY <1>1, <1>5, <1>6 DEF Return

\* Every step keeps the record or lets a leader advance it.
LEMMA NextRecords ==
  ASSUME Batching = "none", NEW V, VotersFixed(V), V # {}, NEW C, C = FixedConfigs(V), Typed(C),
         FixedInv(V), MatchInv, NEW G, NEW A, SafeInv(V, G, A), ElectionSafety',
         StateMachineSafety', OneRecord(C), [Next]_vars
  PROVE  Advances(C)
<1>1. PICK h, n : Recorded(C, h, n) /\ Reported(n)
  BY DEF OneRecord
<1>2. ASSUME NEW x \in NodeId, CallStep(x) PROVE Advances(C)
  BY <1>1, <1>2, CallStepRecords
<1>3. ASSUME NEW x \in NodeId, SnapshotStep(x) PROVE Advances(C)
  BY <1>1, <1>3, SnapshotRecords
<1>4. ASSUME NEW x \in NodeId, Execute(x) PROVE FALSE
  BY <1>4 DEF Execute, MatchInv, Idle
<1>5. ASSUME NEW x \in NodeId, Crash(x) PROVE Advances(C)
  <2>1. RestartFrom(x, stored[x]) /\ net' \subseteq net
    BY <1>5 DEF Crash
  <2> DEFINE d == stored[x]
  <2>2. d.log = stored[x].log /\ RestartFrom(x, d)
    BY <2>1
  <2> HIDE DEF d
  <2> QED
    BY <1>1, <2>1, <2>2, RestartRecords
<1>6. ASSUME Rests PROVE Advances(C)
  <2>1. Reported(n)'
    BY <1>1, <1>6 DEF Rests, Reported
  <2>2. committed' = committed /\ elected' = elected
    BY <1>6 DEF Rests
  <2> QED
    BY <1>1, <2>1, <2>2, RecordStays
<1>7. UNCHANGED vars => Rests
  BY DEF vars, Rests
<1>8. Next => Advances(C)
  BY <1>2, <1>3, <1>4, <1>5, <1>6, NextCases
<1> QED
  BY <1>6, <1>7, <1>8

-----------------------------------------------------------------------------
(* The step of the replicated log. *)

\* There are n pairs of an index up to n and an entry.
LEMMA PairsCounted ==
  ASSUME NEW n \in Nat, NEW h
  PROVE  Cardinality({<<i, EntryAt(h, i)>> : i \in 1 .. n}) = n
<1> DEFINE S == {<<i, EntryAt(h, i)>> : i \in 1 .. n}
           f == [i \in 1 .. n |-> <<i, EntryAt(h, i)>>]
<1>1. f \in [1 .. n -> S]
  OBVIOUS
<1>2. \A i, j \in 1 .. n : f[i] = f[j] => i = j
  OBVIOUS
<1>3. \A s \in S : \E i \in 1 .. n : f[i] = s
  OBVIOUS
<1> HIDE DEF f, S
<1>4. f \in Bijection(1 .. n, S)
  BY <1>1, <1>2, <1>3 DEF Bijection, Injection, Surjection, IsInjective
<1>5. ExistsBijection(1 .. n, S)
  BY <1>4 DEF ExistsBijection
<1> QED
  BY <1>5, FS_CountingElements DEF S

\* Such a record is a decided log of ReplicatedLog.
LEMMA RecordIsLog ==
  ASSUME NEW V, NEW C, C = FixedConfigs(V), NEW h, NEW n, Recorded(C, h, n)'
  PROVE  /\ Log!Length' = n
         /\ Log!IsLog'
         /\ \A i \in 1 .. n : Log!EntryAtIndex(i)' = EntryAt(h, i)
         /\ Log!TermsRise'
         /\ Log!ConfigsFollow'
<1>1. /\ h \in Entries(C)
      /\ h.prev = ZERO
      /\ h.prev.index = 0
      /\ n \in Nat
      /\ n <= LastIndex(h)
      /\ LastIndex(h) \in Nat
      /\ committed' = {<<i, EntryAt(h, i)>> : i \in 1 .. n}
      /\ \A i \in 1 .. n : TermsStep(Edge(h, i))
  BY EntriesFacts DEF Recorded, ZERO, Pos
<1>2. Log!Length' = n
  <2>1. Log!Length' = Cardinality(committed')
    BY Zenon DEF Log!Length, Log!Cardinality, Cardinality
  <2>2. Cardinality({<<i, EntryAt(h, i)>> : i \in 1 .. n}) = n
    BY <1>1, PairsCounted
  <2> QED
    BY <1>1, <2>1, <2>2
<1>a. \A i \in 1 .. n : <<i, EntryAt(h, i)>> \in committed'
  BY <1>1
<1>b. \A c \in committed' : c[1] \in 1 .. n /\ c = <<c[1], EntryAt(h, c[1])>>
  <2> TAKE c \in committed'
  <2>1. PICK i \in 1 .. n : c = <<i, EntryAt(h, i)>>
    BY <1>1
  <2>2. c[1] = i
    BY <2>1
  <2> QED
    BY <2>1, <2>2
<1>3. Log!IsLog'
  <2>1. ASSUME NEW i \in 1 .. n
        PROVE  i \in {c[1] : c \in committed'}
    <3>1. <<i, EntryAt(h, i)>>[1] = i
      OBVIOUS
    <3> QED
      BY <1>a, <3>1
  <2>2. {c[1] : c \in committed'} = 1 .. n
    BY <1>b, <2>1
  <2> QED
    BY <1>2, <2>2 DEF Log!IsLog
<1>4. \A i \in 1 .. n : Log!EntryAtIndex(i)' = EntryAt(h, i)
  <2> TAKE i \in 1 .. n
  <2> DEFINE d == CHOOSE c \in committed' : c[1] = i
  <2>1. \E c \in committed' : c[1] = i
    <3>1. <<i, EntryAt(h, i)>>[1] = i
      OBVIOUS
    <3> QED
      BY <1>a, <3>1
  <2>2. d \in committed' /\ d[1] = i
    BY <2>1
  <2> HIDE DEF d
  <2>3. d = <<i, EntryAt(h, i)>>
    BY <1>b, <2>2
  <2>4. d[2] = EntryAt(h, i)
    BY <2>3
  <2> QED
    BY <2>4 DEF d, Log!EntryAtIndex
<1>5. \A i \in 1 .. n : EntryAt(h, i) \in Entry(C) /\ TermAt(h, i) = EntryAt(h, i).term
  <2> TAKE i \in 1 .. n
  <2>1. i \in h.prev.index + 1 .. LastIndex(h)
    BY <1>1
  <2> QED
    BY <1>1, <2>1, EntriesFacts, TermAtEntry
<1>6. \A i \in 1 .. n :
        LET before == IF i = 1 THEN 0 ELSE EntryAt(h, i - 1).term
            e == EntryAt(h, i)
        IN  IF e.kind = "Term" THEN e.term > before ELSE e.term = before
  <2> TAKE i \in 1 .. n
  <2>1. TermAt(h, i - 1) = IF i = 1 THEN 0 ELSE EntryAt(h, i - 1).term
    <3>1. CASE i = 1
      <4>1. TermAt(h, 0) = 0
        BY <1>1, FullFacts
      <4> QED
        BY <3>1, <4>1
    <3>2. CASE i # 1
      <4>1. i - 1 \in 1 .. n
        BY <1>1, <3>2
      <4> QED
        BY <1>5, <3>2, <4>1
    <3> QED
      BY <3>1, <3>2
  <2>2. TermsStep(Edge(h, i))
    BY <1>1
  <2> QED
    BY <2>1, <2>2 DEF TermsStep, Edge
<1>7. Log!TermsRise'
  <2>1. \A i \in 1 .. n : Log!EntryAtIndex(i)' = EntryAt(h, i)
    BY <1>4
  <2>2. \A i \in 1 .. n : i # 1 => i - 1 \in 1 .. n
    BY <1>1
  <2> SUFFICES ASSUME NEW i \in 1 .. n
               PROVE  LET before == IF i = 1 THEN 0 ELSE Log!EntryAtIndex(i - 1)'.term
                          e == Log!EntryAtIndex(i)'
                      IN  IF e.kind = "Term" THEN e.term > before ELSE e.term = before
    BY <1>2 DEF Log!TermsRise
  <2>3. Log!EntryAtIndex(i)' = EntryAt(h, i)
    BY <2>1
  <2>4. i # 1 => Log!EntryAtIndex(i - 1)' = EntryAt(h, i - 1)
    BY <2>1, <2>2
  <2> QED
    BY <1>6, <2>3, <2>4
<1>8. Log!ConfigsFollow'
  <2>1. \A i \in 1 .. n : EntryAt(h, i).kind = "ClusterConfig"
                            => EntryAt(h, i).config.voters = V /\ EntryAt(h, i).config.new_voters = {}
    BY <1>1, <1>5 DEF Entry, FixedConfigs
  <2>2. Log!ConfigIndices' = {i \in 1 .. n : EntryAt(h, i).kind = "ClusterConfig"}
    BY <1>2, <1>4 DEF Log!ConfigIndices
  <2>3. ASSUME NEW i \in Log!ConfigIndices', NEW j \in Log!ConfigIndices'
        PROVE  Log!MayFollow(Log!EntryAtIndex(i)'.config, Log!EntryAtIndex(j)'.config)
    <3>1. /\ i \in 1 .. n /\ EntryAt(h, i).kind = "ClusterConfig"
          /\ j \in 1 .. n /\ EntryAt(h, j).kind = "ClusterConfig"
      BY <2>2, <2>3
    <3>2. /\ Log!EntryAtIndex(i)' = EntryAt(h, i)
          /\ Log!EntryAtIndex(j)' = EntryAt(h, j)
      BY <1>4, <3>1
    <3>3. /\ EntryAt(h, i).config.voters = V /\ EntryAt(h, i).config.new_voters = {}
          /\ EntryAt(h, j).config.voters = V
      BY <2>1, <3>1
    <3> QED
      BY <3>2, <3>3 DEF Log!MayFollow
  <2> QED
    BY <2>3 DEF Log!ConfigsFollow
<1> QED
  BY <1>2, <1>3, <1>4, <1>7, <1>8

\* Advancing the record is a step of ReplicatedLog.
LEMMA AdvanceIsStep ==
  ASSUME NEW V, NEW C, C = FixedConfigs(V), ElectionSafety', Advances(C)
  PROVE  Log!Next
<1>1. PICK h, n :
       /\ Recorded(C, h, n)'
       /\ Reported(n)'
       /\ \/ committed' = committed
          \/ /\ committed \subseteq committed'
             /\ n > 0
             /\ \E l \in elected' : l[1] = EntryAt(h, n).term
  BY DEF Advances
<1>2. /\ Log!Length' = n
      /\ Log!IsLog'
      /\ \A i \in 1 .. n : Log!EntryAtIndex(i)' = EntryAt(h, i)
      /\ Log!TermsRise'
      /\ Log!ConfigsFollow'
  BY <1>1, RecordIsLog
<1>3. Log!Elect
  BY DEF Advances, ElectionSafety, Log!Elect, Log!OneLeader
<1>4. Log!Decide
  <2>1. CASE committed' = committed
    BY <2>1 DEF Log!Decide
  <2>2. CASE /\ committed \subseteq committed'
             /\ n > 0
             /\ \E l \in elected' : l[1] = EntryAt(h, n).term
    <3>1. n \in Nat
      BY <1>1, EntriesFacts DEF Recorded
    <3>2. n \in 1 .. n
      BY <2>2, <3>1
    <3>3. Log!EntryAtIndex(Log!Length)' = EntryAt(h, n)
      <4>1. Log!EntryAtIndex(n)' = EntryAt(h, n)
        BY <1>2, <3>2
      <4> QED
        BY <1>2, <4>1 DEF Log!EntryAtIndex
    <3>4. \E l \in elected' : l[1] = Log!EntryAtIndex(Log!Length)'.term
      BY <2>2, <3>3
    <3> QED
      BY <1>2, <2>2, <3>4 DEF Log!Decide
  <2> QED
    BY <1>1, <2>1, <2>2
<1>5. Log!Learn
  <2>1. \A id \in NodeId : node'[id].commit_index <= n
    BY <1>1 DEF Reported
  <2> QED
    BY <1>2, <2>1 DEF Log!Learn
<1> QED
  BY <1>3, <1>4, <1>5 DEF Log!Next

-----------------------------------------------------------------------------
(* The refinement. *)

RecordInvariant(V) == Invariant(V) /\ StateMachineSafety /\ OneRecord(FixedConfigs(V))

\* The record starts empty.
LEMMA RecordInit ==
  ASSUME NEW V, VotersFixed(V), V # {}, OneFounding, PlainBoot, Init
  PROVE  RecordInvariant(V) /\ Log!Init
<1> DEFINE C == FixedConfigs(V)
           h == NewEntries(ZERO)
<1>1. Invariant(V)
  BY InvariantInit
<1>2. StateMachineSafety
  BY DEF Init, StateMachineSafety
<1>3. \A id \in NodeId : node[id].commit_index = 0
  <2>1. Typed(C)
    BY <1>1 DEF Invariant
  <2>2. \A id \in NodeId : Boot[id].log \in Logs(C)
    BY DEF VotersFixed
  <2> TAKE id \in NodeId
  <2> QED
    BY <2>1, <2>2, InitFacts
<1>4. Recorded(C, h, 0)
  <2>1. /\ h \in Entries(C)
        /\ h.prev = ZERO
    BY EmptyKeeps DEF ZERO, Pos, Position
  <2>2. LastIndex(h) \in Nat
    BY <2>1, EntriesFacts
  <2>3. committed = {} /\ 1 .. 0 = {}
    BY DEF Init
  <2> HIDE DEF h
  <2> QED
    BY <2>1, <2>2, <2>3 DEF Recorded
<1>5. Reported(0)
  <2>1. \A id \in NodeId : node[id].commit_index <= 0
    BY <1>3
  <2>2. net = {}
    BY DEF Init
  <2> QED
    BY <2>1, <2>2 DEF Reported
<1>6. Log!Init
  <2>1. Log!OneLeader
    BY PastAssumption DEF Init, Log!OneLeader
  <2> QED
    BY <1>3, <2>1 DEF Init, Log!Init
<1> QED
  BY <1>1, <1>2, <1>4, <1>5, <1>6 DEF RecordInvariant, OneRecord

\* Every step preserves the invariant and is one of ReplicatedLog.
LEMMA RecordStep ==
  ASSUME Batching = "none", NEW CONSTANT V, VotersFixed(V), V # {}, RecordInvariant(V), [Next]_vars,
         Invariant(V)', StateMachineSafety'
  PROVE  RecordInvariant(V)' /\ Log!Next
<1> DEFINE C == FixedConfigs(V)
<1>1. Typed(C) /\ FixedInv(V) /\ MatchInv /\ OneRecord(C)
  BY DEF RecordInvariant, Invariant
<1>2. PICK G, A : SafeInv(V, G, A)
  BY DEF RecordInvariant, Invariant
<1>3. ElectionSafety'
  BY DEF Invariant, FixedInv
<1>4. Advances(C)
  BY <1>1, <1>2, <1>3, NextRecords
<1>5. Log!Next
  BY <1>3, <1>4, AdvanceIsStep
<1>6. OneRecord(C)'
  <2>1. PICK h, n : Recorded(C, h, n)' /\ Reported(n)'
    BY <1>4 DEF Advances
  <2> QED
    BY <2>1 DEF OneRecord
<1> QED
  BY <1>5, <1>6 DEF RecordInvariant

\* The nodes, their storage and the links implement one replicated log. A node comes to
\* lead in a term of its own (handle_request_vote_reply). What a leader finds acknowledged
\* by a majority (update_commit_index_if_possible) adds to the log, up to an entry of its
\* own term, and takes nothing away. A follower learns how far the log is decided from a
\* call (handle_append_entries_call) or a snapshot, and a restarted node from what it loads,
\* none of them further than it is. The hypotheses are those of FixedVotersAgree.
THEOREM FixedVotersImplement ==
  ASSUME NEW CONSTANT V, V # {}, VotersFixed(V), Batching = "none", OneFounding, PlainBoot
  PROVE  Spec => ImplementsReplicatedLog
<1>1. Init => RecordInvariant(V) /\ Log!Init
  BY RecordInit
<1>2. Invariant(V) => StateMachineSafety
  BY InvariantSafe
<1>3. RecordInvariant(V) /\ [Next]_vars /\ Invariant(V)' /\ StateMachineSafety'
        => RecordInvariant(V)' /\ [Log!Next]_Log!vars
  BY RecordStep
<1> QED
  BY <1>1, <1>2, <1>3, InvariantHolds, PTL DEF Spec, ImplementsReplicatedLog, Log!Spec

-----------------------------------------------------------------------------
(* What boundaries stand for. *)

\* The entries S have one at position p, and config is the last configuration up to it.
Establishes(S, p, config) ==
  LET configs == {c \in S : c[1] <= p.index /\ c[2].kind = "ClusterConfig"}
  IN  p # ZERO =>
        /\ \E c \in S : c[1] = p.index /\ c[2].term = p.term
        /\ \A c \in configs : (\A d \in configs : d[1] <= c[1]) => c[2].config = config

\* What a node has committed is recorded; its boundary, the one its storage holds and the
\* snapshots in flight stand for recorded entries.
BoundaryInv ==
  /\ \A id \in NodeId :
       /\ Establishes(committed, node[id].log.entries.prev, node[id].log.snapshot_config)
       /\ stored[id].log.snapshot_config = node[id].log.snapshot_config
       /\ CommittedEntries(node[id]) \subseteq committed
  /\ \A p \in net : p.msg.type = "InstallSnapshot"
                      => Establishes(committed, p.msg.position, p.msg.config)

\* Entries that are recorded later follow those a boundary stands for.
LEMMA EstablishedStays ==
  ASSUME NEW C, NEW h, NEW n, Recorded(C, h, n), NEW g, NEW k, Recorded(C, g, k)',
         committed \subseteq committed', StateMachineSafety',
         NEW p, NEW config, Establishes(committed, p, config)
  PROVE  Establishes(committed', p, config)
<1> SUFFICES ASSUME p # ZERO PROVE Establishes(committed', p, config)
  BY DEF Establishes
<1> DEFINE Upto(S) == {c \in S : c[1] <= p.index /\ c[2].kind = "ClusterConfig"}
<1>1. n \in Nat /\ k \in Nat
  BY EntriesFacts DEF Recorded
<1>2. PICK c \in committed : c[1] = p.index /\ c[2].term = p.term
  BY DEF Establishes
<1>3. p.index \in 1 .. n
  <2>1. PICK i \in 1 .. n : c = <<i, EntryAt(h, i)>>
    BY <1>2 DEF Recorded
  <2>2. c[1] = i
    BY <2>1
  <2> QED
    BY <1>2, <2>2
<1>4. ASSUME NEW d \in committed', d[1] <= p.index PROVE d \in committed
  <2>1. PICK i \in 1 .. k : d = <<i, EntryAt(g, i)>>
    BY <1>4 DEF Recorded
  <2>2. d[1] = i /\ d[2] = EntryAt(g, i)
    BY <2>1
  <2>3. i \in 1 .. n
    BY <1>1, <1>3, <1>4, <2>2
  <2> DEFINE e == <<i, EntryAt(h, i)>>
  <2>4. e \in committed /\ e[1] = i /\ e[2] = EntryAt(h, i)
    BY <2>3 DEF Recorded
  <2> HIDE DEF e
  <2>5. e \in committed'
    BY <2>4
  <2>6. d[2] = e[2]
    BY <1>4, <2>2, <2>4, <2>5 DEF StateMachineSafety
  <2>7. d = e
    BY <2>1, <2>2, <2>4, <2>6 DEF e
  <2> QED
    BY <2>4, <2>7
<1>5. Upto(committed') = Upto(committed)
  BY <1>4
<1>6. \A d \in Upto(committed) : (\A e \in Upto(committed) : e[1] <= d[1]) => d[2].config = config
  BY DEF Establishes
<1> HIDE DEF Upto
<1>7. /\ \E d \in committed' : d[1] = p.index /\ d[2].term = p.term
      /\ \A d \in Upto(committed') : (\A e \in Upto(committed') : e[1] <= d[1])
                                       => d[2].config = config
  BY <1>2, <1>5, <1>6
<1> QED
  BY <1>7 DEF Establishes, Upto

\* So a step keeps what the boundaries before it stand for.
LEMMA RecordEstablishes ==
  ASSUME NEW C, OneRecord(C), Advances(C), StateMachineSafety',
         NEW p, NEW config, Establishes(committed, p, config)
  PROVE  Establishes(committed', p, config)
<1>1. PICK h, n : Recorded(C, h, n)
  BY DEF OneRecord
<1>2. PICK g, k : Recorded(C, g, k)' /\ committed \subseteq committed'
  BY DEF Advances
<1> QED
  BY <1>1, <1>2, EstablishedStays

\* A node's snapshot of what it has committed stands for it.
LEMMA TakenEstablishes ==
  ASSUME NEW C, Typed(C), OneRecord(C), StateMachineSafety, BoundaryInv, NEW x \in NodeId,
         NEW i, i = node[x].commit_index, i > node[x].log.entries.prev.index,
         ContainsIndex(node[x].log.entries, i)
  PROVE  Establishes(committed, Pos(TermAt(node[x].log.entries, i), i), GetConfig(node[x].log, i))
<1> DEFINE log == node[x].log
           es == log.entries
           p == Pos(TermAt(es, i), i)
           config == GetConfig(log, i)
           Upto(j) == {c \in committed : c[1] <= j /\ c[2].kind = "ClusterConfig"}
           at == {j \in es.prev.index + 1 .. i : EntryAt(es, j).kind = "ClusterConfig"}
           last == CHOOSE j \in at : \A k \in at : k <= j
<1>1. /\ es \in Entries(C) /\ es.prev \in Position
      /\ es.prev.index \in Nat /\ LastIndex(es) \in Nat /\ i \in Nat
  BY TypedFacts, SoundLog, LogFacts, EntriesFacts DEF Sound
<1>2. PICK h, n : Recorded(C, h, n)
  BY DEF OneRecord
<1>3. n \in Nat
  BY <1>2, EntriesFacts DEF Recorded
<1>4. /\ Establishes(committed, es.prev, log.snapshot_config)
      /\ CommittedEntries(node[x]) \subseteq committed
  BY DEF BoundaryInv
<1>5. /\ p.index = i /\ p.term = TermAt(es, i)
      /\ config = IF at = {} THEN log.snapshot_config ELSE EntryAt(es, last).config
  BY DEF Pos, GetConfig
<1> HIDE DEF p, config, log
<1>6. \A j \in es.prev.index + 1 .. i : <<j, EntryAt(es, j)>> \in committed
  <2> TAKE j \in es.prev.index + 1 .. i
  <2>1. ContainsIndex(es, j)
    BY <1>1 DEF ContainsIndex, log
  <2>2. <<j, EntryAt(es, j)>> \in CommittedEntries(node[x])
    BY <2>1 DEF CommittedEntries, log
  <2> QED
    BY <1>4, <2>2
<1>7. i \in es.prev.index + 1 .. i /\ i \in es.prev.index + 1 .. LastIndex(es)
  BY <1>1 DEF ContainsIndex, log
<1>8. \E c \in committed : c[1] = p.index /\ c[2].term = p.term
  <2>1. EntryAt(es, i).term = TermAt(es, i)
    BY <1>1, <1>7, TermAtEntry
  <2>2. <<i, EntryAt(es, i)>> \in committed
    BY <1>6, <1>7
  <2>3. <<i, EntryAt(es, i)>>[1] = i /\ <<i, EntryAt(es, i)>>[2] = EntryAt(es, i)
    OBVIOUS
  <2> QED
    BY <1>5, <2>1, <2>2, <2>3
<1>9. \A c \in committed : c[1] \in Nat /\ c[1] > 0
  <2> TAKE c \in committed
  <2>1. PICK j \in 1 .. n : c = <<j, EntryAt(h, j)>>
    BY <1>2 DEF Recorded
  <2> QED
    BY <2>1
<1>10. ASSUME NEW c \in Upto(i), \A d \in Upto(i) : d[1] <= c[1]
       PROVE  c[2].config = config
  <2>1. CASE c[1] > es.prev.index
    <3> DEFINE j == c[1]
               e == <<j, EntryAt(es, j)>>
    <3>1. j \in es.prev.index + 1 .. i
      BY <1>1, <1>9, <2>1
    <3>2. e \in committed /\ e[1] = c[1] /\ e[2] = EntryAt(es, j)
      BY <1>6, <3>1
    <3> HIDE DEF e
    <3>3. c[2] = EntryAt(es, j)
      BY <3>2 DEF StateMachineSafety
    <3>4. j \in at
      BY <3>1, <3>3
    <3>5. \A k \in at : k <= j
      <4> TAKE k \in at
      <4> DEFINE d == <<k, EntryAt(es, k)>>
      <4>1. d \in committed /\ d[1] = k /\ d[2] = EntryAt(es, k)
        BY <1>6
      <4> HIDE DEF d
      <4>2. k <= i
        BY <1>1
      <4>3. d \in Upto(i)
        BY <4>1, <4>2
      <4> QED
        BY <1>10, <4>1, <4>3
    <3>6. last = j
      <4> HIDE DEF j
      <4>1. \A k \in at : k \in Int
        BY <1>1
      <4>2. last \in at /\ \A k \in at : k <= last
        BY <3>4, <3>5
      <4> HIDE DEF at, last
      <4> QED
        BY <3>4, <3>5, <4>1, <4>2
    <3>7. at # {}
      BY <3>4
    <3> HIDE DEF at, last
    <3> QED
      BY <1>5, <3>3, <3>6, <3>7
  <2>2. CASE ~(c[1] > es.prev.index)
    <3>1. at = {}
      <4> SUFFICES ASSUME NEW k \in at PROVE FALSE
        OBVIOUS
      <4> DEFINE d == <<k, EntryAt(es, k)>>
      <4>1. d \in committed /\ d[1] = k /\ d[2] = EntryAt(es, k)
        BY <1>6
      <4> HIDE DEF d
      <4>2. k <= i /\ k > es.prev.index /\ k \in Int
        BY <1>1
      <4>3. d \in Upto(i)
        BY <4>1, <4>2
      <4>4. k <= c[1]
        BY <1>10, <4>1, <4>3
      <4> QED
        BY <1>1, <1>9, <2>2, <4>2, <4>4
    <3>2. c[1] <= es.prev.index
      BY <1>1, <1>9, <2>2
    <3>3. es.prev # ZERO
      <4>1. es.prev.index # 0
        BY <1>1, <1>9, <3>2
      <4> QED
        BY <4>1 DEF ZERO, Pos
    <3>4. c \in Upto(es.prev.index)
      BY <3>2
    <3>5. \A d \in Upto(es.prev.index) : d[1] <= c[1]
      <4> TAKE d \in Upto(es.prev.index)
      <4>1. d[1] <= i
        BY <1>1, <1>7, <1>9
      <4> QED
        BY <1>10, <4>1
    <3>6. c[2].config = log.snapshot_config
      BY <1>4, <3>3, <3>4, <3>5 DEF Establishes
    <3> HIDE DEF at
    <3> QED
      BY <1>5, <3>1, <3>6
  <2> QED
    BY <2>1, <2>2
<1> HIDE DEF at
<1>11. Upto(i) = {c \in committed : c[1] <= p.index /\ c[2].kind = "ClusterConfig"}
  BY <1>5
<1>12. Establishes(committed, p, config)
  BY <1>8, <1>10, <1>11 DEF Establishes
<1> QED
  BY <1>12 DEF p, config, log

-----------------------------------------------------------------------------
(* Every step keeps them. *)

\* It is enough that the node x which takes a step does, and what is sent.
LEMMA BoundariesStay ==
  ASSUME NEW C, OneRecord(C), Advances(C), StateMachineSafety', BoundaryInv,
         NEW x \in NodeId, OthersRest(x),
         Establishes(committed', node'[x].log.entries.prev, node'[x].log.snapshot_config),
         stored'[x].log.snapshot_config = node'[x].log.snapshot_config,
         CommittedEntries(node'[x]) \subseteq committed',
         \A p \in net' : p \in net \/ (p.msg.type = "InstallSnapshot"
                                        => Establishes(committed', p.msg.position, p.msg.config))
  PROVE  BoundaryInv'
<1>1. committed \subseteq committed'
  BY DEF Advances
<1>2. ASSUME NEW y \in NodeId
      PROVE  /\ Establishes(committed', node'[y].log.entries.prev, node'[y].log.snapshot_config)
             /\ stored'[y].log.snapshot_config = node'[y].log.snapshot_config
             /\ CommittedEntries(node'[y]) \subseteq committed'
  <2>1. CASE y = x
    BY <2>1
  <2>2. CASE y # x
    <3>1. node'[y] = node[y] /\ stored'[y] = stored[y]
      BY <2>2 DEF OthersRest
    <3>2. /\ Establishes(committed, node[y].log.entries.prev, node[y].log.snapshot_config)
          /\ stored[y].log.snapshot_config = node[y].log.snapshot_config
          /\ CommittedEntries(node[y]) \subseteq committed
      BY DEF BoundaryInv
    <3>3. Establishes(committed', node[y].log.entries.prev, node[y].log.snapshot_config)
      BY <3>2, RecordEstablishes
    <3> QED
      BY <1>1, <3>1, <3>2, <3>3
  <2> QED
    BY <2>1, <2>2
<1>3. ASSUME NEW p \in net', p.msg.type = "InstallSnapshot"
      PROVE  Establishes(committed', p.msg.position, p.msg.config)
  <2>1. CASE p \in net
    <3>1. Establishes(committed, p.msg.position, p.msg.config)
      BY <1>3, <2>1 DEF BoundaryInv
    <3> QED
      BY <3>1, RecordEstablishes
  <2> QED
    BY <1>3, <2>1
<1> QED
  BY <1>2, <1>3 DEF BoundaryInv

\* A call that is executed: the boundary stays, and a snapshot that is sent is at it.
LEMMA CallBoundaries ==
  ASSUME NEW C, Typed(C), OneRecord(C), Advances(C), StateMachineSafety', BoundaryInv,
         NEW x \in NodeId, NEW nd, Calls(x, nd), Turns(x, nd, C), nd.id = x,
         NEW armed, NEW rest, rest \subseteq net, ExecuteUpTo(nd, 4, armed, rest)
  PROVE  BoundaryInv'
<1> DEFINE nd2 == Executed(nd, 4)
           d == Persist(stored[x], nd, 4)
<1>1. Sound(nd, C) /\ IsRecord(nd)
  BY TurnsEvolves DEF Sound, IsNode
<1>2. nd2 = [nd EXCEPT !.actions = NoActions]
  BY DEF Executed
<1>3. /\ nd2.log = nd.log
      /\ nd2.commit_index = nd.commit_index
      /\ StorageIdle(nd2.actions)
  <2>1. nd2.log = nd.log /\ nd2.commit_index = nd.commit_index /\ nd2.actions = NoActions
    BY <1>1, <1>2 DEF IsRecord
  <2> QED
    BY <2>1 DEF StorageIdle, NoActions
<1>4. /\ node' = [node EXCEPT ![x] = nd2]
      /\ stored' = [stored EXCEPT ![x] = d]
      /\ Observe(nd2)
      /\ \A p \in net' : p \in net \/ p \in Outbound(nd)
  BY DEF ExecuteUpTo
<1>5. d.log.snapshot_config = stored[x].log.snapshot_config
  <2>1. stored[x].log = [snapshot_config |-> stored[x].log.snapshot_config,
                         entries |-> stored[x].log.entries]
    BY TypedFacts, LogFacts
  <2>2. d.log = stored[x].log
        \/ \E es : d.log = [stored[x].log EXCEPT !.entries = es]
    BY DEF Persist
  <2> HIDE DEF d
  <2> QED
    BY <2>1, <2>2
<1> HIDE DEF nd2, d
<1>6. node'[x] = nd2 /\ stored'[x] = d /\ OthersRest(x)
  BY <1>4, TypedFacts DEF OthersRest
<1>7. /\ nd.log.entries.prev = node[x].log.entries.prev
      /\ nd.log.snapshot_config = node[x].log.snapshot_config
  BY CallsBase
<1>8. /\ Establishes(committed, nd.log.entries.prev, nd.log.snapshot_config)
      /\ stored[x].log.snapshot_config = nd.log.snapshot_config
  BY <1>7 DEF BoundaryInv
<1>9. Establishes(committed', nd.log.entries.prev, nd.log.snapshot_config)
  BY <1>8, RecordEstablishes
<1>10. CommittedEntries(nd2) \subseteq committed'
  BY <1>3, <1>4 DEF Observe
<1>11. ASSUME NEW p \in Outbound(nd), p.msg.type = "InstallSnapshot"
       PROVE  Establishes(committed', p.msg.position, p.msg.config)
  <2>1. p.msg.position = nd.log.entries.prev /\ p.msg.config = nd.log.snapshot_config
    BY <1>1, <1>11, OutboundSnapshots
  <2> QED
    BY <1>9, <2>1
<1>12. /\ Establishes(committed', node'[x].log.entries.prev, node'[x].log.snapshot_config)
       /\ stored'[x].log.snapshot_config = node'[x].log.snapshot_config
       /\ CommittedEntries(node'[x]) \subseteq committed'
  BY <1>3, <1>5, <1>6, <1>8, <1>9, <1>10
<1>13. \A p \in net' : p \in net \/ (p.msg.type = "InstallSnapshot"
                                      => Establishes(committed', p.msg.position, p.msg.config))
  BY <1>4, <1>11
<1> QED
  BY <1>6, <1>12, <1>13, BoundariesStay

\* A restart: storage has the boundary that the node had.
LEMMA RestartBoundaries ==
  ASSUME NEW C, Typed(C), OneRecord(C), Advances(C), StateMachineSafety', BoundaryInv,
         NEW x \in NodeId, NEW d, d.log = stored[x].log,
         stored[x].log.entries.prev = node[x].log.entries.prev,
         RestartFrom(x, d), net' \subseteq net
  PROVE  BoundaryInv'
<1>1. PICK nd : nd = Restarted(x, d)
  OBVIOUS
<1>2. /\ node' = [node EXCEPT ![x] = nd]
      /\ stored' = [stored EXCEPT ![x] = d]
  BY <1>1 DEF RestartFrom, Restarted
<1>3. node'[x] = nd /\ stored'[x] = d /\ OthersRest(x)
  BY <1>2, TypedFacts DEF OthersRest
<1>4. nd.log = stored[x].log /\ nd.commit_index = stored[x].log.entries.prev.index
  BY <1>1 DEF Restarted, Restart, SetElectionTimeout, NewNode
<1>5. /\ Establishes(committed, node[x].log.entries.prev, node[x].log.snapshot_config)
      /\ stored[x].log.snapshot_config = node[x].log.snapshot_config
  BY DEF BoundaryInv
<1>6. Establishes(committed', nd.log.entries.prev, nd.log.snapshot_config)
  BY <1>4, <1>5, RecordEstablishes
<1>7. CommittedEntries(nd) \subseteq committed'
  <2>1. nd.log.entries.prev.index \in Nat
    BY <1>4, TypedFacts, LogFacts, EntriesFacts
  <2>2. nd.log.entries.prev.index + 1 .. nd.commit_index = {}
    BY <1>4, <2>1
  <2> QED
    BY <2>2 DEF CommittedEntries
<1>8. /\ Establishes(committed', node'[x].log.entries.prev, node'[x].log.snapshot_config)
      /\ stored'[x].log.snapshot_config = node'[x].log.snapshot_config
      /\ CommittedEntries(node'[x]) \subseteq committed'
  BY <1>3, <1>4, <1>6, <1>7
<1> QED
  BY <1>3, <1>8, BoundariesStay

\* A snapshot: the new boundary is one that a node has committed, or that was sent.
LEMMA SnapshotBoundaries ==
  ASSUME NEW V, NEW C, C = FixedConfigs(V), Typed(C), NEW G, NEW A, SafeInv(V, G, A),
         OneRecord(C), Advances(C), StateMachineSafety, StateMachineSafety', BoundaryInv, MatchInv',
         NEW x \in NodeId, SnapshotStep(x)
  PROVE  BoundaryInv'
<1>1. PICK p, config : /\ Snapped(x, p, config)
                       /\ IsValidSnapshot(node[x], p, config)
                       /\ InstallStoredSnapshot(node[x], p, config)
                       /\ net' \subseteq net
  BY DEF SnapshotStep
<1> DEFINE a == node[x]
           nd == InstallSnapshot(a, p, config)
<1>2. a.id = x /\ Sound(a, C)
  BY TypedFacts
<1>3. nd.log = InstallInLog(a.log, p, config)
  BY <1>2 DEF InstallSnapshot, Sound, IsNode, IsRecord
<1>4. /\ node' = [node EXCEPT ![x] = nd]
      /\ stored' = [stored EXCEPT ![x].log = InstallInLog(@, p, config)]
      /\ Observe(nd)
  BY <1>1, <1>2 DEF InstallStoredSnapshot
<1> HIDE DEF nd
<1>5. node'[x] = nd /\ OthersRest(x) /\ stored'[x].log = InstallInLog(stored[x].log, p, config)
  <2>1. IsDisk(stored[x]) /\ DOMAIN stored = NodeId /\ DOMAIN node = NodeId
    BY TypedFacts DEF Backs
  <2> QED
    BY <1>4, <2>1 DEF OthersRest, IsDisk
<1>6. /\ nd.log.entries.prev = p
      /\ nd.log.snapshot_config = config
      /\ stored'[x].log.snapshot_config = config
  BY <1>3, <1>5 DEF InstallInLog, Since, NewEntries
<1>7. Establishes(committed, p, config)
  <2> DEFINE i == a.commit_index
  <2>1. CASE /\ i > a.log.entries.prev.index
             /\ p = Pos(TermAt(a.log.entries, i), i)
             /\ config = GetConfig(a.log, i)
    <3>1. ContainsIndex(a.log.entries, i)
      BY DEF SafeInv, SafeNow, NodeSafe, CommitSafe
    <3> QED
      BY <2>1, <3>1, TakenEstablishes
  <2>2. CASE \E q \in net : /\ q.to = x /\ q.msg.type = "InstallSnapshot"
                            /\ q.msg.position = p /\ q.msg.config = config
    BY <2>2 DEF BoundaryInv
  <2> QED
    BY <1>1, <2>1, <2>2 DEF Snapped
<1>8. Establishes(committed', p, config)
  BY <1>7, RecordEstablishes
<1>9. CommittedEntries(nd) \subseteq committed'
  <2>1. nd.actions = NoActions
    BY <1>5 DEF MatchInv, Idle
  <2>2. StorageIdle(nd.actions)
    BY <2>1 DEF StorageIdle, NoActions
  <2> QED
    BY <1>4, <2>2 DEF Observe
<1>10. /\ Establishes(committed', node'[x].log.entries.prev, node'[x].log.snapshot_config)
       /\ stored'[x].log.snapshot_config = node'[x].log.snapshot_config
       /\ CommittedEntries(node'[x]) \subseteq committed'
  BY <1>5, <1>6, <1>8, <1>9
<1>11. \A q \in net' : q \in net
  BY <1>1
<1> QED
  BY <1>5, <1>10, <1>11, BoundariesStay

\* Every step.
LEMMA NextBoundaries ==
  ASSUME NEW V, VotersFixed(V), NEW C, C = FixedConfigs(V), Typed(C), MatchInv,
         NEW G, NEW A, SafeInv(V, G, A), OneRecord(C), Advances(C), StateMachineSafety,
         StateMachineSafety', MatchInv', Batching = "none", BoundaryInv, [Next]_vars
  PROVE  BoundaryInv'
<1>1. \A id \in NodeId : stored[id].log.entries.prev = node[id].log.entries.prev
  BY DEF SafeInv, SafeNow, NodeSafe, LogsSafe
<1>2. ASSUME NEW x \in NodeId, CallStep(x) PROVE BoundaryInv'
  <2>1. PICK nd, armed, rest : Calls(x, nd) /\ rest \subseteq net /\ Return(nd, armed, rest)
    BY <1>2 DEF CallStep
  <2>2. Covering(C)
    BY FixedCover DEF VotersFixed
  <2>3. Turns(x, nd, C) /\ nd.id = x
    BY <2>1, <2>2, CallsTurns, TypedFacts, TurnsEvolves DEF Evolves
  <2>4. CASE ExecuteUpTo(nd, 4, armed, rest)
    BY <2>1, <2>3, <2>4, CallBoundaries
  <2>5. CASE \E k \in 0 .. 2 : RestartFrom(nd.id, Persist(stored[nd.id], nd, k)) /\ net' = rest
    <3>1. PICK k \in 0 .. 2 : RestartFrom(nd.id, Persist(stored[nd.id], nd, k)) /\ net' = rest
      BY <2>5
    <3> DEFINE d == Persist(stored[x], nd, k)
    <3>2. RestartFrom(x, d) /\ net' \subseteq net
      BY <2>1, <2>3, <3>1
    <3>3. d.log = stored[x].log
      <4>1. ~(k >= 3)
        OBVIOUS
      <4> QED
        BY <4>1 DEF Persist
    <3> HIDE DEF d
    <3> QED
      BY <1>1, <3>2, <3>3, RestartBoundaries
  <2> QED
    BY <2>1, <2>4, <2>5 DEF Return
<1>3. ASSUME NEW x \in NodeId, SnapshotStep(x) PROVE BoundaryInv'
  BY <1>3, SnapshotBoundaries
<1>4. ASSUME NEW x \in NodeId, Execute(x) PROVE FALSE
  BY <1>4 DEF Execute, MatchInv, Idle
<1>5. ASSUME NEW x \in NodeId, Crash(x) PROVE BoundaryInv'
  <2>1. RestartFrom(x, stored[x]) /\ net' \subseteq net
    BY <1>5 DEF Crash
  <2> DEFINE d == stored[x]
  <2>2. d.log = stored[x].log /\ RestartFrom(x, d)
    BY <2>1
  <2> HIDE DEF d
  <2> QED
    BY <1>1, <2>1, <2>2, RestartBoundaries
<1>6. ASSUME Rests PROVE BoundaryInv'
  BY <1>6 DEF Rests, BoundaryInv
<1>7. UNCHANGED vars => Rests
  BY DEF vars, Rests
<1>8. Next => BoundaryInv'
  BY <1>2, <1>3, <1>4, <1>5, <1>6, NextCases
<1> QED
  BY <1>6, <1>7, <1>8

\* At the start no log has a boundary and nothing is committed.
LEMMA BoundaryInit ==
  ASSUME NEW C, \A id \in NodeId : Boot[id].log \in Logs(C), PlainBoot, Init
  PROVE  BoundaryInv
<1>1. ASSUME NEW id \in NodeId
      PROVE  /\ node[id].log = Boot[id].log
             /\ node[id].commit_index = 0
             /\ stored[id] = Boot[id]
             /\ node[id].log.entries.prev = ZERO
             /\ node[id].log.entries.prev.index = 0
  <2>1. node[id] = Restarted(id, Boot[id]) /\ stored[id] = Boot[id]
    BY DEF Init, Restarted
  <2>2. Boot[id].log.entries.prev = ZERO
    BY DEF PlainBoot
  <2>3. /\ node[id].log = Boot[id].log
        /\ node[id].commit_index = Boot[id].log.entries.prev.index
    BY <2>1 DEF Restarted, Restart, SetElectionTimeout, NewNode
  <2> QED
    BY <2>1, <2>2, <2>3 DEF ZERO, Pos
<1>2. ASSUME NEW id \in NodeId
      PROVE  /\ Establishes(committed, node[id].log.entries.prev, node[id].log.snapshot_config)
             /\ stored[id].log.snapshot_config = node[id].log.snapshot_config
             /\ CommittedEntries(node[id]) \subseteq committed
  <2>1. Establishes(committed, node[id].log.entries.prev, node[id].log.snapshot_config)
    BY <1>1 DEF Establishes
  <2>2. 0 + 1 .. 0 = {}
    OBVIOUS
  <2>3. CommittedEntries(node[id]) = {}
    BY <1>1, <2>2 DEF CommittedEntries
  <2> QED
    BY <1>1, <2>1, <2>3
<1>3. net = {}
  BY DEF Init
<1> QED
  BY <1>2, <1>3 DEF BoundaryInv

BoundaryInvariant(V) == RecordInvariant(V) /\ BoundaryInv

LEMMA BoundaryStep ==
  ASSUME Batching = "none", NEW CONSTANT V, VotersFixed(V), V # {}, BoundaryInvariant(V),
         [Next]_vars, Invariant(V)', StateMachineSafety'
  PROVE  BoundaryInvariant(V)'
<1> DEFINE C == FixedConfigs(V)
<1>1. RecordInvariant(V) /\ Invariant(V) /\ BoundaryInv
  BY DEF BoundaryInvariant, RecordInvariant
<1>2. Typed(C) /\ FixedInv(V) /\ MatchInv /\ OneRecord(C) /\ StateMachineSafety
  BY <1>1 DEF RecordInvariant, Invariant
<1>3. PICK G, A : SafeInv(V, G, A)
  BY <1>1 DEF Invariant
<1>4. ElectionSafety' /\ MatchInv'
  BY DEF Invariant, FixedInv
<1>5. Advances(C)
  BY <1>1, <1>2, <1>3, <1>4, NextRecords
<1>6. BoundaryInv'
  BY <1>1, <1>2, <1>3, <1>4, <1>5, NextBoundaries
<1>7. RecordInvariant(V)'
  BY <1>1, RecordStep
<1> QED
  BY <1>6, <1>7 DEF BoundaryInvariant

\* The boundary of a log stands for entries that were committed, and for the configuration
\* that the last of them established: the snapshot a leader sends (handle_append_entries_reply),
\* the one a follower installs and the one a user takes (handle_snapshot_installed) lose
\* and invent nothing, and storage has the boundary the node has. The hypotheses are those of
\* FixedVotersAgree.
THEOREM FixedVotersSnapshot ==
  ASSUME NEW CONSTANT V, V # {}, VotersFixed(V), Batching = "none", OneFounding, PlainBoot
  PROVE  Spec => []SnapshotBoundaryCommitted
<1>1. Init => BoundaryInvariant(V)
  <2> SUFFICES ASSUME Init PROVE BoundaryInvariant(V)
    OBVIOUS
  <2>1. \A id \in NodeId : Boot[id].log \in Logs(FixedConfigs(V))
    BY DEF VotersFixed
  <2>2. BoundaryInv
    BY <2>1, BoundaryInit
  <2> QED
    BY <2>2, RecordInit DEF BoundaryInvariant
<1>2. Invariant(V) => StateMachineSafety
  BY InvariantSafe
<1>3. BoundaryInvariant(V) /\ [Next]_vars /\ Invariant(V)' /\ StateMachineSafety'
        => BoundaryInvariant(V)'
  BY BoundaryStep
<1>4. BoundaryInvariant(V) => SnapshotBoundaryCommitted
  <2> SUFFICES ASSUME BoundaryInvariant(V) PROVE SnapshotBoundaryCommitted
    OBVIOUS
  <2>1. PICK G, A : SafeInv(V, G, A)
    BY DEF BoundaryInvariant, RecordInvariant, Invariant
  <2>2. \A id \in NodeId : stored[id].log.entries.prev = node[id].log.entries.prev
    BY <2>1 DEF SafeInv, SafeNow, NodeSafe, LogsSafe
  <2>3. \A id \in NodeId :
          /\ Establishes(committed, node[id].log.entries.prev, node[id].log.snapshot_config)
          /\ Establishes(committed, stored[id].log.entries.prev, stored[id].log.snapshot_config)
    BY <2>2 DEF BoundaryInvariant, BoundaryInv
  <2>4. \A log \in {node[id].log : id \in NodeId} \cup {stored[id].log : id \in NodeId} :
          Establishes(committed, log.entries.prev, log.snapshot_config)
    BY <2>3
  <2> QED
    BY <2>4 DEF SnapshotBoundaryCommitted, Establishes
<1> QED
  BY <1>1, <1>2, <1>3, <1>4, InvariantHolds, PTL DEF Spec
=============================================================================
