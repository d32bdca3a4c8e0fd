-------------------------- MODULE CompactLogProofs --------------------------
(***************************************************************************)
(* Every method of LogEntries and Log keeps the compact representation     *)
(* well formed (RepresentationOK), whatever the configurations, terms and  *)
(* indices: the keys of the two maps stay within the log and apart, and    *)
(* the term kept in last_position stays the one that get_term finds.       *)
(*                                                                         *)
(* A map is looked up with range(..=i).next_back(), so the lemmas on       *)
(* ValueAt come first: the value at the last key up to an index, and when  *)
(* two maps have the same.  Then one lemma per method says which terms its *)
(* result has, and one that the result is a log again.                     *)
(*                                                                         *)
(* With that, the compact log implements the sequences of RaftLog          *)
(* (ImplementsSequences): one lemma per method says that the sequence of   *)
(* what it returns is what the operator of RaftLog returns of the          *)
(* sequences.                                                              *)
(*                                                                         *)
(* Last, the queries: what strip_common_prefix drops is not missed, and    *)
(* iteration, the accessors and from_iter agree with each other and with   *)
(* the sequence (QueriesAgree).  A recursive function of the code is       *)
(* compared with an explicit one, index by index (SameByRecursion).        *)
(***************************************************************************)
EXTENDS CompactLogProperties, SequenceTheorems, WellFoundedInduction, TLAPS

\* LogPosition.
Position == [term : Nat, index : Nat]

\* A LogEntries: typed and well formed.  It is what the methods keep.
Good(es) ==
  /\ es.prev \in Position /\ es.last \in Position
  /\ \A k \in DOMAIN es.terms : es.terms[k] \in Nat
  /\ WellFormed(es)

-----------------------------------------------------------------------------
(* BTreeMap. *)

\* A non-empty set of naturals has a least member.
LEMMA LeastExists ==
  ASSUME NEW K, K \subseteq Nat, K # {}
  PROVE  \E m \in K : \A k \in K : m <= k
<1> DEFINE R0 == OpToRel(<, Nat)
<1>1. IsWellFoundedOn(R0, Nat)  BY NatLessThanWellFounded
<1>2. PICK m \in K : \A k \in K : ~(<<k, m>> \in R0)  BY <1>1, WFMin
<1>3. \A k \in K : m <= k
  <2> TAKE k \in K
  <2>1. k \in Nat /\ m \in Nat  OBVIOUS
  <2>2. k < m => <<k, m>> \in R0  BY <2>1 DEF OpToRel
  <2>3. ~(k < m)  BY <1>2, <2>2
  <2> QED  BY <2>1, <2>3
<1> QED  BY <1>3

\* A non-empty set of naturals below a bound has a greatest member, which MaxKey finds.
LEMMA GreatestExists ==
  ASSUME NEW n \in Nat, NEW K, K \subseteq 0 .. n, K # {}
  PROVE  MaxKey(K) \in K /\ \A k \in K : k <= MaxKey(K)
<1> DEFINE D == {n - k : k \in K}
<1>1. D \subseteq Nat
  <2> SUFFICES ASSUME NEW k \in K PROVE n - k \in Nat  OBVIOUS
  <2>1. k \in 0 .. n  OBVIOUS
  <2> QED  BY <2>1
<1>2. D # {}
  <2>1. PICK k \in K : TRUE  OBVIOUS
  <2>2. n - k \in D  BY <2>1
  <2> QED  BY <2>2
<1>3. PICK d \in D : \A e \in D : d <= e  BY <1>1, <1>2, LeastExists
<1>4. PICK m \in K : d = n - m  OBVIOUS
<1>5. \A k \in K : k <= m
  <2> TAKE k \in K
  <2>1. n - k \in D  OBVIOUS
  <2>2. n - m <= n - k  BY <1>3, <1>4, <2>1
  <2>3. k \in 0 .. n /\ m \in 0 .. n  OBVIOUS
  <2> QED  BY <2>2, <2>3
<1> QED  BY <1>5 DEF MaxKey

\* ValueAt finds the value at the last key.
LEMMA ValueAtKey ==
  ASSUME NEW f, NEW i \in Nat, NEW d, DOMAIN f \subseteq Nat,
         NEW k \in DOMAIN f, k <= i, \A j \in DOMAIN f : j <= i => j <= k
  PROVE  ValueAt(f, i, d) = f[k]
<1>1. k \in UpTo(f, i) /\ UpTo(f, i) # {}  BY DEF UpTo
<1>2. UpTo(f, i) \subseteq 0 .. i  BY DEF UpTo
<1>3. /\ MaxKey(UpTo(f, i)) \in UpTo(f, i)
      /\ \A j \in UpTo(f, i) : j <= MaxKey(UpTo(f, i))
  BY <1>1, <1>2, GreatestExists
<1> DEFINE m == MaxKey(UpTo(f, i))
<1>4. m \in DOMAIN f /\ m <= i  BY <1>3 DEF UpTo
<1>5. m <= k /\ k <= m  BY <1>1, <1>3, <1>4
<1>6. m = k
  <2>1. m \in Nat /\ k \in Nat  BY <1>4
  <2> QED  BY <1>5, <2>1
<1> QED  BY <1>1, <1>6 DEF ValueAt

\* Before the first key there is only the default.
LEMMA ValueAtNone ==
  ASSUME NEW f, NEW i, NEW d, \A j \in DOMAIN f : ~(j <= i)
  PROVE  ValueAt(f, i, d) = d
<1>1. UpTo(f, i) = {}  BY DEF UpTo
<1> QED  BY <1>1 DEF ValueAt

\* Where some key is at most i, there is a last one.
LEMMA LastKeyExists ==
  ASSUME NEW f, NEW i \in Nat, DOMAIN f \subseteq Nat,
         NEW j \in DOMAIN f, j <= i
  PROVE  \E k \in DOMAIN f : k <= i /\ \A l \in DOMAIN f : l <= i => l <= k
<1>1. UpTo(f, i) # {}  BY DEF UpTo
<1>2. UpTo(f, i) \subseteq 0 .. i  BY DEF UpTo
<1>3. /\ MaxKey(UpTo(f, i)) \in UpTo(f, i)
      /\ \A l \in UpTo(f, i) : l <= MaxKey(UpTo(f, i))
  BY <1>1, <1>2, GreatestExists
<1>4. MaxKey(UpTo(f, i)) \in DOMAIN f /\ MaxKey(UpTo(f, i)) <= i  BY <1>3 DEF UpTo
<1>5. \A l \in DOMAIN f : l <= i => l \in UpTo(f, i)  BY DEF UpTo
<1> QED  BY <1>3, <1>4, <1>5

\* Maps that agree up to an index have the same value there.
LEMMA ValueAtSame ==
  ASSUME NEW f, NEW g, NEW i \in Nat, NEW l \in Nat, NEW d,
         DOMAIN f \subseteq Nat, DOMAIN g \subseteq Nat,
         \A j \in Nat : (j \in DOMAIN f /\ j <= i) <=> (j \in DOMAIN g /\ j <= l),
         \A j \in DOMAIN f : j <= i => f[j] = g[j]
  PROVE  ValueAt(f, i, d) = ValueAt(g, l, d)
<1>1. CASE \E j \in DOMAIN f : j <= i
  <2>1. PICK k \in DOMAIN f : k <= i /\ \A j \in DOMAIN f : j <= i => j <= k
    BY <1>1, LastKeyExists
  <2>2. ValueAt(f, i, d) = f[k]  BY <2>1, ValueAtKey
  <2>3. k \in DOMAIN g /\ k <= l /\ \A j \in DOMAIN g : j <= l => j <= k  BY <2>1
  <2>4. ValueAt(g, l, d) = g[k]  BY <2>3, ValueAtKey
  <2> QED  BY <2>1, <2>2, <2>4
<1>2. CASE \A j \in DOMAIN f : ~(j <= i)
  <2>1. \A j \in DOMAIN g : ~(j <= l)  BY <1>2
  <2> QED  BY <1>2, <2>1, ValueAtNone
<1> QED  BY <1>1, <1>2

-----------------------------------------------------------------------------
(* The methods keep the representation. *)

\* What Good says, one fact at a time.
LEMMA GoodFacts ==
  ASSUME NEW es, Good(es)
  PROVE  /\ es.prev.index \in Nat /\ es.prev.term \in Nat
         /\ es.last.index \in Nat /\ es.last.term \in Nat
         /\ es.prev.index <= es.last.index
         /\ DOMAIN es.terms \subseteq Nat /\ DOMAIN es.configs \subseteq Nat
         /\ \A k \in DOMAIN es.terms : es.terms[k] \in Nat
         /\ \A k \in DOMAIN es.terms : es.prev.index < k /\ k <= es.last.index
         /\ \A k \in DOMAIN es.configs : es.prev.index < k /\ k <= es.last.index
         /\ \A k \in DOMAIN es.terms : k \notin DOMAIN es.configs
         /\ es.last.term = GetTerm(es, es.last.index)
BY DEF Good, WellFormed, Position

\* To show Good of a record, one field at a time.
LEMMA GoodIntro ==
  ASSUME NEW p \in Position, NEW l \in Position, NEW t, NEW c,
         p.index <= l.index,
         \A k \in DOMAIN t : k \in Nat /\ t[k] \in Nat /\ p.index < k /\ k <= l.index,
         \A k \in DOMAIN c : k \in Nat /\ p.index < k /\ k <= l.index,
         \A k \in DOMAIN t : k \notin DOMAIN c,
         l.term = ValueAt(t, l.index, p.term)
  PROVE  Good([prev |-> p, last |-> l, terms |-> t, configs |-> c])
<1> DEFINE es == [prev |-> p, last |-> l, terms |-> t, configs |-> c]
<1>1. p.index \in Nat /\ l.index \in Nat  BY DEF Position
<1>2. DOMAIN t \cup DOMAIN c \subseteq p.index + 1 .. l.index  BY <1>1
<1>3. DOMAIN t \cap DOMAIN c = {}  OBVIOUS
<1>4. l.term = GetTerm(es, l.index)  BY DEF GetTerm
<1> QED  BY <1>2, <1>3, <1>4 DEF Good, WellFormed

\* A term that get_term finds is a natural number.
LEMMA GetTermType ==
  ASSUME NEW es, Good(es), NEW i \in Nat
  PROVE  GetTerm(es, i) \in Nat
<1>1. CASE \E j \in DOMAIN es.terms : j <= i
  <2>1. PICK k \in DOMAIN es.terms :
               k <= i /\ \A j \in DOMAIN es.terms : j <= i => j <= k
    BY <1>1, GoodFacts, LastKeyExists
  <2>2. GetTerm(es, i) = es.terms[k]  BY <2>1, GoodFacts, ValueAtKey DEF GetTerm
  <2> QED  BY <2>2, GoodFacts
<1>2. CASE \A j \in DOMAIN es.terms : ~(j <= i)
  <2>1. GetTerm(es, i) = es.prev.term  BY <1>2, ValueAtNone DEF GetTerm
  <2> QED  BY <2>1, GoodFacts
<1> QED  BY <1>1, <1>2

\* At prev_position and before, get_term has no Term entry to go by.
LEMMA GetTermAtPrev ==
  ASSUME NEW es, Good(es)
  PROVE  GetTerm(es, es.prev.index) = es.prev.term
<1>1. \A j \in DOMAIN es.terms : ~(j <= es.prev.index)  BY GoodFacts
<1> QED  BY <1>1, ValueAtNone DEF GetTerm

\* LogEntries::new.
LEMMA GoodNew ==
  ASSUME NEW p \in Position
  PROVE  Good(New(p))
<1>1. DOMAIN EmptyMap = {}  BY DEF EmptyMap
<1>2. p.term = ValueAt(EmptyMap, p.index, p.term)  BY <1>1, ValueAtNone
<1>3. p.index <= p.index  BY DEF Position
<1> QED  BY <1>1, <1>2, <1>3, GoodIntro DEF New

\* The terms up to i are those of es when the entries after i are cut off.
LEMMA GetTermTruncate ==
  ASSUME NEW es, Good(es), NEW n \in Nat, Length(es) > n,
         NEW i \in Nat, i <= es.prev.index + n
  PROVE  GetTerm(Truncate(es, n), i) = GetTerm(es, i)
<1> DEFINE c == es.prev.index + n + 1
           f == SplitOff(es.terms, c)
<1>1. c \in Nat /\ ~(Length(es) <= n)  BY GoodFacts DEF Length
<1>2. Truncate(es, n).terms = f /\ Truncate(es, n).prev = es.prev  BY <1>1 DEF Truncate
<1>3. DOMAIN f = {k \in DOMAIN es.terms : k < c} /\ \A k \in DOMAIN f : f[k] = es.terms[k]
  BY DEF SplitOff
<1>4. DOMAIN es.terms \subseteq Nat /\ DOMAIN f \subseteq Nat  BY <1>3, GoodFacts
<1>5. \A j \in Nat : j <= i => j < c  BY GoodFacts
<1>6. ValueAt(f, i, es.prev.term) = ValueAt(es.terms, i, es.prev.term)
  <2> HIDE DEF f, c
  <2>1. \A j \in Nat : (j \in DOMAIN f /\ j <= i) <=> (j \in DOMAIN es.terms /\ j <= i)
    BY <1>3, <1>5
  <2> QED  BY <1>3, <1>4, <2>1, ValueAtSame
<1> QED  BY <1>2, <1>6 DEF GetTerm

\* truncate drops the keys after the new end and looks up its term.
LEMMA GoodTruncate ==
  ASSUME NEW es, Good(es), NEW n \in Nat
  PROVE  Good(Truncate(es, n))
<1>1. CASE Length(es) <= n  BY <1>1 DEF Truncate
<1>2. CASE ~(Length(es) <= n)
  <2> DEFINE i == es.prev.index + n
             l == R!Pos(GetTerm(es, i), i)
             f == SplitOff(es.terms, i + 1)
             g == SplitOff(es.configs, i + 1)
  <2>1. i \in Nat /\ es.prev.index <= i /\ Length(es) > n /\ i <= es.last.index
    BY <1>2, GoodFacts DEF Length
  <2>2. l \in Position /\ l.index = i /\ l.term = GetTerm(es, i)
    BY <2>1, GetTermType DEF R!Pos, Position
  <2>3. /\ DOMAIN f = {k \in DOMAIN es.terms : k < i + 1}
        /\ \A k \in DOMAIN f : f[k] = es.terms[k]
        /\ DOMAIN g = {k \in DOMAIN es.configs : k < i + 1}
    BY DEF SplitOff
  <2>4. Truncate(es, n) = [prev |-> es.prev, last |-> l, terms |-> f, configs |-> g]
    BY <1>2 DEF Truncate
  <2>5. GetTerm(Truncate(es, n), i) = GetTerm(es, i)  BY <2>1, GetTermTruncate
  <2>6. l.term = ValueAt(f, l.index, es.prev.term)  BY <2>2, <2>4, <2>5 DEF GetTerm
  <2> HIDE DEF i, l, f, g
  <2>7. /\ \A k \in DOMAIN f : k \in Nat /\ f[k] \in Nat /\ es.prev.index < k /\ k <= l.index
        /\ \A k \in DOMAIN g : k \in Nat /\ es.prev.index < k /\ k <= l.index
        /\ \A k \in DOMAIN f : k \notin DOMAIN g
    BY <2>1, <2>2, <2>3, GoodFacts
  <2>8. es.prev \in Position  BY DEF Good
  <2> QED  BY <2>1, <2>2, <2>4, <2>6, <2>7, <2>8, GoodIntro
<1> QED  BY <1>1, <1>2

\* push_back adds a key beyond all others, and only a Term changes the last term.
LEMMA GoodPush ==
  ASSUME NEW es, Good(es), NEW e, e.kind = "Term" => e.term \in Nat
  PROVE  Good(Push(es, e))
<1> DEFINE i == es.last.index + 1
           l == R!Pos(IF e.kind = "Term" THEN e.term ELSE es.last.term, i)
           f == IF e.kind = "Term" THEN Insert(es.terms, i, e.term) ELSE es.terms
           g == IF e.kind = "ClusterConfig" THEN Insert(es.configs, i, e.config) ELSE es.configs
<1>1. Push(es, e) = [prev |-> es.prev, last |-> l, terms |-> f, configs |-> g]
  BY DEF Push
<1>2. i \in Nat /\ i > es.last.index /\ es.prev.index < i /\ es.prev.index <= i  BY GoodFacts
<1>3. l \in Position /\ l.index = i /\ es.prev \in Position
  BY <1>2, GoodFacts DEF R!Pos, Position, Good
<1>4. DOMAIN g \subseteq DOMAIN es.configs \cup {i} /\ (e.kind = "Term" => DOMAIN g = DOMAIN es.configs)
  BY DEF Insert
<1>5. CASE e.kind = "Term"
  <2>1. /\ DOMAIN f = DOMAIN es.terms \cup {i} /\ f[i] = e.term
        /\ \A k \in DOMAIN f : f[k] = IF k = i THEN e.term ELSE es.terms[k]
    BY <1>5 DEF Insert
  <2>2. l.term = e.term  BY <1>5 DEF R!Pos
  <2>3. DOMAIN g = DOMAIN es.configs  BY <1>4, <1>5
  <2> HIDE DEF i, l, f, g
  <2>4. /\ \A k \in DOMAIN f : k \in Nat /\ f[k] \in Nat /\ es.prev.index < k /\ k <= l.index
        /\ \A k \in DOMAIN g : k \in Nat /\ es.prev.index < k /\ k <= l.index
        /\ \A k \in DOMAIN f : k \notin DOMAIN g
    BY <1>2, <1>3, <1>5, <2>1, <2>3, GoodFacts
  <2>5. ValueAt(f, i, es.prev.term) = f[i]
    <3>1. DOMAIN f \subseteq Nat /\ i \in DOMAIN f /\ i <= i  BY <1>2, <2>1, <2>4
    <3> QED  BY <1>2, <3>1, ValueAtKey
  <2> QED  BY <1>1, <1>2, <1>3, <2>1, <2>2, <2>4, <2>5, GoodIntro
<1>6. CASE e.kind # "Term"
  <2>1. f = es.terms /\ l.term = es.last.term  BY <1>6 DEF R!Pos
  <2> HIDE DEF i, l, f, g
  <2>2. /\ \A k \in DOMAIN f : k \in Nat /\ f[k] \in Nat /\ es.prev.index < k /\ k <= l.index
        /\ \A k \in DOMAIN g : k \in Nat /\ es.prev.index < k /\ k <= l.index
    BY <1>2, <1>3, <1>4, <2>1, GoodFacts
  <2>3. \A k \in DOMAIN f : k \notin DOMAIN g  BY <1>2, <1>4, <2>1, GoodFacts
  <2>4. ValueAt(es.terms, es.last.index, es.prev.term) = ValueAt(es.terms, i, es.prev.term)
    <3>1. \A k \in Nat : (k \in DOMAIN es.terms /\ k <= es.last.index)
                           <=> (k \in DOMAIN es.terms /\ k <= i)
      BY <1>2, GoodFacts
    <3>2. DOMAIN es.terms \subseteq Nat /\ es.last.index \in Nat  BY GoodFacts
    <3> QED  BY <1>2, <3>1, <3>2, ValueAtSame
  <2>5. l.term = ValueAt(f, l.index, es.prev.term)  BY <1>3, <2>1, <2>4, GoodFacts DEF GetTerm
  <2> QED  BY <1>1, <1>2, <1>3, <2>2, <2>3, <2>5, GoodIntro
<1> QED  BY <1>5, <1>6

\* since keeps the terms of what it keeps.
LEMMA GetTermSince ==
  ASSUME NEW es, Good(es), NEW p \in Position, Contains(es, p),
         NEW i \in Nat, p.index <= i
  PROVE  GetTerm(Since(es, p), i) = GetTerm(es, i)
<1> DEFINE f == From(es.terms, p.index + 1)
<1>1. /\ DOMAIN f = {k \in DOMAIN es.terms : k >= p.index + 1}
      /\ \A k \in DOMAIN f : f[k] = es.terms[k]
  BY DEF From
<1>2. Since(es, p).terms = f /\ Since(es, p).prev = p  BY DEF Since
<1>3. DOMAIN es.terms \subseteq Nat /\ DOMAIN f \subseteq Nat  BY <1>1, GoodFacts
<1>4. p.index \in Nat /\ GetTerm(es, p.index) = p.term  BY DEF Position, Contains
<1> HIDE DEF f
<1>5. CASE \E j \in DOMAIN f : j <= i
  <2>1. PICK k \in DOMAIN f : k <= i /\ \A j \in DOMAIN f : j <= i => j <= k
    BY <1>3, <1>5, LastKeyExists
  <2>2. ValueAt(f, i, p.term) = f[k]  BY <1>3, <2>1, ValueAtKey
  <2>3. k \in DOMAIN es.terms /\ \A j \in DOMAIN es.terms : j <= i => j <= k
    BY <1>1, <1>3, <1>4, <2>1
  <2>4. ValueAt(es.terms, i, es.prev.term) = es.terms[k]  BY <1>3, <2>1, <2>3, ValueAtKey
  <2> QED  BY <1>1, <1>2, <2>1, <2>2, <2>4 DEF GetTerm
<1>6. CASE \A j \in DOMAIN f : ~(j <= i)
  <2>1. ValueAt(f, i, p.term) = p.term  BY <1>6, ValueAtNone
  <2>2. \A j \in Nat : (j \in DOMAIN es.terms /\ j <= p.index) <=> (j \in DOMAIN es.terms /\ j <= i)
    BY <1>1, <1>3, <1>4, <1>6
  <2>3. ValueAt(es.terms, p.index, es.prev.term) = ValueAt(es.terms, i, es.prev.term)
    BY <1>3, <1>4, <2>2, ValueAtSame
  <2> QED  BY <1>2, <1>4, <2>1, <2>3 DEF GetTerm
<1> QED  BY <1>5, <1>6

\* since drops the keys up to its position.
LEMMA GoodSince ==
  ASSUME NEW es, Good(es), NEW p \in Position, Contains(es, p)
  PROVE  Good(Since(es, p))
<1> DEFINE f == From(es.terms, p.index + 1)
           g == From(es.configs, p.index + 1)
<1>1. /\ DOMAIN f = {k \in DOMAIN es.terms : k >= p.index + 1}
      /\ \A k \in DOMAIN f : f[k] = es.terms[k]
      /\ DOMAIN g = {k \in DOMAIN es.configs : k >= p.index + 1}
  BY DEF From
<1>2. Since(es, p) = [prev |-> p, last |-> es.last, terms |-> f, configs |-> g]
  BY DEF Since
<1>3. p.index \in Nat /\ es.prev.index <= p.index /\ p.index <= es.last.index
  BY GoodFacts DEF Position, Contains, ContainsIndex
<1>4. es.last.term = ValueAt(f, es.last.index, p.term)
  <2>1. GetTerm(Since(es, p), es.last.index) = GetTerm(es, es.last.index)
    BY <1>3, GoodFacts, GetTermSince
  <2> QED  BY <1>2, <2>1, GoodFacts DEF GetTerm
<1> HIDE DEF f, g
<1>5. /\ \A k \in DOMAIN f : k \in Nat /\ f[k] \in Nat /\ p.index < k /\ k <= es.last.index
      /\ \A k \in DOMAIN g : k \in Nat /\ p.index < k /\ k <= es.last.index
      /\ \A k \in DOMAIN f : k \notin DOMAIN g
  BY <1>1, <1>3, GoodFacts
<1>6. es.last \in Position  BY DEF Good
<1> QED  BY <1>2, <1>3, <1>4, <1>5, <1>6, GoodIntro

\* An append keeps the terms up to its anchor and has those of the appended after it.
LEMMA GetTermAppend ==
  ASSUME NEW es, Good(es), NEW more, Good(more), Contains(es, more.prev), NEW i \in Nat
  PROVE  GetTerm(AppendUnchecked(es, more), i)
           = IF i <= more.prev.index THEN GetTerm(es, i) ELSE GetTerm(more, i)
<1> DEFINE a == more.prev.index
           f == Extend(SplitOff(es.terms, a + 1), more.terms)
<1>1. a \in Nat /\ es.prev.index <= a /\ a <= es.last.index
  BY GoodFacts DEF Contains, ContainsIndex
<1>2. /\ DOMAIN f = {k \in DOMAIN es.terms : k < a + 1} \cup DOMAIN more.terms
      /\ \A k \in DOMAIN f : f[k] = IF k \in DOMAIN more.terms THEN more.terms[k] ELSE es.terms[k]
  BY DEF Extend, SplitOff
<1>3. AppendUnchecked(es, more).terms = f /\ AppendUnchecked(es, more).prev = es.prev
  BY DEF AppendUnchecked
<1>4. \A k \in DOMAIN more.terms : k \in Nat /\ a < k  BY GoodFacts
<1>5. DOMAIN es.terms \subseteq Nat /\ DOMAIN f \subseteq Nat /\ DOMAIN more.terms \subseteq Nat
  BY <1>2, <1>4, GoodFacts
<1>6. GetTerm(es, a) = more.prev.term  BY DEF Contains
<1> HIDE DEF f, a
<1>7. CASE i <= a
  <2>1. \A j \in Nat : (j \in DOMAIN es.terms /\ j <= i) <=> (j \in DOMAIN f /\ j <= i)
    BY <1>1, <1>2, <1>4, <1>7
  <2>2. \A j \in DOMAIN es.terms : j <= i => es.terms[j] = f[j]
    BY <1>1, <1>2, <1>4, <1>5, <1>7
  <2>3. ValueAt(es.terms, i, es.prev.term) = ValueAt(f, i, es.prev.term)
    BY <1>5, <2>1, <2>2, ValueAtSame
  <2> QED  BY <1>3, <1>7, <2>3 DEF GetTerm, a
<1>8. CASE ~(i <= a) /\ \E j \in DOMAIN more.terms : j <= i
  <2>1. PICK k \in DOMAIN more.terms : k <= i /\ \A j \in DOMAIN more.terms : j <= i => j <= k
    BY <1>5, <1>8, LastKeyExists
  <2>2. ValueAt(more.terms, i, more.prev.term) = more.terms[k]  BY <1>5, <2>1, ValueAtKey
  <2>3. k \in DOMAIN f /\ \A j \in DOMAIN f : j <= i => j <= k
    BY <1>1, <1>2, <1>4, <1>5, <2>1
  <2>4. ValueAt(f, i, es.prev.term) = f[k]  BY <1>5, <2>1, <2>3, ValueAtKey
  <2> QED  BY <1>2, <1>3, <1>8, <2>2, <2>3, <2>4 DEF GetTerm, a
<1>9. CASE ~(i <= a) /\ \A j \in DOMAIN more.terms : ~(j <= i)
  <2>1. ValueAt(more.terms, i, more.prev.term) = more.prev.term  BY <1>9, ValueAtNone
  <2>2. \A j \in Nat : (j \in DOMAIN es.terms /\ j <= a) <=> (j \in DOMAIN f /\ j <= i)
    BY <1>1, <1>2, <1>4, <1>9
  <2>3. \A j \in DOMAIN es.terms : j <= a => es.terms[j] = f[j]
    BY <1>1, <1>2, <1>4, <1>5
  <2>4. ValueAt(es.terms, a, es.prev.term) = ValueAt(f, i, es.prev.term)
    <3>1. a \in Nat /\ DOMAIN es.terms \subseteq Nat /\ DOMAIN f \subseteq Nat  BY <1>1, <1>5
    <3> DEFINE d == es.prev.term
               h == es.terms
    <3>2. DOMAIN h \subseteq Nat  BY <3>1
    <3>3. \A j \in Nat : (j \in DOMAIN h /\ j <= a) <=> (j \in DOMAIN f /\ j <= i)  BY <2>2
    <3>4. \A j \in DOMAIN h : j <= a => h[j] = f[j]  BY <2>3
    <3> HIDE DEF d, h
    <3>5. ValueAt(h, a, d) = ValueAt(f, i, d)  BY <3>1, <3>2, <3>3, <3>4, ValueAtSame
    <3> QED  BY <3>5 DEF d, h
  <2> QED  BY <1>3, <1>6, <1>9, <2>1, <2>4 DEF GetTerm, a
<1> QED  BY <1>7, <1>8, <1>9

\* append_unchecked at an anchor that the entries contain.
LEMMA GoodAppendUnchecked ==
  ASSUME NEW es, Good(es), NEW more, Good(more), Contains(es, more.prev)
  PROVE  Good(AppendUnchecked(es, more))
<1> DEFINE a == more.prev.index
           f == Extend(SplitOff(es.terms, a + 1), more.terms)
           g == Extend(SplitOff(es.configs, a + 1), more.configs)
<1>1. a \in Nat /\ es.prev.index <= a /\ a <= es.last.index /\ a <= more.last.index
  BY GoodFacts DEF Contains, ContainsIndex
<1>2. /\ DOMAIN f = {k \in DOMAIN es.terms : k < a + 1} \cup DOMAIN more.terms
      /\ \A k \in DOMAIN f : f[k] = IF k \in DOMAIN more.terms THEN more.terms[k] ELSE es.terms[k]
      /\ DOMAIN g = {k \in DOMAIN es.configs : k < a + 1} \cup DOMAIN more.configs
  BY DEF Extend, SplitOff
<1>3. AppendUnchecked(es, more) = [prev |-> es.prev, last |-> more.last, terms |-> f, configs |-> g]
  BY DEF AppendUnchecked
<1>4. es.prev \in Position /\ more.last \in Position  BY DEF Good
<1>5. more.last.term = ValueAt(f, more.last.index, es.prev.term)
  <2>1. GetTerm(AppendUnchecked(es, more), more.last.index)
          = IF more.last.index <= a THEN GetTerm(es, more.last.index) ELSE GetTerm(more, more.last.index)
    BY GoodFacts, GetTermAppend
  <2>2. more.last.term = GetTerm(more, more.last.index)  BY GoodFacts
  <2>3. CASE more.last.index <= a
    <3>1. more.last.index = a  BY <1>1, <2>3, GoodFacts
    <3>2. GetTerm(es, a) = more.prev.term  BY DEF Contains
    <3>3. GetTerm(more, a) = more.prev.term  BY GetTermAtPrev
    <3> QED  BY <1>3, <2>1, <2>2, <2>3, <3>1, <3>2, <3>3 DEF GetTerm
  <2>4. CASE ~(more.last.index <= a)
    BY <1>3, <2>1, <2>2, <2>4 DEF GetTerm
  <2> QED  BY <2>3, <2>4
<1> HIDE DEF f, g, a
<1>6. /\ \A k \in DOMAIN more.terms : k \in Nat /\ more.terms[k] \in Nat /\ a < k /\ k <= more.last.index
      /\ \A k \in DOMAIN more.configs : k \in Nat /\ a < k /\ k <= more.last.index
      /\ \A k \in DOMAIN more.terms : k \notin DOMAIN more.configs
      /\ more.last.index \in Nat
  BY GoodFacts DEF a
<1>7. /\ \A k \in DOMAIN es.terms : k \in Nat /\ es.terms[k] \in Nat /\ es.prev.index < k
      /\ \A k \in DOMAIN es.configs : k \in Nat /\ es.prev.index < k
      /\ \A k \in DOMAIN es.terms : k \notin DOMAIN es.configs
      /\ es.prev.index \in Nat
  BY GoodFacts
<1>8. \A k \in DOMAIN f : k \in Nat /\ f[k] \in Nat /\ es.prev.index < k /\ k <= more.last.index
  BY <1>1, <1>2, <1>6, <1>7
<1>9. \A k \in DOMAIN g : k \in Nat /\ es.prev.index < k /\ k <= more.last.index
  BY <1>1, <1>2, <1>6, <1>7
<1>10. \A k \in DOMAIN f : k \notin DOMAIN g
  BY <1>1, <1>2, <1>6, <1>7
<1>11. es.prev.index <= more.last.index  BY <1>1, <1>6, <1>7
<1> QED  BY <1>3, <1>4, <1>5, <1>8, <1>9, <1>10, <1>11, GoodIntro

\* append_suffix, which tests the anchor.
LEMMA GoodAppendSuffix ==
  ASSUME NEW es, Good(es), NEW suffix, Good(suffix)
  PROVE  Good(AppendSuffix(es, suffix))
BY GoodAppendUnchecked DEF AppendSuffix

\* handle_snapshot_installed on queued entries.
LEMMA GoodRebase ==
  ASSUME NEW es, Good(es), NEW p \in Position
  PROVE  Good(Rebase(es, p))
BY GoodSince, GoodNew DEF Rebase

\* The entries contain the positions at both of their ends.
LEMMA ContainsEnds ==
  ASSUME NEW es, Good(es)
  PROVE  Contains(es, es.prev) /\ Contains(es, es.last)
<1>1. ContainsIndex(es, es.prev.index) /\ ContainsIndex(es, es.last.index)
  BY GoodFacts DEF ContainsIndex
<1> QED  BY <1>1, GoodFacts, GetTermAtPrev DEF Contains

\* A position within the entries that has the term found there is contained.
LEMMA ContainsIntro ==
  ASSUME NEW es, Good(es), NEW t \in Nat, NEW i \in Nat,
         es.prev.index <= i, i <= es.last.index, GetTerm(es, i) = t
  PROVE  R!Pos(t, i) \in Position /\ Contains(es, R!Pos(t, i))
<1>1. R!Pos(t, i) \in Position /\ R!Pos(t, i).index = i /\ R!Pos(t, i).term = t
  BY DEF R!Pos, Position
<1>2. ContainsIndex(es, i)  BY GoodFacts, SMTT(40) DEF ContainsIndex
<1> QED  BY <1>1, <1>2 DEF Contains

\* Where strip_common_prefix cuts, the position is in both logs.
LEMMA StripPosition ==
  ASSUME NEW es, Good(es), NEW local, Good(local), Contains(local, es.prev),
         \E i \in DOMAIN es.terms : ~Contains(local, R!Pos(es.terms[i], i))
  PROVE  LET unknown == {i \in DOMAIN es.terms : ~Contains(local, R!Pos(es.terms[i], i))}
             first == CHOOSE i \in unknown : \A j \in unknown : i <= j
             before == UpTo(es.terms, first - 1)
             common == IF before = {} THEN es.prev
                       ELSE R!Pos(es.terms[MaxKey(before)], MaxKey(before))
             candidate == R!Pos(common.term, first - 1)
             cut == IF Contains(local, candidate) THEN candidate ELSE common
         IN  cut \in Position /\ Contains(es, cut) /\ Contains(local, cut)
<1> DEFINE unknown == {i \in DOMAIN es.terms : ~Contains(local, R!Pos(es.terms[i], i))}
           first == CHOOSE i \in unknown : \A j \in unknown : i <= j
           before == UpTo(es.terms, first - 1)
           common == IF before = {} THEN es.prev
                     ELSE R!Pos(es.terms[MaxKey(before)], MaxKey(before))
           candidate == R!Pos(common.term, first - 1)
           q == IF Contains(local, candidate) THEN candidate ELSE common
<1>1. unknown # {}  OBVIOUS
<1>2. unknown \subseteq Nat  BY GoodFacts
<1>3. first \in unknown /\ \A j \in unknown : first <= j
  <2>1. \E i \in unknown : \A j \in unknown : i <= j
    <3> HIDE DEF unknown
    <3> QED  BY <1>1, <1>2, LeastExists
  <2> QED  BY <2>1
<1>4. first \in Nat /\ es.prev.index < first /\ first <= es.last.index /\ es.prev.index \in Nat
  BY <1>2, <1>3, GoodFacts
<1>5. /\ first - 1 \in Nat /\ es.prev.index <= first - 1 /\ first - 1 <= es.last.index
      /\ first - 1 < first
  BY <1>4, GoodFacts
<1>6. /\ common \in Position /\ Contains(es, common) /\ Contains(local, common)
      /\ common.term = GetTerm(es, first - 1)
  <2>1. CASE before = {}
    <3>1. common = es.prev  BY <2>1
    <3>2. GetTerm(es, first - 1) = es.prev.term  BY <2>1 DEF GetTerm, ValueAt
    <3>3. es.prev \in Position  BY SMTT(40) DEF Good
    <3> QED  BY <3>1, <3>2, <3>3, ContainsEnds
  <2>2. CASE before # {}
    <3> DEFINE m == MaxKey(before)
    <3>1. before \subseteq 0 .. first - 1  BY <1>5, GoodFacts DEF UpTo
    <3>2. m \in before /\ \A k \in before : k <= m
      <4> HIDE DEF before
      <4> QED  BY <1>5, <2>2, <3>1, GreatestExists
    <3>3. common = R!Pos(es.terms[m], m)  BY <2>2
    <3>4. m \in DOMAIN es.terms /\ m <= first - 1 /\ m \in Nat  BY <3>1, <3>2 DEF UpTo
    <3>5. es.terms[m] \in Nat /\ es.prev.index < m /\ m <= es.last.index  BY <3>4, GoodFacts
    <3>7. GetTerm(es, m) = es.terms[m]
      <4>1. DOMAIN es.terms \subseteq Nat /\ m <= m /\ \A j \in DOMAIN es.terms : j <= m => j <= m
        BY <3>4, GoodFacts
      <4> HIDE DEF m
      <4> QED  BY <3>4, <4>1, ValueAtKey DEF GetTerm
    <3>8. GetTerm(es, first - 1) = es.terms[m]  BY <2>2 DEF GetTerm, ValueAt
    <3>9. common \in Position /\ Contains(es, common) /\ common.term = es.terms[m]
      <4>1. es.prev.index <= m  BY <3>4, <3>5, <1>4
      <4>2. R!Pos(es.terms[m], m).term = es.terms[m]  BY DEF R!Pos
      <4> HIDE DEF m, common
      <4> QED  BY <3>3, <3>4, <3>5, <3>7, <4>1, <4>2, ContainsIntro
    <3>10. m \notin unknown
      <4>1. ~(first <= m)  BY <1>4, <1>5, <3>4
      <4> QED  BY <1>3, <4>1
    <3>11. Contains(local, common)  BY <3>3, <3>4, <3>10
    <3> QED  BY <3>8, <3>9, <3>11
  <2> QED  BY <2>1, <2>2
<1>7. candidate \in Position /\ Contains(es, candidate)
  <2>1. common.term \in Nat /\ candidate = R!Pos(common.term, first - 1)
    BY <1>6 DEF Position
  <2> HIDE DEF candidate, common, first
  <2> QED  BY <1>5, <1>6, <2>1, ContainsIntro, SMTT(40)
<1>8. q \in Position /\ Contains(es, q) /\ Contains(local, q)
  <2> HIDE DEF candidate, common
  <2> QED  BY <1>6, <1>7
<1> QED  BY <1>8, ZenonT(40)

\* What strip_common_prefix leaves is a log, and starts where it can be appended.
LEMMA GoodStripCommonPrefix ==
  ASSUME NEW es, Good(es), NEW local, Good(local), Contains(local, es.prev)
  PROVE  /\ Good(StripCommonPrefix(es, local))
         /\ Contains(local, StripCommonPrefix(es, local).prev)
<1> DEFINE r == StripCommonPrefix(es, local)
           unknown == {i \in DOMAIN es.terms : ~Contains(local, R!Pos(es.terms[i], i))}
           first == CHOOSE i \in unknown : \A j \in unknown : i <= j
           before == UpTo(es.terms, first - 1)
           common == IF before = {} THEN es.prev
                     ELSE R!Pos(es.terms[MaxKey(before)], MaxKey(before))
           candidate == R!Pos(common.term, first - 1)
<1>1. CASE es.prev = local.last
  BY <1>1 DEF StripCommonPrefix
<1>2. CASE es.prev # local.last /\ Contains(es, local.last)
  <2>1. r = Since(es, local.last)  BY <1>2 DEF StripCommonPrefix
  <2>2. local.last \in Position  BY DEF Good
  <2>3. Since(es, local.last).prev = local.last  BY DEF Since
  <2> QED  BY <1>2, <2>1, <2>2, <2>3, GoodSince, ContainsEnds
<1>3. CASE es.prev # local.last /\ ~Contains(es, local.last) /\ unknown = {}
  BY <1>3 DEF StripCommonPrefix
<1>4. CASE es.prev # local.last /\ ~Contains(es, local.last) /\ unknown # {}
  <2> DEFINE q == IF Contains(local, candidate) THEN candidate ELSE common
  <2>1. r = Since(es, q)  BY <1>4 DEF StripCommonPrefix
  <2>2. unknown # {} <=> \E i \in DOMAIN es.terms : ~Contains(local, R!Pos(es.terms[i], i))
    BY SMTT(40)
  <2>3. q \in Position /\ Contains(es, q) /\ Contains(local, q)
    BY <1>4, <2>2, StripPosition
  <2>4. Since(es, q).prev = q  BY DEF Since
  <2> HIDE DEF q
  <2> QED  BY <2>1, <2>3, <2>4, GoodSince
<1> QED  BY <1>1, <1>2, <1>3, <1>4

-----------------------------------------------------------------------------
(* The invariant. *)

\* Both LogEntries are typed and well formed; a Log has its two fields.
IInv ==
  /\ log = [snapshot_config |-> log.snapshot_config, entries |-> log.entries]
  /\ Good(log.entries)
  /\ Good(remote)

\* The positions that the steps choose from.
LEMMA PositionsArePositions == Positions \subseteq Position
BY LogBounds DEF Positions, Position

\* What push_back may give is a log.
LEMMA GoodPushes ==
  ASSUME NEW es, Good(es)
  PROVE  \A r \in Pushes(es) : Good(r)
<1> SUFFICES ASSUME NEW r \in Pushes(es) PROVE Good(r)  OBVIOUS
<1>1. PICK e \in {Term(t) : t \in {u \in 1 .. MaxTerm : u > es.last.term}}
                   \cup {Command} \cup {ClusterConfig(c) : c \in Configs} : r = Push(es, e)
  BY DEF Pushes
<1>2. e.kind = "Term" => e.term \in Nat
  BY LogBounds DEF Term, Command, ClusterConfig
<1> QED  BY <1>1, <1>2, GoodPush

\* So is what truncate, since and a rebase may give.
LEMMA GoodResults ==
  ASSUME NEW es, Good(es)
  PROVE  /\ \A r \in Truncations(es) : Good(r)
         /\ \A r \in Suffixes(es) : Good(r)
         /\ \A r \in Rebased(es) : Good(r)
<1>1. \A r \in Truncations(es) : Good(r)
  <2> SUFFICES ASSUME NEW n \in 0 .. MaxIndex PROVE Good(Truncate(es, n))  BY DEF Truncations
  <2>1. n \in Nat  BY LogBounds
  <2> QED  BY <2>1, GoodTruncate
<1>2. \A r \in Suffixes(es) : Good(r)
  BY PositionsArePositions, GoodSince DEF Suffixes
<1>3. \A r \in Rebased(es) : Good(r)
  BY PositionsArePositions, GoodRebase DEF Rebased
<1> QED  BY <1>1, <1>2, <1>3

\* What a follower makes of a leader's entries, whole or as a delta.
LEMMA GoodAppends ==
  ASSUME NEW es, Good(es), NEW more, Good(more)
  PROVE  /\ \A r \in Appends(es, more) : Good(r)
         /\ \A r \in DeltaAppends(es, more) : Good(r)
<1>1. \A r \in Appends(es, more) : Good(r)  BY GoodAppendSuffix DEF Appends
<1>2. \A r \in DeltaAppends(es, more) : Good(r)
  <2> SUFFICES ASSUME NEW r \in DeltaAppends(es, more) PROVE Good(r)  OBVIOUS
  <2>1. Contains(es, more.prev) /\ r = AppendUnchecked(es, StripCommonPrefix(more, es))
    BY DEF DeltaAppends
  <2>2. Good(StripCommonPrefix(more, es)) /\ Contains(es, StripCommonPrefix(more, es).prev)
    BY <2>1, GoodStripCommonPrefix
  <2> QED  BY <2>1, <2>2, GoodAppendUnchecked
<1> QED  BY <1>1, <1>2

\* A step that gives the node's log good entries keeps the invariant.
LEMMA LocalKeeps ==
  ASSUME IInv, NEW results, \A r \in results : Good(r), Local(results)
  PROVE  IInv'
<1>1. PICK r \in results : log' = [log EXCEPT !.entries = r]  BY DEF Local
<1>2. log' = [snapshot_config |-> log.snapshot_config, entries |-> r]  BY <1>1 DEF IInv
<1>3. remote' = remote  BY DEF Local
<1>4. Good(log'.entries) /\ Good(remote')  BY <1>2, <1>3 DEF IInv
<1> QED  BY <1>2, <1>4 DEF IInv

\* A step that makes the leader's entries good ones keeps the invariant.
LEMMA RemoteKeeps ==
  ASSUME IInv, NEW results, \A r \in results : Good(r), Remote(results)
  PROVE  IInv'
<1>1. Good(remote') /\ log' = log  BY DEF Remote
<1> QED  BY <1>1 DEF IInv

\* The invariant holds at first.
LEMMA InitIInv == Init => IInv
<1> SUFFICES ASSUME Init PROVE IInv  OBVIOUS
<1>1. R!ZERO \in Position  BY DEF R!ZERO, R!Pos, Position
<1>2. Good(New(R!ZERO))  BY <1>1, GoodNew
<1> QED  BY <1>2 DEF Init, IInv

\* Every step keeps the invariant.
LEMMA NextIInv == IInv /\ [Next]_vars => IInv'
<1> SUFFICES ASSUME IInv, [Next]_vars PROVE IInv'  OBVIOUS
<1>1. Good(log.entries) /\ Good(remote)  BY DEF IInv
<1>2. CASE PushEntry
  BY <1>1, <1>2, GoodPushes, LocalKeeps, RemoteKeeps DEF PushEntry
<1>3. CASE TruncateEntries
  BY <1>1, <1>3, GoodResults, LocalKeeps, RemoteKeeps DEF TruncateEntries
<1>4. CASE CopyEntries
  <2>1. \A r \in {log.entries} : Good(r)  BY <1>1
  <2> QED  BY <1>4, <2>1, RemoteKeeps DEF CopyEntries
<1>5. CASE DropPrefix
  BY <1>1, <1>5, GoodResults, RemoteKeeps DEF DropPrefix
<1>6. CASE RebaseQueued
  BY <1>1, <1>6, GoodResults, RemoteKeeps DEF RebaseQueued
<1>7. CASE AppendAll
  BY <1>1, <1>7, GoodAppends, LocalKeeps DEF AppendAll
<1>8. CASE AppendDelta
  BY <1>1, <1>8, GoodAppends, LocalKeeps DEF AppendDelta
<1>9. CASE InstallSnapshot
  <2>1. PICK p \in Positions, c \in Configs : log' = Install(log, p, c)
    BY <1>9 DEF InstallSnapshot, Installs
  <2>2. p \in Position  BY PositionsArePositions
  <2>3. Good(IF Contains(log.entries, p) THEN Since(log.entries, p) ELSE New(p))
    BY <1>1, <2>2, GoodSince, GoodNew
  <2>4. remote' = remote  BY <1>9 DEF InstallSnapshot
  <2>5. Good(log'.entries) /\ log' = [snapshot_config |-> log'.snapshot_config, entries |-> log'.entries]
    BY <2>1, <2>3 DEF Install
  <2>6. Good(remote')  BY <1>1, <2>4
  <2> QED  BY <2>5, <2>6 DEF IInv
<1>10. CASE UNCHANGED vars
  BY <1>10 DEF IInv, vars
<1> QED  BY <1>2, <1>3, <1>4, <1>5, <1>6, <1>7, <1>8, <1>9, <1>10 DEF Next

\* However its methods are called, in any order and on any arguments that they are
\* meant for, a log's maps and its cached last term describe one sequence of entries.
THEOREM RepresentationStands == Spec => []RepresentationOK
<1>1. IInv => RepresentationOK  BY DEF IInv, Good, RepresentationOK
<1> QED  BY InitIInv, NextIInv, <1>1, PTL DEF Spec
-----------------------------------------------------------------------------
(* The sequence of a log. *)

\* The sequence of a log has an entry for every index after prev_position.
LEMMA SequenceFacts ==
  ASSUME NEW es, Good(es)
  PROVE  /\ Sequence(es).prev = es.prev
         /\ Length(es) \in Nat
         /\ Sequence(es).ents \in Seq({EntryAt(es, i) : i \in Nat})
         /\ Len(Sequence(es).ents) = Length(es)
         /\ \A k \in 1 .. Length(es) : Sequence(es).ents[k] = EntryAt(es, es.prev.index + k)
<1>1. Length(es) \in Nat /\ es.prev.index \in Nat  BY GoodFacts DEF Length
<1> DEFINE S0 == {EntryAt(es, i) : i \in Nat}
           q == [k \in 1 .. Length(es) |-> EntryAt(es, es.prev.index + k)]
<1>2. Sequence(es) = [prev |-> es.prev, ents |-> q]  BY DEF Sequence
<1>3. q \in [1 .. Length(es) -> S0]
  <2>1. \A k \in 1 .. Length(es) : EntryAt(es, es.prev.index + k) \in S0
    <3> TAKE k \in 1 .. Length(es)
    <3>1. es.prev.index + k \in Nat  BY <1>1
    <3> QED  BY <3>1
  <2> HIDE DEF S0
  <2> QED  BY <2>1
<1> HIDE DEF S0
<1>4. q \in Seq(S0)  BY <1>1, <1>3, SeqDef
<1>5. DOMAIN q = 1 .. Length(es)  OBVIOUS
<1>6. Len(q) = Length(es)
  <2> HIDE DEF q
  <2> QED  BY <1>1, <1>4, <1>5, LenProperties
<1> QED  BY <1>1, <1>2, <1>4, <1>6 DEF S0

\* A sequence with the entries of a log is the sequence of the log.
LEMMA SequenceIs ==
  ASSUME NEW es, Good(es), NEW T, NEW f \in Seq(T), Len(f) = Length(es),
         \A k \in 1 .. Len(f) : f[k] = EntryAt(es, es.prev.index + k)
  PROVE  Sequence(es) = [prev |-> es.prev, ents |-> f]
<1> DEFINE q == [k \in 1 .. Length(es) |-> EntryAt(es, es.prev.index + k)]
<1>1. Sequence(es) = [prev |-> es.prev, ents |-> q]  BY DEF Sequence
<1>2. f \in [1 .. Len(f) -> T]  BY LenProperties
<1>3. DOMAIN f = 1 .. Len(f)  BY LenProperties
<1>4. f = [k \in 1 .. Len(f) |-> f[k]]  BY <1>2
<1>5. f = q  BY <1>4
<1> QED  BY <1>1, <1>5

\* The entry at an index depends on the term there and on the keys of the maps.
LEMMA EntryAtSame ==
  ASSUME NEW es, NEW fs, NEW i,
         GetTerm(es, i) = GetTerm(fs, i),
         i \in DOMAIN es.terms <=> i \in DOMAIN fs.terms,
         i \in DOMAIN es.configs <=> i \in DOMAIN fs.configs,
         i \in DOMAIN es.configs => es.configs[i] = fs.configs[i]
  PROVE  EntryAt(es, i) = EntryAt(fs, i)
BY DEF EntryAt

\* last_position, and the term at an index.
LEMMA PositionFacts ==
  ASSUME NEW es, Good(es)
  PROVE  /\ S!LastIndex(Sequence(es)) = es.last.index
         /\ \A i \in es.prev.index .. es.last.index : S!TermAt(Sequence(es), i) = GetTerm(es, i)
         /\ S!LastPosition(Sequence(es)) = es.last
<1> DEFINE q == Sequence(es)
<1>1. /\ q.prev = es.prev /\ Len(q.ents) = Length(es)
      /\ \A k \in 1 .. Length(es) : q.ents[k] = EntryAt(es, es.prev.index + k)
  BY SequenceFacts
<1>2. S!LastIndex(q) = es.last.index
  BY <1>1, GoodFacts DEF S!LastIndex, Length
<1>3. \A i : EntryAt(es, i).term = GetTerm(es, i)
  BY DEF EntryAt, R!TermEntry, R!ConfigEntry, R!CommandEntry
<1>4. \A i \in es.prev.index .. es.last.index : S!TermAt(q, i) = GetTerm(es, i)
  <2> TAKE i \in es.prev.index .. es.last.index
  <2>1. i \in Nat /\ es.prev.index <= i /\ i <= es.last.index  BY GoodFacts
  <2>2. CASE i = es.prev.index
    <3>1. S!TermAt(q, i) = es.prev.term  BY <1>1, <2>2 DEF S!TermAt
    <3> QED  BY <2>2, <3>1, GetTermAtPrev
  <2>3. CASE i # es.prev.index
    <3> DEFINE k == i - es.prev.index
    <3>1. k \in 1 .. Length(es) /\ es.prev.index + k = i
      BY <2>1, <2>3, GoodFacts DEF Length
    <3>2. q.ents[k].term = GetTerm(es, i)  BY <1>1, <1>3, <3>1
    <3> QED  BY <1>1, <2>3, <3>2 DEF S!TermAt
  <2> QED  BY <2>2, <2>3
<1>5. S!LastPosition(q) = es.last
  <2>1. es.last.index \in es.prev.index .. es.last.index  BY GoodFacts
  <2>2. S!TermAt(q, es.last.index) = es.last.term  BY <1>4, <2>1, GoodFacts
  <2>3. es.last = [term |-> es.last.term, index |-> es.last.index]  BY DEF Good, Position
  <2> QED  BY <1>2, <2>2, <2>3 DEF S!LastPosition, S!Pos
<1> QED  BY <1>2, <1>4, <1>5

\* contains.
LEMMA ContainsSame ==
  ASSUME NEW es, Good(es), NEW p
  PROVE  S!Contains(Sequence(es), p) <=> Contains(es, p)
<1>1. Sequence(es).prev = es.prev  BY SequenceFacts
<1>2. S!ContainsIndex(Sequence(es), p.index) <=> ContainsIndex(es, p.index)
  BY <1>1, PositionFacts DEF S!ContainsIndex, ContainsIndex
<1>3. CASE ContainsIndex(es, p.index)
  <2>1. S!TermAt(Sequence(es), p.index) = GetTerm(es, p.index)
    BY <1>3, PositionFacts DEF ContainsIndex
  <2> QED  BY <1>2, <1>3, <2>1 DEF S!Contains, Contains
<1>4. CASE ~ContainsIndex(es, p.index)
  BY <1>2, <1>4 DEF S!Contains, Contains
<1> QED  BY <1>3, <1>4

\* The entries of a log in a range of indices, as SubSeq finds them.
LEMMA SubSequence ==
  ASSUME NEW es, Good(es), NEW m \in Nat, NEW n \in Nat, 1 <= m, n <= Length(es)
  PROVE  /\ SubSeq(Sequence(es).ents, m, n) \in Seq({EntryAt(es, i) : i \in Nat})
         /\ Len(SubSeq(Sequence(es).ents, m, n)) = IF m <= n THEN n - m + 1 ELSE 0
         /\ \A k \in 1 .. n - m + 1 :
              SubSeq(Sequence(es).ents, m, n)[k] = EntryAt(es, es.prev.index + (m + k - 1))
<1> DEFINE S0 == {EntryAt(es, i) : i \in Nat}
           q == Sequence(es).ents
<1>1. \A k \in 1 .. Length(es) : q[k] = EntryAt(es, es.prev.index + k)  BY SequenceFacts
<1>2. Length(es) \in Nat /\ es.prev.index \in Nat  BY SequenceFacts, GoodFacts
<1>3. \A k \in m .. n : k \in 1 .. Length(es) /\ es.prev.index + k \in Nat  BY <1>2
<1>4. \A k \in m .. n : q[k] \in S0
  <2> HIDE DEF q
  <2> QED  BY <1>1, <1>3
<1>5. \A k \in 1 .. n - m + 1 : m + k - 1 \in 1 .. Length(es)  BY <1>2
<1> HIDE DEF q, S0
<1>6. /\ SubSeq(q, m, n) \in Seq(S0)
      /\ Len(SubSeq(q, m, n)) = IF m <= n THEN n - m + 1 ELSE 0
      /\ \A k \in 1 .. n - m + 1 : SubSeq(q, m, n)[k] = q[m + k - 1]
  <2>1. m \in Int /\ n \in Int  OBVIOUS
  <2> QED  BY <1>4, <2>1, SubSeqProperties
<1>7. \A k \in 1 .. n - m + 1 : q[m + k - 1] = EntryAt(es, es.prev.index + (m + k - 1))
  BY <1>1, <1>5
<1> QED  BY <1>6, <1>7 DEF q, S0

\* The first n entries of a log.
LEMMA Prefix ==
  ASSUME NEW es, Good(es), NEW n \in Nat, n <= Length(es)
  PROVE  /\ SubSeq(Sequence(es).ents, 1, n) \in Seq({EntryAt(es, i) : i \in Nat})
         /\ Len(SubSeq(Sequence(es).ents, 1, n)) = n
         /\ \A k \in 1 .. n : SubSeq(Sequence(es).ents, 1, n)[k] = EntryAt(es, es.prev.index + k)
<1> DEFINE f == SubSeq(Sequence(es).ents, 1, n)
           T == {EntryAt(es, i) : i \in Nat}
<1>1. /\ f \in Seq(T) /\ Len(f) = IF 1 <= n THEN n - 1 + 1 ELSE 0
      /\ \A k \in 1 .. n - 1 + 1 : f[k] = EntryAt(es, es.prev.index + (1 + k - 1))
  <2> DEFINE m == 1
             g == SubSeq(Sequence(es).ents, m, n)
  <2>1. m \in Nat /\ 1 <= m  OBVIOUS
  <2> HIDE DEF m
  <2>2. /\ g \in Seq({EntryAt(es, i) : i \in Nat}) /\ Len(g) = IF m <= n THEN n - m + 1 ELSE 0
        /\ \A k \in 1 .. n - m + 1 : g[k] = EntryAt(es, es.prev.index + (m + k - 1))
    BY <2>1, SubSequence
  <2> QED  BY <2>2 DEF m
<1>2. \A k \in 1 .. n : 1 + k - 1 = k  OBVIOUS
<1>3. n - 1 + 1 = n /\ (~(1 <= n) => n = 0)  OBVIOUS
<1> HIDE DEF f, T
<1>4. f \in Seq(T) /\ Len(f) = n /\ \A k \in 1 .. n : f[k] = EntryAt(es, es.prev.index + k)
  BY <1>1, <1>2, <1>3
<1> QED  BY <1>4 DEF f, T

\* LogEntries::new.
LEMMA NewSame ==
  ASSUME NEW p \in Position
  PROVE  Sequence(New(p)) = S!NewEntries(p)
<1>1. Length(New(p)) = 0 /\ Good(New(p)) /\ New(p).prev = p
  BY GoodNew DEF New, Length, Position
<1>2. << >> \in Seq({}) /\ Len(<< >>) = 0  BY EmptySeq
<1>3. Sequence(New(p)) = [prev |-> New(p).prev, ents |-> << >>]
  <2> DEFINE f == << >>
  <2>1. f \in Seq({}) /\ Len(f) = 0 /\ \A k \in 1 .. Len(f) : FALSE  BY <1>2
  <2> HIDE DEF f
  <2>2. Sequence(New(p)) = [prev |-> New(p).prev, ents |-> f]  BY <1>1, <2>1, SequenceIs
  <2> QED  BY <2>2 DEF f
<1> QED  BY <1>1, <1>3 DEF S!NewEntries

\* truncate.
LEMMA TruncateSame ==
  ASSUME NEW es, Good(es), NEW n \in Nat
  PROVE  Sequence(Truncate(es, n)) = S!Truncate(Sequence(es), n)
<1> DEFINE q == Sequence(es)
           r == Truncate(es, n)
<1>1. Len(q.ents) = Length(es) /\ q = [prev |-> es.prev, ents |-> q.ents]
  BY SequenceFacts DEF Sequence
<1>2. CASE Length(es) <= n
  BY <1>1, <1>2 DEF Truncate, S!Truncate
<1>3. CASE ~(Length(es) <= n)
  <2> DEFINE f == SubSeq(q.ents, 1, n)
             T == {EntryAt(es, i) : i \in Nat}
  <2>1. Good(r)  BY GoodTruncate
  <2>2. /\ r.prev = es.prev /\ r.last.index = es.prev.index + n
        /\ r.terms = SplitOff(es.terms, es.prev.index + n + 1)
        /\ r.configs = SplitOff(es.configs, es.prev.index + n + 1)
    BY <1>3 DEF Truncate, R!Pos
  <2>3. Length(r) = n /\ es.prev.index \in Nat /\ Length(es) \in Nat /\ n < Length(es)
    BY <1>3, <2>2, GoodFacts, SequenceFacts DEF Length
  <2>4. f \in Seq(T) /\ Len(f) = n /\ \A k \in 1 .. n : f[k] = EntryAt(es, es.prev.index + k)
    BY <2>3, Prefix
  <2>5. \A k \in 1 .. n : EntryAt(es, es.prev.index + k) = EntryAt(r, r.prev.index + k)
    <3> TAKE k \in 1 .. n
    <3> DEFINE i == es.prev.index + k
    <3>1. i \in Nat /\ i <= es.prev.index + n /\ i < es.prev.index + n + 1  BY <2>3
    <3>2. GetTerm(r, i) = GetTerm(es, i)  BY <2>3, <3>1, GetTermTruncate
    <3>3. /\ i \in DOMAIN es.terms <=> i \in DOMAIN r.terms
          /\ i \in DOMAIN es.configs <=> i \in DOMAIN r.configs
          /\ i \in DOMAIN es.configs => es.configs[i] = r.configs[i]
      <4> HIDE DEF i, r
      <4> QED  BY <2>2, <3>1 DEF SplitOff
    <3>4. EntryAt(es, i) = EntryAt(r, i)
      <4> HIDE DEF i, r
      <4> QED  BY <3>2, <3>3, EntryAtSame
    <3> QED  BY <2>2, <3>4
  <2> HIDE DEF f, T, r
  <2>6. Sequence(r) = [prev |-> r.prev, ents |-> f]
    BY <2>1, <2>3, <2>4, <2>5, SequenceIs
  <2>7. S!Truncate(q, n) = [q EXCEPT !.ents = f]  BY <1>1, <1>3 DEF S!Truncate, f
  <2>8. [q EXCEPT !.ents = f] = [prev |-> es.prev, ents |-> f]
    <3> HIDE DEF q
    <3> QED  BY <1>1
  <2> QED  BY <2>2, <2>6, <2>7, <2>8 DEF r
<1> QED  BY <1>2, <1>3

\* since.
LEMMA SinceSame ==
  ASSUME NEW es, Good(es), NEW p \in Position, Contains(es, p)
  PROVE  Sequence(Since(es, p)) = S!Since(Sequence(es), p)
<1> DEFINE q == Sequence(es)
           r == Since(es, p)
           d == p.index - es.prev.index
           n == Length(es)
           f == SubSeq(q.ents, d + 1, n)
           T == {EntryAt(es, i) : i \in Nat}
<1>1. Len(q.ents) = n /\ q.prev = es.prev /\ n \in Nat  BY SequenceFacts
<1>2. Good(r)  BY GoodSince
<1>3. /\ r.prev = p /\ r.last = es.last
      /\ r.terms = From(es.terms, p.index + 1)
      /\ r.configs = From(es.configs, p.index + 1)
  BY DEF Since
<1>4. p.index \in Nat /\ es.prev.index \in Nat /\ d \in Nat /\ d <= n /\ Length(r) = n - d
  BY <1>3, GoodFacts DEF Position, Contains, ContainsIndex, Length
<1>5. f \in Seq(T) /\ Len(f) = n - d /\ \A k \in 1 .. n - d : f[k] = EntryAt(es, p.index + k)
  <2>1. /\ f \in Seq(T) /\ Len(f) = IF d + 1 <= n THEN n - (d + 1) + 1 ELSE 0
        /\ \A k \in 1 .. n - (d + 1) + 1 : f[k] = EntryAt(es, es.prev.index + (d + 1 + k - 1))
    <3>1. d + 1 \in Nat /\ 1 <= d + 1 /\ n <= n  BY <1>1, <1>4
    <3> DEFINE m == d + 1
    <3>2. m \in Nat /\ 1 <= m  BY <3>1
    <3> HIDE DEF m
    <3>3. n \in Nat /\ n <= Length(es)  BY <1>1
    <3> HIDE DEF n
    <3>4. /\ SubSeq(Sequence(es).ents, m, n) \in Seq({EntryAt(es, i) : i \in Nat})
          /\ Len(SubSeq(Sequence(es).ents, m, n)) = IF m <= n THEN n - m + 1 ELSE 0
          /\ \A k \in 1 .. n - m + 1 :
               SubSeq(Sequence(es).ents, m, n)[k] = EntryAt(es, es.prev.index + (m + k - 1))
      BY <3>2, <3>3, SubSequence
    <3> QED  BY <3>4 DEF m, n
  <2>2. \A k \in 1 .. n - d : es.prev.index + (d + 1 + k - 1) = p.index + k
    BY <1>1, <1>4, SMTT(40)
  <2>3. n - (d + 1) + 1 = n - d /\ (~(d + 1 <= n) => n - d = 0)  BY <1>1, <1>4
  <2> HIDE DEF f, T, d, n
  <2> QED  BY <2>1, <2>2, <2>3
<1>6. \A k \in 1 .. n - d : EntryAt(es, p.index + k) = EntryAt(r, p.index + k)
  <2> TAKE k \in 1 .. n - d
  <2> DEFINE i == p.index + k
  <2>1. i \in Nat /\ p.index <= i /\ i >= p.index + 1  BY <1>1, <1>4
  <2>2. GetTerm(r, i) = GetTerm(es, i)  BY <2>1, GetTermSince
  <2>3. /\ i \in DOMAIN es.terms <=> i \in DOMAIN r.terms
        /\ i \in DOMAIN es.configs <=> i \in DOMAIN r.configs
        /\ i \in DOMAIN es.configs => es.configs[i] = r.configs[i]
    <3> HIDE DEF i, r
    <3> QED  BY <1>3, <2>1 DEF From
  <2> HIDE DEF i, r
  <2> QED  BY <2>2, <2>3, EntryAtSame DEF i
<1>7. S!Since(q, p) = [prev |-> p, ents |-> f]  BY <1>1 DEF S!Since
<1> HIDE DEF f, T, d, n, r
<1>8. Sequence(r) = [prev |-> r.prev, ents |-> f]
  BY <1>2, <1>3, <1>4, <1>5, <1>6, SequenceIs
<1> QED  BY <1>3, <1>7, <1>8 DEF r

\* After an append the entries up to the anchor are those of es, the others of more.
LEMMA AppendKeys ==
  ASSUME NEW es, Good(es), NEW more, Good(more), Contains(es, more.prev), NEW i \in Nat
  PROVE  LET r == AppendUnchecked(es, more)
             s == IF i <= more.prev.index THEN es ELSE more
         IN  EntryAt(r, i) = EntryAt(s, i)
<1> DEFINE r == AppendUnchecked(es, more)
           a == more.prev.index
           f == Extend(SplitOff(es.terms, a + 1), more.terms)
           g == Extend(SplitOff(es.configs, a + 1), more.configs)
<1>1. r.terms = f /\ r.configs = g  BY DEF AppendUnchecked
<1>2. /\ DOMAIN f = {k \in DOMAIN es.terms : k < a + 1} \cup DOMAIN more.terms
      /\ DOMAIN g = {k \in DOMAIN es.configs : k < a + 1} \cup DOMAIN more.configs
      /\ \A k \in DOMAIN g : g[k] = IF k \in DOMAIN more.configs THEN more.configs[k] ELSE es.configs[k]
  BY DEF Extend, SplitOff
<1>3. a \in Nat /\ (\A k \in DOMAIN more.terms : k > a) /\ (\A k \in DOMAIN more.configs : k > a)
  BY GoodFacts
<1>4. GetTerm(r, i) = IF i <= a THEN GetTerm(es, i) ELSE GetTerm(more, i)
  BY GetTermAppend
<1> HIDE DEF f, g, a, r
<1>5. CASE i <= a
  <2>1. i < a + 1 /\ ~(i > a)  BY <1>3, <1>5
  <2>2. /\ i \in DOMAIN r.terms <=> i \in DOMAIN es.terms
        /\ i \in DOMAIN r.configs <=> i \in DOMAIN es.configs
        /\ i \in DOMAIN r.configs => r.configs[i] = es.configs[i]
    BY <1>1, <1>2, <1>3, <2>1
  <2>3. EntryAt(r, i) = EntryAt(es, i)  BY <1>4, <1>5, <2>2, EntryAtSame
  <2> QED  BY <1>5, <2>3 DEF r, a
<1>6. CASE ~(i <= a)
  <2>1. ~(i < a + 1)  BY <1>3, <1>6
  <2>2. /\ i \in DOMAIN r.terms <=> i \in DOMAIN more.terms
        /\ i \in DOMAIN r.configs <=> i \in DOMAIN more.configs
        /\ i \in DOMAIN r.configs => r.configs[i] = more.configs[i]
    BY <1>1, <1>2, <2>1
  <2>3. EntryAt(r, i) = EntryAt(more, i)  BY <1>4, <1>6, <2>2, EntryAtSame
  <2> QED  BY <1>6, <2>3 DEF r, a
<1> QED  BY <1>5, <1>6

\* append_unchecked at an anchor that the entries contain.
LEMMA AppendSame ==
  ASSUME NEW es, Good(es), NEW more, Good(more), Contains(es, more.prev)
  PROVE  Sequence(AppendUnchecked(es, more)) = S!AppendUnchecked(Sequence(es), Sequence(more))
<1> DEFINE q == Sequence(es)
           m == Sequence(more)
           r == AppendUnchecked(es, more)
           a == more.prev.index
           d == a - es.prev.index
           n == Length(more)
           T == {EntryAt(es, i) : i \in Nat}
           U == {EntryAt(more, i) : i \in Nat}
           kept == IF a <= es.prev.index THEN << >> ELSE SubSeq(q.ents, 1, d)
           tail == SubSeq(m.ents, 1, n)
<1>1. q.prev = es.prev /\ m.prev = more.prev /\ Len(m.ents) = n /\ n \in Nat
  BY SequenceFacts
<1>2. Good(r) /\ r.prev = es.prev /\ r.last = more.last
  BY GoodAppendUnchecked DEF AppendUnchecked
<1>3. /\ a \in Nat /\ es.prev.index \in Nat /\ d \in Nat /\ d <= Length(es) /\ Length(es) \in Nat
      /\ Length(r) = d + n /\ ~(a < es.prev.index)
  BY <1>2, GoodFacts DEF Contains, ContainsIndex, Length
<1>4. S!AppendUnchecked(q, m) = [prev |-> es.prev, ents |-> kept \o tail]
  <2>1. S!AppendUnchecked(q, m) = [q EXCEPT !.ents = kept \o tail]
    <3> DEFINE command == S!CommandEntry(S!LastPosition(q).term)
               gap == [k \in 1 .. d - Len(q.ents) |-> command]
    <3>1. q.ents \in Seq(T) /\ Len(q.ents) = Length(es)  BY SequenceFacts
    <3>2. gap = << >>
      <4> HIDE DEF command, d, q
      <4>1. 1 .. d - Len(q.ents) = {}  BY <1>3, <3>1
      <4> QED  BY <4>1
    <3>3. q.ents \o gap = q.ents
      <4> HIDE DEF gap, T
      <4> QED  BY <3>1, <3>2, ConcatEmptySeq
    <3>4. S!AppendUnchecked(q, m)
            = [q EXCEPT !.ents = (IF a <= es.prev.index THEN << >>
                                  ELSE SubSeq(q.ents \o gap, 1, d)) \o tail]
      <4> HIDE DEF T, command
      <4> QED  BY <1>1, <1>3 DEF S!AppendUnchecked, command
    <3> QED  BY <3>3, <3>4
  <2>2. q = [prev |-> es.prev, ents |-> q.ents]  BY DEF Sequence
  <2>3. [q EXCEPT !.ents = kept \o tail] = [prev |-> es.prev, ents |-> kept \o tail]
    <3> DEFINE f == kept \o tail
    <3> HIDE DEF f
    <3>1. [q EXCEPT !.ents = f] = [prev |-> es.prev, ents |-> f]
      <4> HIDE DEF q
      <4> QED  BY <2>2
    <3> QED  BY <3>1 DEF f
  <2> HIDE DEF q, kept, tail, m
  <2> QED  BY <2>1, <2>3, SMTT(40)
<1>5. kept \in Seq(T) /\ Len(kept) = d /\ \A k \in 1 .. d : kept[k] = EntryAt(es, es.prev.index + k)
  <2>1. CASE a <= es.prev.index
    <3>1. d = 0 /\ kept = << >>  BY <1>3, <2>1
    <3>2. << >> \in Seq(T) /\ Len(<< >>) = 0  BY EmptySeq
    <3> HIDE DEF d, kept, T
    <3> QED  BY <3>1, <3>2
  <2>2. CASE ~(a <= es.prev.index)
    <3>1. kept = SubSeq(Sequence(es).ents, 1, d)  BY <2>2
    <3> HIDE DEF kept, d
    <3> QED  BY <1>3, <3>1, Prefix
  <2> QED  BY <2>1, <2>2
<1>6. tail \in Seq(U) /\ Len(tail) = n /\ \A k \in 1 .. n : tail[k] = EntryAt(more, a + k)
  <2>1. n <= Length(more)  BY <1>1
  <2> HIDE DEF n
  <2> QED  BY <1>1, <2>1, Prefix
<1> HIDE DEF kept, tail, T, U, q, m
<1>7. kept \in Seq(T \cup U) /\ tail \in Seq(T \cup U)
  BY <1>5, <1>6, SeqMonotonic
<1>8. /\ kept \o tail \in Seq(T \cup U)
      /\ Len(kept \o tail) = d + n
      /\ \A k \in 1 .. d + n : (kept \o tail)[k] = IF k <= d THEN kept[k] ELSE tail[k - d]
  <2> HIDE DEF d, n
  <2> QED  BY <1>5, <1>6, <1>7, ConcatProperties, ZenonT(60)
<1>9. \A k \in 1 .. d + n : (kept \o tail)[k] = EntryAt(r, r.prev.index + k)
  <2> TAKE k \in 1 .. d + n
  <2> DEFINE i == es.prev.index + k
  <2>1. i \in Nat /\ (i <= a <=> k <= d)  BY <1>1, <1>3, SMTT(40)
  <2>2. EntryAt(r, i) = IF k <= d THEN EntryAt(es, i) ELSE EntryAt(more, i)
    BY <2>1, AppendKeys
  <2>3. CASE k <= d
    <3>1. k \in 1 .. d  BY <1>3, <2>3
    <3>2. kept[k] = EntryAt(es, i)  BY <1>5, <3>1
    <3> HIDE DEF d, r, i
    <3> QED  BY <1>2, <1>8, <2>2, <2>3, <3>2 DEF i
  <2>4. CASE ~(k <= d)
    <3>1. k - d \in 1 .. n /\ a + (k - d) = i  BY <1>1, <1>3, <2>4, SMTT(40)
    <3>2. tail[k - d] = EntryAt(more, i)
      <4> HIDE DEF d, i, n
      <4> QED  BY <1>6, <3>1
    <3> HIDE DEF d, r, i
    <3> QED  BY <1>2, <1>8, <2>2, <2>4, <3>2 DEF i
  <2> QED  BY <2>3, <2>4
<1>10. Sequence(r) = [prev |-> r.prev, ents |-> kept \o tail]
  <2> DEFINE f == kept \o tail
  <2> HIDE DEF f, r, d, n
  <2>1. f \in Seq(T \cup U) /\ Len(f) = Length(r) /\ \A k \in 1 .. Len(f) : f[k] = EntryAt(r, r.prev.index + k)
    BY <1>3, <1>8, <1>9 DEF f
  <2>2. Sequence(r) = [prev |-> r.prev, ents |-> f]  BY <1>2, <2>1, SequenceIs
  <2> QED  BY <2>2 DEF f
<1> QED  BY <1>2, <1>4, <1>10 DEF q, m

\* push_back leaves the entries up to the last as they are.
LEMMA PushKeeps ==
  ASSUME NEW es, Good(es), NEW e, e.kind = "Term" => e.term \in Nat,
         NEW i \in Nat, i <= es.last.index
  PROVE  EntryAt(Push(es, e), i) = EntryAt(es, i)
<1> DEFINE r == Push(es, e)
           n == es.last.index + 1
           f == r.terms
           h == es.terms
           d == es.prev.term
<1>1. /\ r.prev = es.prev
      /\ r.terms = IF e.kind = "Term" THEN Insert(es.terms, n, e.term) ELSE es.terms
      /\ r.configs = IF e.kind = "ClusterConfig" THEN Insert(es.configs, n, e.config) ELSE es.configs
  BY DEF Push
<1>2. n \in Nat /\ i # n /\ \A j \in Nat : j <= i => j # n  BY GoodFacts
<1> HIDE DEF r, n
<1>3. /\ DOMAIN f \subseteq Nat /\ DOMAIN h \subseteq Nat
      /\ \A j \in Nat : j # n => (j \in DOMAIN f <=> j \in DOMAIN h)
      /\ \A j \in DOMAIN h : j # n => f[j] = h[j]
  BY <1>1, <1>2, GoodFacts DEF Insert
<1>4. /\ i \in DOMAIN r.configs <=> i \in DOMAIN es.configs
      /\ i \in DOMAIN r.configs => r.configs[i] = es.configs[i]
  BY <1>1, <1>2 DEF Insert
<1>5. GetTerm(r, i) = GetTerm(es, i)
  <2> HIDE DEF f, h, d
  <2>1. \A j \in Nat : (j \in DOMAIN f /\ j <= i) <=> (j \in DOMAIN h /\ j <= i)
    BY <1>2, <1>3
  <2>2. \A j \in DOMAIN f : j <= i => f[j] = h[j]  BY <1>2, <1>3
  <2>3. ValueAt(f, i, d) = ValueAt(h, i, d)  BY <1>3, <2>1, <2>2, ValueAtSame
  <2> QED  BY <1>1, <2>3 DEF GetTerm, f, h, d
<1> QED  BY <1>2, <1>3, <1>4, <1>5, EntryAtSame DEF r

\* push_back appends the entry at the new index.
LEMMA PushAppends ==
  ASSUME NEW es, Good(es), NEW e, e.kind = "Term" => e.term \in Nat
  PROVE  Sequence(Push(es, e))
           = S!Push(Sequence(es), EntryAt(Push(es, e), es.last.index + 1))
<1> DEFINE q == Sequence(es)
           r == Push(es, e)
           n == Length(es)
           x == EntryAt(r, es.last.index + 1)
           T == {EntryAt(es, i) : i \in Nat} \cup {x}
           f == Append(q.ents, x)
<1>1. Good(r) /\ r.prev = es.prev /\ r.last.index = es.last.index + 1
  BY GoodPush DEF Push, R!Pos
<1>2. /\ q.ents \in Seq({EntryAt(es, i) : i \in Nat}) /\ Len(q.ents) = n /\ n \in Nat
      /\ \A k \in 1 .. n : q.ents[k] = EntryAt(es, es.prev.index + k)
  BY SequenceFacts
<1>3. /\ es.prev.index \in Nat /\ es.prev.index + n = es.last.index /\ Length(r) = n + 1
      /\ es.prev.index + (n + 1) = es.last.index + 1
  BY <1>1, GoodFacts DEF Length
<1>4. q.ents \in Seq(T) /\ x \in T
  <2> HIDE DEF q, x
  <2> QED  BY <1>2, SeqMonotonic
<1>5. /\ f \in Seq(T) /\ Len(f) = n + 1 /\ f[n + 1] = x
      /\ \A k \in 1 .. n : f[k] = q.ents[k]
  <2> HIDE DEF q, x, T, n
  <2> QED  BY <1>2, <1>4, AppendProperties
<1>6. \A k \in 1 .. n : EntryAt(es, es.prev.index + k) = EntryAt(r, es.prev.index + k)
  <2> TAKE k \in 1 .. n
  <2> DEFINE i == es.prev.index + k
  <2>1. i \in Nat /\ i <= es.last.index  BY <1>2, <1>3
  <2> HIDE DEF i
  <2>2. EntryAt(es, i) = EntryAt(r, i)  BY <2>1, PushKeeps
  <2> QED  BY <2>2 DEF i
<1>7. S!Push(q, x) = [prev |-> es.prev, ents |-> f]
  <2>1. q = [prev |-> es.prev, ents |-> q.ents]  BY DEF Sequence
  <2>2. [q EXCEPT !.ents = f] = [prev |-> es.prev, ents |-> f]
    <3> HIDE DEF q, f
    <3> QED  BY <2>1
  <2>3. S!Push(q, x) = [q EXCEPT !.ents = f]  BY DEF S!Push
  <2> HIDE DEF q, f, x
  <2> QED  BY <2>2, <2>3
<1>8. \A k \in 1 .. n + 1 : f[k] = EntryAt(r, r.prev.index + k)
  <2> TAKE k \in 1 .. n + 1
  <2>1. CASE k = n + 1
    <3>1. es.prev.index + k = es.last.index + 1  BY <1>3, <2>1
    <3> HIDE DEF f, r, n
    <3> QED  BY <1>1, <1>5, <2>1, <3>1
  <2>2. CASE k # n + 1
    <3>1. k \in 1 .. n  BY <1>2, <2>2
    <3> HIDE DEF f, r, n, q
    <3> QED  BY <1>1, <1>2, <1>5, <1>6, <3>1
  <2> QED  BY <2>1, <2>2
<1> HIDE DEF f, T, n, r
<1>9. Sequence(r) = [prev |-> r.prev, ents |-> f]
  BY <1>1, <1>3, <1>5, <1>8, SequenceIs
<1> QED  BY <1>1, <1>7, <1>9 DEF r

\* The entry pushed is that of RaftLog.
LEMMA PushedEntry ==
  ASSUME NEW es, Good(es), NEW e, e.kind = "Term" => e.term \in Nat
  PROVE  LET r == Push(es, e)
             i == es.last.index + 1
             t == es.last.term
         IN  /\ e.kind = "Term" => EntryAt(r, i) = S!TermEntry(e.term)
             /\ e.kind = "ClusterConfig" => EntryAt(r, i) = S!ConfigEntry(t, e.config)
             /\ e.kind = "Command" => EntryAt(r, i) = S!CommandEntry(t)
<1> DEFINE r == Push(es, e)
           i == es.last.index + 1
           t == es.last.term
<1>1. Good(r) /\ r.last.index = i /\ r.last.term = IF e.kind = "Term" THEN e.term ELSE t
  BY GoodPush DEF Push, R!Pos
<1>2. /\ r.terms = IF e.kind = "Term" THEN Insert(es.terms, i, e.term) ELSE es.terms
      /\ r.configs = IF e.kind = "ClusterConfig" THEN Insert(es.configs, i, e.config) ELSE es.configs
  BY DEF Push
<1>3. i \notin DOMAIN es.terms /\ i \notin DOMAIN es.configs  BY GoodFacts
<1> HIDE DEF r, i, t
<1>4. GetTerm(r, i) = r.last.term  BY <1>1, GoodFacts
<1>5. CASE e.kind = "Term"
  <2>1. i \in DOMAIN r.terms  BY <1>2, <1>5 DEF Insert
  <2>2. EntryAt(r, i) = S!TermEntry(e.term)
    BY <1>1, <1>4, <1>5, <2>1
       DEF EntryAt, R!TermEntry, S!TermEntry, R!EmptyConfig, S!EmptyConfig
  <2> QED  BY <1>5, <2>2 DEF r, i, t
<1>6. CASE e.kind = "ClusterConfig"
  <2>1. i \notin DOMAIN r.terms  BY <1>2, <1>3, <1>6
  <2>2. i \in DOMAIN r.configs /\ r.configs[i] = e.config  BY <1>2, <1>6 DEF Insert
  <2>3. EntryAt(r, i) = S!ConfigEntry(t, e.config)
    BY <1>1, <1>4, <1>6, <2>1, <2>2 DEF EntryAt, R!ConfigEntry, S!ConfigEntry
  <2> QED  BY <1>6, <2>3 DEF r, i, t
<1>7. CASE e.kind = "Command"
  <2>1. i \notin DOMAIN r.terms /\ i \notin DOMAIN r.configs  BY <1>2, <1>3, <1>7
  <2>2. EntryAt(r, i) = S!CommandEntry(t)
    BY <1>1, <1>4, <1>7, <2>1
       DEF EntryAt, R!CommandEntry, S!CommandEntry, R!EmptyConfig, S!EmptyConfig
  <2> QED  BY <1>7, <2>2 DEF r, i, t
<1> QED  BY <1>5, <1>6, <1>7 DEF r, i, t

\* The Term entries of a log and their positions, read off its sequence.
LEMMA BoundsSame ==
  ASSUME NEW es, Good(es)
  PROVE  LET q == Sequence(es)
             bounds == {i \in q.prev.index + 1 .. S!LastIndex(q) : S!EntryAt(q, i).kind = "Term"}
         IN  /\ bounds = DOMAIN es.terms
             /\ \A i \in bounds : S!EntryAt(q, i).term = es.terms[i]
<1> DEFINE q == Sequence(es)
           n == Length(es)
           p == es.prev.index
           bounds == {i \in q.prev.index + 1 .. S!LastIndex(q) : S!EntryAt(q, i).kind = "Term"}
<1>1. /\ q.prev.index = p /\ S!LastIndex(q) = es.last.index
      /\ n \in Nat /\ \A k \in 1 .. n : q.ents[k] = EntryAt(es, p + k)
  BY SequenceFacts, PositionFacts
<1>2. p \in Nat /\ es.last.index \in Nat /\ n = es.last.index - p
  BY GoodFacts DEF Length
<1>3. \A i \in p + 1 .. es.last.index : S!EntryAt(q, i) = EntryAt(es, i)
  <2> TAKE i \in p + 1 .. es.last.index
  <2>1. i - p \in 1 .. n /\ p + (i - p) = i  BY <1>2
  <2>2. q.ents[i - p] = EntryAt(es, i)
    <3> HIDE DEF q, p, n
    <3> QED  BY <1>1, <2>1
  <2> QED  BY <1>1, <2>2 DEF S!EntryAt
<1>4. \A i : EntryAt(es, i).kind = "Term" <=> i \in DOMAIN es.terms
  BY DEF EntryAt, R!TermEntry, R!ConfigEntry, R!CommandEntry
<1>5. \A i \in DOMAIN es.terms : i \in p + 1 .. es.last.index
  BY <1>2, GoodFacts
<1>6. bounds = DOMAIN es.terms
  <2>1. bounds = {i \in p + 1 .. es.last.index : S!EntryAt(q, i).kind = "Term"}
    BY <1>1
  <2> HIDE DEF bounds, q, p
  <2> QED  BY <1>3, <1>4, <1>5, <2>1
<1>7. \A i \in DOMAIN es.terms : EntryAt(es, i).term = es.terms[i]
  <2> TAKE i \in DOMAIN es.terms
  <2>1. i \in Nat /\ DOMAIN es.terms \subseteq Nat /\ i <= i
    /\ \A j \in DOMAIN es.terms : j <= i => j <= i
    BY GoodFacts
  <2>2. GetTerm(es, i) = es.terms[i]  BY <2>1, ValueAtKey DEF GetTerm
  <2> QED  BY <2>2 DEF EntryAt, R!TermEntry
<1>8. \A i \in bounds : S!EntryAt(q, i).term = es.terms[i]
  <2> HIDE DEF bounds, q, p
  <2> QED  BY <1>3, <1>5, <1>6, <1>7
<1> QED  BY <1>6, <1>8

\* strip_common_prefix: the cut that the loop over the map of terms finds is the one
\* that RaftLog chooses among the Term entries of the sequence.
LEMMA StripSame ==
  ASSUME NEW es, Good(es), NEW local, Good(local), Contains(local, es.prev)
  PROVE  Sequence(StripCommonPrefix(es, local))
           = S!StripCommonPrefix(Sequence(es), Sequence(local))
<1> DEFINE q == Sequence(es)
           l == Sequence(local)
           bounds == {i \in q.prev.index + 1 .. S!LastIndex(q) : S!EntryAt(q, i).kind = "Term"}
           at(i) == S!Pos(S!EntryAt(q, i).term, i)
           fresh == {i \in bounds : ~S!Contains(l, at(i))}
           unknown == {i \in DOMAIN es.terms : ~Contains(local, R!Pos(es.terms[i], i))}
           first == CHOOSE i \in unknown : \A j \in unknown : i <= j
           known == {at(i) : i \in {j \in bounds : j < first}} \cup {es.prev}
           sharedS == CHOOSE p \in known : \A o \in known : o.index <= p.index
           before == UpTo(es.terms, first - 1)
           common == IF before = {} THEN es.prev
                     ELSE R!Pos(es.terms[MaxKey(before)], MaxKey(before))
           candidate == R!Pos(common.term, first - 1)
           p0 == IF Contains(local, candidate) THEN candidate ELSE common
<1>1. q.prev = es.prev /\ l.prev = local.prev /\ S!LastPosition(l) = local.last
  BY SequenceFacts, PositionFacts
<1>2. bounds = DOMAIN es.terms /\ \A i \in bounds : S!EntryAt(q, i).term = es.terms[i]
  BY BoundsSame
<1>3. \A i \in DOMAIN es.terms : at(i) = R!Pos(es.terms[i], i)
  <2> HIDE DEF bounds, q
  <2> QED  BY <1>2 DEF R!Pos, S!Pos
<1>4. \A p : S!Contains(l, p) <=> Contains(local, p)  BY ContainsSame
<1>5. \A p : S!Contains(q, p) <=> Contains(es, p)  BY ContainsSame
<1>6. fresh = unknown
  <2> HIDE DEF bounds, at, l
  <2> QED  BY <1>2, <1>3, <1>4
<1>7. CASE es.prev = local.last
  BY <1>1, <1>7 DEF StripCommonPrefix, S!StripCommonPrefix
<1>8. CASE es.prev # local.last /\ Contains(es, local.last)
  <2>1. local.last \in Position  BY DEF Good
  <2>2. StripCommonPrefix(es, local) = Since(es, local.last)
    BY <1>8 DEF StripCommonPrefix
  <2>3. S!StripCommonPrefix(q, l) = S!Since(q, local.last)
    BY <1>1, <1>5, <1>8 DEF S!StripCommonPrefix
  <2> QED  BY <1>8, <2>1, <2>2, <2>3, SinceSame
<1>9. CASE es.prev # local.last /\ ~Contains(es, local.last) /\ unknown = {}
  <2>1. StripCommonPrefix(es, local) = es  BY <1>9 DEF StripCommonPrefix
  <2>2. S!StripCommonPrefix(q, l) = q
    <3>1. fresh = {} /\ ~S!Contains(q, S!LastPosition(l))  BY <1>1, <1>5, <1>6, <1>9
    <3> QED  BY <3>1 DEF S!StripCommonPrefix
  <2> QED  BY <2>1, <2>2
<1>10. CASE es.prev # local.last /\ ~Contains(es, local.last) /\ unknown # {}
  <2>1. StripCommonPrefix(es, local) = Since(es, p0)
    BY <1>10 DEF StripCommonPrefix
  <2>2. S!StripCommonPrefix(q, l)
          = IF S!Contains(l, S!Pos(sharedS.term, first - 1))
            THEN S!Since(q, S!Pos(sharedS.term, first - 1)) ELSE S!Since(q, sharedS)
    <3>1. fresh # {} /\ ~S!Contains(q, S!LastPosition(l))  BY <1>1, <1>5, <1>6, <1>10
    <3>2. q.prev # S!LastPosition(l)  BY <1>1, <1>10, SMTT(40)
    <3> DEFINE firstS == CHOOSE i \in fresh : \A j \in fresh : i <= j
               knownS == {at(i) : i \in {j \in bounds : j < firstS}} \cup {q.prev}
               commonS == CHOOSE p \in knownS : \A o \in knownS : o.index <= p.index
    <3>3. S!StripCommonPrefix(q, l)
            = IF S!Contains(l, S!Pos(commonS.term, firstS - 1))
              THEN S!Since(q, S!Pos(commonS.term, firstS - 1)) ELSE S!Since(q, commonS)
      BY <3>1, <3>2 DEF S!StripCommonPrefix
    <3>4. firstS = first
      <4> HIDE DEF fresh, unknown
      <4> QED  BY <1>6
    <3>5. knownS = known
      <4> HIDE DEF at, bounds, firstS, first, q
      <4> QED  BY <1>1, <3>4
    <3>6. commonS = sharedS
      <4> HIDE DEF knownS, known
      <4> QED  BY <3>5
    <3> HIDE DEF firstS, commonS, sharedS, first, q, l
    <3> QED  BY <3>3, <3>4, <3>6
  <2>3. unknown \subseteq Nat  BY GoodFacts
  <2>4. first \in unknown
    <3>1. \E i \in unknown : \A j \in unknown : i <= j
      <4> HIDE DEF unknown
      <4> QED  BY <1>10, <2>3, LeastExists
    <3> QED  BY <3>1
  <2>5. first \in Nat /\ es.prev.index < first /\ first - 1 \in Nat /\ es.prev.index \in Nat
    BY <2>3, <2>4, GoodFacts
  <2>6. known = {R!Pos(es.terms[i], i) : i \in before} \cup {es.prev}
    <3>1. \A i \in Nat : i < first <=> i <= first - 1  BY <2>5
    <3>2. {j \in bounds : j < first} = before
      <4> HIDE DEF bounds, first
      <4> QED  BY <1>2, <3>1, GoodFacts DEF UpTo
    <3>3. before \subseteq DOMAIN es.terms  BY DEF UpTo
    <3> HIDE DEF bounds, before, at
    <3> QED  BY <1>3, <3>2, <3>3
  <2>7. before \subseteq 0 .. first - 1 /\ \A k \in before : k \in DOMAIN es.terms /\ es.prev.index < k /\ k \in Nat
    <3> HIDE DEF first
    <3> QED  BY <2>5, GoodFacts DEF UpTo
  <2>8. \A i : R!Pos(es.terms[i], i).index = i  BY DEF R!Pos
  <2>9. sharedS = common
    <3>1. CASE before = {}
      <4>1. known = {es.prev} /\ common = es.prev  BY <2>6, <3>1
      <4>2. es.prev.index <= es.prev.index  BY <2>5
      <4> HIDE DEF known, common
      <4> QED  BY <4>1, <4>2
    <3>2. CASE before # {}
      <4> DEFINE m == MaxKey(before)
      <4>1. m \in before /\ \A k \in before : k <= m
        <5> HIDE DEF before, first
        <5> QED  BY <2>5, <2>7, <3>2, GreatestExists
      <4>2. common = R!Pos(es.terms[m], m)  BY <3>2
      <4> HIDE DEF common, m, before, known, first
      <4>3. common \in known /\ common.index = m  BY <2>6, <2>8, <4>1, <4>2
      <4>4. m \in Nat /\ es.prev.index < m  BY <2>7, <4>1
      <4>5. \A o \in known : o = common \/ (o.index \in Nat /\ o.index < m)
        <5> TAKE o \in known
        <5>1. CASE o = es.prev  BY <2>5, <4>4, <5>1
        <5>2. CASE \E i \in before : o = R!Pos(es.terms[i], i)
          <6>1. PICK i \in before : o = R!Pos(es.terms[i], i)  BY <5>2
          <6>2. o.index = i /\ i <= m /\ i \in Nat  BY <2>7, <2>8, <4>1, <6>1
          <6>3. i = m => o = common  BY <4>2, <6>1
          <6> QED  BY <4>4, <6>2, <6>3
        <5> QED  BY <2>6, <5>1, <5>2
      <4>6. \A o \in known : o.index <= common.index  BY <4>3, <4>4, <4>5
      <4>7. \A o \in known : common.index <= o.index => o = common  BY <4>3, <4>4, <4>5
      <4>8. sharedS \in known /\ common.index <= sharedS.index  BY <4>3, <4>6
      <4> HIDE DEF sharedS
      <4> QED  BY <4>7, <4>8
    <3> QED  BY <3>1, <3>2
  <2>10. S!Pos(sharedS.term, first - 1) = candidate
    <3> HIDE DEF sharedS, common, first
    <3> QED  BY <2>9 DEF S!Pos, R!Pos
  <2>11. S!StripCommonPrefix(q, l) = S!Since(q, p0)
    <3> HIDE DEF sharedS, common, candidate, first, q, l
    <3> QED  BY <1>4, <2>2, <2>9, <2>10, SMTT(40)
  <2>12. p0 \in Position /\ Contains(es, p0)
    <3>1. \E i \in DOMAIN es.terms : ~Contains(local, R!Pos(es.terms[i], i))  BY <1>10
    <3> QED  BY <3>1, StripPosition
  <2> HIDE DEF p0, q, l
  <2> QED  BY <2>1, <2>11, <2>12, SinceSame DEF q, l
<1> QED  BY <1>7, <1>8, <1>9, <1>10

\* handle_snapshot_installed on queued entries.
LEMMA RebaseSame ==
  ASSUME NEW es, Good(es), NEW p \in Position
  PROVE  Sequence(Rebase(es, p)) = S!RebaseEntries(Sequence(es), p)
<1>1. Sequence(es).prev = es.prev /\ (S!Contains(Sequence(es), p) <=> Contains(es, p))
  BY SequenceFacts, ContainsSame
<1>2. Sequence(New(p)) = S!NewEntries(p)  BY NewSame
<1>3. Contains(es, p) => Sequence(Since(es, p)) = S!Since(Sequence(es), p)  BY SinceSame
<1> QED  BY <1>1, <1>2, <1>3 DEF Rebase, S!RebaseEntries

\* The log after a snapshot.
LEMMA InstallSame ==
  ASSUME NEW l, Good(l.entries), NEW p \in Position, NEW c
  PROVE  SequenceOf(Install(l, p, c)) = S!InstallInLog(SequenceOf(l), p, c)
<1> DEFINE es == l.entries
<1>1. S!Contains(Sequence(es), p) <=> Contains(es, p)  BY ContainsSame
<1>2. Sequence(New(p)) = S!NewEntries(p)  BY NewSame
<1>3. Contains(es, p) => Sequence(Since(es, p)) = S!Since(Sequence(es), p)  BY SinceSame
<1>4. SequenceOf(l).entries = Sequence(es)  BY DEF SequenceOf
<1>5. SequenceOf(Install(l, p, c))
        = [snapshot_config |-> c,
           entries |-> Sequence(IF Contains(es, p) THEN Since(es, p) ELSE New(p))]
  BY DEF SequenceOf, Install
<1> HIDE DEF es
<1>6. S!InstallInLog(SequenceOf(l), p, c)
        = [snapshot_config |-> c,
           entries |-> IF S!Contains(Sequence(es), p) THEN S!Since(Sequence(es), p)
                       ELSE S!NewEntries(p)]
  BY <1>4 DEF S!InstallInLog
<1> QED  BY <1>1, <1>2, <1>3, <1>5, <1>6

-----------------------------------------------------------------------------
(* The steps. *)

\* Every result of a method is, as a sequence, a result of the method of RaftLog.
Maps(results, abstract) == \A r \in results : Sequence(r) \in abstract

\* push_back of every entry a leader may push.
LEMMA PushesMap ==
  ASSUME NEW es, Good(es)
  PROVE  Maps(Pushes(es), S!Pushes(Sequence(es)))
<1> SUFFICES ASSUME NEW r \in Pushes(es) PROVE Sequence(r) \in S!Pushes(Sequence(es))
  BY DEF Maps
<1> DEFINE q == Sequence(es)
           t == es.last.term
           entries == {Term(u) : u \in {v \in 1 .. MaxTerm : v > t}}
                        \cup {Command} \cup {ClusterConfig(c) : c \in Configs}
           abstract == {S!TermEntry(u) : u \in {v \in 1 .. MaxTerm : v > t}}
                         \cup {S!CommandEntry(t)} \cup {S!ConfigEntry(t, c) : c \in Configs}
<1>1. es.last.index < MaxIndex /\ \E e \in entries : r = Push(es, e)  BY DEF Pushes
<1>2. PICK e \in entries : r = Push(es, e)  BY <1>1
<1>3. e.kind = "Term" => e.term \in Nat
  BY LogBounds DEF Term, Command, ClusterConfig
<1> DEFINE x == EntryAt(Push(es, e), es.last.index + 1)
<1>4. x \in abstract
  <2>1. CASE \E u \in {v \in 1 .. MaxTerm : v > t} : e = Term(u)
    <3>1. PICK u \in {v \in 1 .. MaxTerm : v > t} : e = Term(u)  BY <2>1
    <3>2. e.kind = "Term" /\ e.term = u  BY <3>1 DEF Term
    <3>3. x = S!TermEntry(u)  BY <1>3, <3>2, PushedEntry
    <3> HIDE DEF x, t
    <3> QED  BY <3>3
  <2>2. CASE e = Command
    <3>1. e.kind = "Command"  BY <2>2 DEF Command
    <3>2. x = S!CommandEntry(t)  BY <1>3, <3>1, PushedEntry
    <3> HIDE DEF x, t
    <3> QED  BY <3>2
  <2>3. CASE \E c \in Configs : e = ClusterConfig(c)
    <3>1. PICK c \in Configs : e = ClusterConfig(c)  BY <2>3
    <3>2. e.kind = "ClusterConfig" /\ e.config = c  BY <3>1 DEF ClusterConfig
    <3>3. x = S!ConfigEntry(t, c)  BY <1>3, <3>2, PushedEntry
    <3> HIDE DEF x, t
    <3> QED  BY <3>3
  <2> QED  BY <2>1, <2>2, <2>3
<1>5. Sequence(r) = S!Push(q, x)  BY <1>2, <1>3, PushAppends
<1>6. S!LastPosition(q).term = t /\ S!LastIndex(q) = es.last.index  BY PositionFacts
<1>7. S!Pushes(q) = {S!Push(q, e1) : e1 \in abstract}
  <2> HIDE DEF q, t
  <2> QED  BY <1>1, <1>6 DEF S!Pushes, t
<1> HIDE DEF x, abstract, q
<1> QED  BY <1>4, <1>5, <1>7 DEF q

\* truncate, since and a rebase at every argument.
LEMMA ResultsMap ==
  ASSUME NEW es, Good(es)
  PROVE  /\ Maps(Truncations(es), S!Truncations(Sequence(es)))
         /\ Maps(Suffixes(es), S!Suffixes(Sequence(es)))
         /\ Maps(Rebased(es), S!Rebased(Sequence(es)))
<1>0. S!Positions = Positions  BY DEF S!Positions, Positions
<1>1. Maps(Truncations(es), S!Truncations(Sequence(es)))
  <2> SUFFICES ASSUME NEW r \in Truncations(es) PROVE Sequence(r) \in S!Truncations(Sequence(es))
    BY DEF Maps
  <2>1. PICK n \in 0 .. MaxIndex : r = Truncate(es, n)  BY DEF Truncations
  <2>2. n \in Nat  BY LogBounds
  <2>3. Sequence(r) = S!Truncate(Sequence(es), n)  BY <2>1, <2>2, TruncateSame
  <2> QED  BY <2>3 DEF S!Truncations
<1>2. Maps(Suffixes(es), S!Suffixes(Sequence(es)))
  <2> SUFFICES ASSUME NEW r \in Suffixes(es) PROVE Sequence(r) \in S!Suffixes(Sequence(es))
    BY DEF Maps
  <2>1. PICK p \in Positions : Contains(es, p) /\ r = Since(es, p)  BY DEF Suffixes
  <2>2. p \in Position /\ S!Contains(Sequence(es), p)
    BY <2>1, PositionsArePositions, ContainsSame
  <2>3. Sequence(r) = S!Since(Sequence(es), p)  BY <2>1, <2>2, SinceSame
  <2> QED  BY <1>0, <2>2, <2>3 DEF S!Suffixes
<1>3. Maps(Rebased(es), S!Rebased(Sequence(es)))
  <2> SUFFICES ASSUME NEW r \in Rebased(es) PROVE Sequence(r) \in S!Rebased(Sequence(es))
    BY DEF Maps
  <2>1. PICK p \in Positions : r = Rebase(es, p)  BY DEF Rebased
  <2>2. Sequence(r) = S!RebaseEntries(Sequence(es), p)
    BY <2>1, PositionsArePositions, RebaseSame
  <2> QED  BY <1>0, <2>2 DEF S!Rebased
<1> QED  BY <1>1, <1>2, <1>3

\* An append of a leader's entries, whole or as a delta.
LEMMA AppendsMap ==
  ASSUME NEW es, Good(es), NEW more, Good(more)
  PROVE  /\ Maps(Appends(es, more), S!Appends(Sequence(es), Sequence(more)))
         /\ Maps(DeltaAppends(es, more), S!DeltaAppends(Sequence(es), Sequence(more)))
<1>1. /\ Sequence(more).prev = more.prev
      /\ S!LastPosition(Sequence(more)) = more.last
      /\ \A p : S!Contains(Sequence(es), p) <=> Contains(es, p)
  BY SequenceFacts, PositionFacts, ContainsSame
<1>2. Maps(Appends(es, more), S!Appends(Sequence(es), Sequence(more)))
  <2>1. Contains(es, more.prev)
          => Sequence(AppendUnchecked(es, more)) = S!AppendUnchecked(Sequence(es), Sequence(more))
    BY AppendSame
  <2>2. Sequence(AppendSuffix(es, more)) = S!AppendSuffix(Sequence(es), Sequence(more))
    BY <1>1, <2>1 DEF AppendSuffix, S!AppendSuffix
  <2> QED  BY <2>2 DEF Maps, Appends, S!Appends
<1>3. Maps(DeltaAppends(es, more), S!DeltaAppends(Sequence(es), Sequence(more)))
  <2> SUFFICES ASSUME NEW r \in DeltaAppends(es, more)
               PROVE  Sequence(r) \in S!DeltaAppends(Sequence(es), Sequence(more))
    BY DEF Maps
  <2> DEFINE d == StripCommonPrefix(more, es)
  <2>1. Contains(es, more.prev) /\ ~Contains(es, more.last) /\ r = AppendUnchecked(es, d)
    BY DEF DeltaAppends
  <2>2. Good(d) /\ Contains(es, d.prev)  BY <2>1, GoodStripCommonPrefix
  <2>3. Sequence(d) = S!StripCommonPrefix(Sequence(more), Sequence(es))
    BY <2>1, StripSame
  <2> HIDE DEF d
  <2>4. Sequence(r) = S!AppendUnchecked(Sequence(es), Sequence(d))
    BY <2>1, <2>2, AppendSame
  <2> QED  BY <1>1, <2>1, <2>3, <2>4 DEF S!DeltaAppends
<1> QED  BY <1>2, <1>3

\* A step of the node's log maps to one of its sequence.
LEMMA LocalMaps ==
  ASSUME IInv, NEW results, NEW abstract, Maps(results, abstract), Local(results)
  PROVE  S!Local(abstract)
<1>1. PICK r \in results : log' = [log EXCEPT !.entries = r]  BY DEF Local
<1>2. log' = [snapshot_config |-> log.snapshot_config, entries |-> r]  BY <1>1 DEF IInv
<1>3. SequenceOf(log)' = [SequenceOf(log) EXCEPT !.entries = Sequence(r)]
  BY <1>2 DEF SequenceOf
<1>4. Sequence(r) \in abstract  BY DEF Maps
<1>5. Sequence(remote)' = Sequence(remote)  BY DEF Local
<1> QED  BY <1>3, <1>4, <1>5 DEF S!Local

\* A step of the leader's entries maps to one of their sequence.
LEMMA RemoteMaps ==
  ASSUME NEW results, NEW abstract, Maps(results, abstract), Remote(results)
  PROVE  S!Remote(abstract)
<1>1. Sequence(remote)' \in abstract  BY DEF Maps, Remote
<1>2. SequenceOf(log)' = SequenceOf(log)  BY DEF Remote
<1> QED  BY <1>1, <1>2 DEF S!Remote

\* The empty log maps to the empty log.
LEMMA InitMaps == Init => S!Init
<1> SUFFICES ASSUME Init PROVE S!Init  OBVIOUS
<1>1. R!ZERO \in Position /\ R!ZERO = S!ZERO  BY DEF R!ZERO, S!ZERO, R!Pos, S!Pos, Position
<1>2. Sequence(New(R!ZERO)) = S!NewEntries(S!ZERO)  BY <1>1, NewSame
<1>3. R!EmptyConfig = S!EmptyConfig  BY DEF R!EmptyConfig, S!EmptyConfig
<1>4. SequenceOf(log) = [snapshot_config |-> R!EmptyConfig, entries |-> Sequence(New(R!ZERO))]
  BY DEF Init, SequenceOf
<1> QED  BY <1>2, <1>3, <1>4 DEF Init, S!Init, S!EmptyLog

\* Every step maps to the step of the same name, or to none.
LEMMA NextMaps == IInv /\ [Next]_vars => [S!Next]_(S!vars)
<1> SUFFICES ASSUME IInv, [Next]_vars PROVE [S!Next]_(S!vars)  OBVIOUS
<1> DEFINE es == log.entries
<1>1. Good(es) /\ Good(remote) /\ SequenceOf(log).entries = Sequence(es)
  BY DEF IInv, SequenceOf
<1> HIDE DEF es
<1>2. CASE PushEntry
  <2>1. S!PushEntry
    BY <1>1, <1>2, PushesMap, LocalMaps, RemoteMaps DEF PushEntry, S!PushEntry, es
  <2> QED  BY <2>1 DEF S!Next
<1>3. CASE TruncateEntries
  <2>1. S!TruncateEntries
    BY <1>1, <1>3, ResultsMap, LocalMaps, RemoteMaps DEF TruncateEntries, S!TruncateEntries, es
  <2> QED  BY <2>1 DEF S!Next
<1>4. CASE CopyEntries
  <2>1. Maps({es}, {Sequence(es)})  BY DEF Maps
  <2>2. S!CopyEntries
    BY <1>1, <1>4, <2>1, RemoteMaps DEF CopyEntries, S!CopyEntries, es
  <2> QED  BY <2>2 DEF S!Next
<1>5. CASE DropPrefix
  <2>1. S!DropPrefix
    BY <1>1, <1>5, ResultsMap, RemoteMaps DEF DropPrefix, S!DropPrefix
  <2> QED  BY <2>1 DEF S!Next
<1>6. CASE RebaseQueued
  <2>1. S!RebaseQueued
    BY <1>1, <1>6, ResultsMap, RemoteMaps DEF RebaseQueued, S!RebaseQueued
  <2> QED  BY <2>1 DEF S!Next
<1>7. CASE AppendAll
  <2>1. S!AppendAll
    BY <1>1, <1>7, AppendsMap, LocalMaps DEF AppendAll, S!AppendAll, es
  <2> QED  BY <2>1 DEF S!Next
<1>8. CASE AppendDelta
  <2>1. S!AppendDelta
    BY <1>1, <1>8, AppendsMap, LocalMaps DEF AppendDelta, S!AppendDelta, es
  <2> QED  BY <2>1 DEF S!Next
<1>9. CASE InstallSnapshot
  <2>1. PICK p \in Positions, c \in Configs : log' = Install(log, p, c)
    BY <1>9 DEF InstallSnapshot, Installs
  <2>2. p \in Position /\ p \in S!Positions
    BY PositionsArePositions DEF S!Positions, Positions
  <2>3. SequenceOf(log)' = S!InstallInLog(SequenceOf(log), p, c)
    <3>1. SequenceOf(log)' = SequenceOf(Install(log, p, c))  BY <2>1 DEF SequenceOf
    <3> QED  BY <1>1, <2>2, <3>1, InstallSame DEF es
  <2>4. Sequence(remote)' = Sequence(remote)  BY <1>9 DEF InstallSnapshot
  <2>5. S!InstallSnapshot
    BY <2>2, <2>3, <2>4 DEF S!InstallSnapshot, S!Installs
  <2> QED  BY <2>5 DEF S!Next
<1>10. CASE UNCHANGED vars
  <2>1. SequenceOf(log)' = SequenceOf(log) /\ Sequence(remote)' = Sequence(remote)
    BY <1>10 DEF vars
  <2> QED  BY <2>1 DEF S!vars
<1> QED  BY <1>2, <1>3, <1>4, <1>5, <1>6, <1>7, <1>8, <1>9, <1>10 DEF Next

\* Whatever is done to a compact log, its entries change as RaftLog says: what the models
\* of the node and of the cluster conclude of sequences holds of the maps in the code.
THEOREM CompactLogImplementsSequences == Spec => ImplementsSequences
BY InitIInv, NextIInv, InitMaps, NextMaps, PTL DEF Spec, ImplementsSequences, S!Spec

-----------------------------------------------------------------------------
(* What strip_common_prefix drops. *)

\* After a position that both logs contain, the entries that follow in es replace those
\* of local: where the logs match it makes no difference whether the ones up to that
\* position are appended too.
LEMMA SinceAppendsSame ==
  ASSUME NEW es, Good(es), NEW local, Good(local), Contains(local, es.prev), Match(local, es),
         NEW q \in Position, Contains(es, q), Contains(local, q)
  PROVE  Sequence(AppendUnchecked(local, Since(es, q))) = Sequence(AppendUnchecked(local, es))
<1> DEFINE more == Since(es, q)
           r == AppendUnchecked(local, more)
           s == AppendUnchecked(local, es)
<1>1. Good(more) /\ more.prev = q /\ more.last = es.last
  BY GoodSince DEF Since
<1>2. /\ r.prev = local.prev /\ r.last = es.last
      /\ s.prev = local.prev /\ s.last = es.last
  BY <1>1 DEF AppendUnchecked
<1>3. Good(r) /\ Good(s)
  BY <1>1, GoodAppendUnchecked
<1>4. /\ es.prev.index \in Nat /\ local.prev.index \in Nat /\ es.last.index \in Nat
      /\ local.last.index \in Nat /\ q.index \in Nat
      /\ local.prev.index <= es.prev.index /\ es.prev.index <= q.index
      /\ q.index <= es.last.index /\ q.index <= local.last.index
  BY GoodFacts DEF Contains, ContainsIndex, Position
<1>5. \A i \in Nat : EntryAt(more, i) = EntryAt(es, i) \/ i <= q.index
  <2> SUFFICES ASSUME NEW i \in Nat, ~(i <= q.index) PROVE EntryAt(more, i) = EntryAt(es, i)
    OBVIOUS
  <2>1. q.index <= i /\ i >= q.index + 1
    BY <1>4
  <2>2. GetTerm(more, i) = GetTerm(es, i)
    BY <2>1, GetTermSince
  <2>3. /\ i \in DOMAIN more.terms <=> i \in DOMAIN es.terms
        /\ i \in DOMAIN more.configs <=> i \in DOMAIN es.configs
        /\ i \in DOMAIN more.configs => more.configs[i] = es.configs[i]
    BY <2>1 DEF Since, From
  <2> HIDE DEF more
  <2> QED
    BY <2>2, <2>3, EntryAtSame
<1>6. \A i \in Nat : es.prev.index < i /\ i <= q.index => EntryAt(local, i) = EntryAt(es, i)
  <2> SUFFICES ASSUME NEW i \in Nat, es.prev.index < i, i <= q.index
               PROVE  EntryAt(local, i) = EntryAt(es, i)
    OBVIOUS
  <2> DEFINE shared == {j \in local.prev.index + 1 .. local.last.index :
                          (j > local.prev.index /\ j > es.prev.index) /\ j <= es.last.index}
  <2>1. i \in shared /\ q.index \in shared
    BY <1>4
  <2>2. GetTerm(local, q.index) = GetTerm(es, q.index)
    BY DEF Contains
  <2> QED
    BY <2>1, <2>2 DEF Match
<1>7. \A i \in Nat : EntryAt(r, i) = EntryAt(s, i) \/ ~(local.prev.index < i)
  <2> SUFFICES ASSUME NEW i \in Nat PROVE EntryAt(r, i) = EntryAt(s, i)
    OBVIOUS
  <2>1. EntryAt(r, i) = IF i <= q.index THEN EntryAt(local, i) ELSE EntryAt(more, i)
    BY <1>1, AppendKeys
  <2>2. EntryAt(s, i) = IF i <= es.prev.index THEN EntryAt(local, i) ELSE EntryAt(es, i)
    BY AppendKeys
  <2> HIDE DEF r, s, more
  <2> QED
    BY <1>4, <1>5, <1>6, <2>1, <2>2
<1>8. Length(r) = Length(s) /\ Length(r) \in Nat
  BY <1>2, <1>3, GoodFacts DEF Length
<1>9. \A k \in 1 .. Length(r) : EntryAt(r, r.prev.index + k) = EntryAt(s, s.prev.index + k)
  <2> TAKE k \in 1 .. Length(r)
  <2> HIDE DEF r, s, more
  <2>1. r.prev.index + k \in Nat /\ local.prev.index < r.prev.index + k
    BY <1>2, <1>4, <1>8
  <2> QED
    BY <1>2, <1>7, <2>1
<1> HIDE DEF r, s, more
<1> QED
  BY <1>2, <1>8, <1>9 DEF Sequence, r, s, more

\* Appending the delta gives the sequence that appending everything gives.
LEMMA StripAppendsSame ==
  ASSUME NEW es, Good(es), NEW local, Good(local), Contains(local, es.prev), Match(local, es)
  PROVE  Sequence(AppendUnchecked(local, StripCommonPrefix(es, local)))
           = Sequence(AppendUnchecked(local, es))
<1> DEFINE r == StripCommonPrefix(es, local)
           unknown == {i \in DOMAIN es.terms : ~Contains(local, R!Pos(es.terms[i], i))}
           first == CHOOSE i \in unknown : \A j \in unknown : i <= j
           before == UpTo(es.terms, first - 1)
           common == IF before = {} THEN es.prev
                     ELSE R!Pos(es.terms[MaxKey(before)], MaxKey(before))
           candidate == R!Pos(common.term, first - 1)
<1>1. CASE r = es
  <2> HIDE DEF r
  <2>1. Sequence(AppendUnchecked(local, r)) = Sequence(AppendUnchecked(local, es))
    BY <1>1
  <2> QED  BY <2>1 DEF r
<1>2. CASE Contains(es, local.last) /\ r = Since(es, local.last)
  <2>1. local.last \in Position  BY DEF Good
  <2>2. Contains(local, local.last)  BY ContainsEnds
  <2>3. Sequence(AppendUnchecked(local, Since(es, local.last)))
          = Sequence(AppendUnchecked(local, es))
    BY <1>2, <2>1, <2>2, SinceAppendsSame
  <2> HIDE DEF r
  <2>4. Sequence(AppendUnchecked(local, r)) = Sequence(AppendUnchecked(local, es))
    BY <1>2, <2>3
  <2> QED  BY <2>4 DEF r
<1>3. CASE unknown # {} /\ r = Since(es, IF Contains(local, candidate) THEN candidate ELSE common)
  <2> DEFINE q == IF Contains(local, candidate) THEN candidate ELSE common
  <2>1. r = Since(es, q)  BY <1>3
  <2>2. unknown # {} <=> \E i \in DOMAIN es.terms : ~Contains(local, R!Pos(es.terms[i], i))
    BY SMTT(40)
  <2>3. q \in Position /\ Contains(es, q) /\ Contains(local, q)
    BY <1>3, <2>2, StripPosition
  <2> HIDE DEF q
  <2>4. Sequence(AppendUnchecked(local, Since(es, q))) = Sequence(AppendUnchecked(local, es))
    BY <2>3, SinceAppendsSame
  <2> HIDE DEF r
  <2>5. Sequence(AppendUnchecked(local, r)) = Sequence(AppendUnchecked(local, es))
    BY <2>1, <2>4
  <2> QED  BY <2>5 DEF r
<1> QED  BY <1>1, <1>2, <1>3 DEF StripCommonPrefix

\* A leader may strip by Term boundaries alone what the follower's log seems to have: in
\* logs that match, appending what is left makes the same log as appending everything.
THEOREM StrippingLosesNothing == Spec => []StripLosesNothing
<1>1. IInv => StripLosesNothing
  BY StripAppendsSame DEF IInv, StripLosesNothing
<1> QED  BY InitIInv, NextIInv, <1>1, PTL DEF Spec

-----------------------------------------------------------------------------
(* Iteration and the queries. *)

\* Two sequences that start alike and go on alike are alike.
LEMMA SameByRecursion ==
  ASSUME NEW n \in Nat, NEW f, NEW g, f[0] = g[0],
         \A k \in 1 .. n : f[k - 1] = g[k - 1] => f[k] = g[k]
  PROVE  \A k \in 0 .. n : f[k] = g[k]
<1> SUFFICES ASSUME NEW k0 \in 0 .. n, f[k0] # g[k0] PROVE FALSE  OBVIOUS
<1> DEFINE K == {k \in 0 .. n : f[k] # g[k]}
<1>1. K \subseteq Nat /\ K # {}  OBVIOUS
<1>2. PICK m \in K : \A k \in K : m <= k  BY <1>1, LeastExists
<1>3. m \in 0 .. n /\ f[m] # g[m]  OBVIOUS
<1>4. m \in 1 .. n  BY <1>3
<1>5. m - 1 \in 0 .. n /\ ~(m <= m - 1)  BY <1>4
<1>6. m - 1 \notin K  BY <1>2, <1>5
<1>7. f[m - 1] = g[m - 1]  BY <1>5, <1>6
<1> QED  BY <1>3, <1>4, <1>7

\* At a Term entry, get_term finds its term.
LEMMA GetTermAtKey ==
  ASSUME NEW es, Good(es), NEW i \in DOMAIN es.terms
  PROVE  GetTerm(es, i) = es.terms[i]
<1>1. DOMAIN es.terms \subseteq Nat  BY GoodFacts
<1>2. i \in Nat /\ i <= i /\ \A j \in DOMAIN es.terms : j <= i => j <= i  BY <1>1
<1> QED  BY <1>1, <1>2, ValueAtKey DEF GetTerm

\* At any other entry, it finds the term of the entry before.
LEMMA GetTermElsewhere ==
  ASSUME NEW es, Good(es), NEW i \in Nat, i > 0, i \notin DOMAIN es.terms
  PROVE  GetTerm(es, i) = GetTerm(es, i - 1)
<1>1. DOMAIN es.terms \subseteq Nat  BY GoodFacts
<1>2. i - 1 \in Nat  OBVIOUS
<1>3. CASE \E j \in DOMAIN es.terms : j <= i
  <2> DEFINE f == es.terms
             l == i - 1
             d == es.prev.term
  <2>1. DOMAIN f \subseteq Nat /\ l \in Nat  BY <1>1, <1>2
  <2>2. \A j \in DOMAIN f : j <= i <=> j <= l  BY <1>1
  <2>3. \E j \in DOMAIN f : j <= i  BY <1>3
  <2> HIDE DEF f, l, d
  <2>4. PICK k \in DOMAIN f : k <= i /\ \A j \in DOMAIN f : j <= i => j <= k
    BY <2>1, <2>3, LastKeyExists
  <2>5. k <= l /\ \A j \in DOMAIN f : j <= l => j <= k  BY <2>2, <2>4
  <2>6. ValueAt(f, i, d) = f[k]  BY <2>1, <2>4, ValueAtKey
  <2>7. ValueAt(f, l, d) = f[k]  BY <2>1, <2>5, ValueAtKey
  <2>8. ValueAt(f, i, d) = ValueAt(f, l, d)  BY <2>6, <2>7
  <2> QED  BY <2>8 DEF f, l, d, GetTerm
<1>4. CASE \A j \in DOMAIN es.terms : ~(j <= i)
  <2>1. \A j \in DOMAIN es.terms : ~(j <= i - 1)  BY <1>1, <1>4
  <2>2. GetTerm(es, i) = es.prev.term  BY <1>4, ValueAtNone DEF GetTerm
  <2>3. GetTerm(es, i - 1) = es.prev.term  BY <2>1, ValueAtNone DEF GetTerm
  <2> QED  BY <2>2, <2>3
<1> QED  BY <1>3, <1>4

\* What get_entry gives is the entry of the sequence without its term.
LEMMA EntryKinds ==
  ASSUME NEW es, Good(es), NEW i
  PROVE  /\ GetEntry(es, i).kind = EntryAt(es, i).kind
         /\ GetEntry(es, i).kind = "Term" <=> i \in DOMAIN es.terms
         /\ GetEntry(es, i).kind = "Term" => GetEntry(es, i).term = es.terms[i]
         /\ GetEntry(es, i).kind = "ClusterConfig" <=> i \in DOMAIN es.configs
         /\ GetEntry(es, i).kind = "ClusterConfig"
              => GetEntry(es, i).config = es.configs[i] /\ EntryAt(es, i).config = es.configs[i]
         /\ GetEntry(es, i).kind \in {"Term", "ClusterConfig", "Command"}
         /\ EntryAt(es, i).term = GetTerm(es, i)
<1>1. \A k \in DOMAIN es.terms : k \notin DOMAIN es.configs  BY GoodFacts
<1>2. CASE i \in DOMAIN es.terms
  BY <1>1, <1>2 DEF GetEntry, EntryAt, Term, R!TermEntry
<1>3. CASE i \notin DOMAIN es.terms /\ i \in DOMAIN es.configs
  BY <1>3 DEF GetEntry, EntryAt, ClusterConfig, R!ConfigEntry
<1>4. CASE i \notin DOMAIN es.terms /\ i \notin DOMAIN es.configs
  BY <1>4 DEF GetEntry, EntryAt, Command, R!CommandEntry
<1> QED  BY <1>2, <1>3, <1>4

\* The terms that iteration carries along.
Carried(es) ==
  CHOOSE g : g = [k \in 0 .. Length(es) |->
                    IF k = 0 THEN es.prev.term
                    ELSE IF GetEntry(es, es.prev.index + k).kind = "Term"
                    THEN GetEntry(es, es.prev.index + k).term
                    ELSE g[k - 1]]

\* They are those that get_term finds.
LEMMA CarriedIs ==
  ASSUME NEW es, Good(es)
  PROVE  \A k \in 0 .. Length(es) : Carried(es)[k] = GetTerm(es, es.prev.index + k)
<1> DEFINE n == Length(es)
           p == es.prev.index
           E(k) == GetEntry(es, p + k)
           T == [k \in 0 .. n |-> GetTerm(es, p + k)]
           g == Carried(es)
<1>1. n \in Nat /\ p \in Nat  BY GoodFacts DEF Length
<1>2. \A k \in 1 .. n : GetTerm(es, p + k)
                          = IF E(k).kind = "Term" THEN E(k).term ELSE GetTerm(es, p + (k - 1))
  <2> TAKE k \in 1 .. n
  <2>1. p + k \in Nat /\ p + k > 0 /\ p + (k - 1) = (p + k) - 1  BY <1>1
  <2>2. CASE p + k \in DOMAIN es.terms
    BY <2>2, GetTermAtKey, EntryKinds
  <2>3. CASE p + k \notin DOMAIN es.terms
    <3>1. GetTerm(es, p + k) = GetTerm(es, (p + k) - 1)
      <4> HIDE DEF p
      <4> QED  BY <2>1, <2>3, GetTermElsewhere
    <3>2. E(k).kind # "Term"  BY <2>3, EntryKinds
    <3> QED  BY <2>1, <3>1, <3>2
  <2> QED  BY <2>2, <2>3
<1>3. GetTerm(es, p + 0) = es.prev.term
  <2>1. p + 0 = p  BY <1>1
  <2> QED  BY <2>1, GetTermAtPrev
<1>4. T = [k \in 0 .. n |-> IF k = 0 THEN es.prev.term
                            ELSE IF E(k).kind = "Term" THEN E(k).term ELSE T[k - 1]]
  <2>1. \A k \in 0 .. n : GetTerm(es, p + k)
          = IF k = 0 THEN es.prev.term
            ELSE IF E(k).kind = "Term" THEN E(k).term ELSE T[k - 1]
    <3> TAKE k \in 0 .. n
    <3>1. CASE k = 0  BY <1>3, <3>1
    <3>2. CASE k # 0
      <4>1. k \in 1 .. n /\ k - 1 \in 0 .. n  BY <1>1, <3>2
      <4>2. T[k - 1] = GetTerm(es, p + (k - 1))  BY <4>1
      <4> QED  BY <1>2, <3>2, <4>1, <4>2
    <3> QED  BY <3>1, <3>2
  <2> QED  BY <2>1
<1>5. g = [k \in 0 .. n |-> IF k = 0 THEN es.prev.term
                            ELSE IF E(k).kind = "Term" THEN E(k).term ELSE g[k - 1]]
  <2> HIDE DEF n, p, E, T
  <2> QED  BY <1>4 DEF Carried, n, p, E
<1>6. \A k \in 0 .. n : g[k] = T[k]
  <2>1. g[0] = T[0]
    <3>1. 0 \in 0 .. n  BY <1>1
    <3>2. g[0] = es.prev.term
      <4> HIDE DEF g, n, p, E
      <4> QED  BY <1>5, <3>1
    <3>3. T[0] = es.prev.term
      <4> HIDE DEF T, n, p, E
      <4> QED  BY <1>4, <3>1
    <3> QED  BY <3>2, <3>3
  <2>2. \A k \in 1 .. n : g[k - 1] = T[k - 1] => g[k] = T[k]
    <3> TAKE k \in 1 .. n
    <3>1. k \in 0 .. n /\ k # 0  BY <1>1
    <3>2. g[k] = IF E(k).kind = "Term" THEN E(k).term ELSE g[k - 1]
      <4> HIDE DEF g, E
      <4> QED  BY <1>5, <3>1
    <3>3. T[k] = IF E(k).kind = "Term" THEN E(k).term ELSE T[k - 1]
      <4> HIDE DEF T, E
      <4> QED  BY <1>4, <3>1
    <3> QED  BY <3>2, <3>3
  <2> HIDE DEF g, T, n
  <2> QED  BY <1>1, <2>1, <2>2, SameByRecursion
<1> QED  BY <1>6

\* iter_with_positions yields the entries with the terms that get_term finds.
LEMMA IterIs ==
  ASSUME NEW es, Good(es)
  PROVE  \A k \in 1 .. Length(es) :
           /\ IterWithPositions(es)[k].position
                = R!Pos(GetTerm(es, es.prev.index + k), es.prev.index + k)
           /\ IterWithPositions(es)[k].entry = GetEntry(es, es.prev.index + k)
<1>1. IterWithPositions(es)
        = [k \in 1 .. Length(es) |-> [position |-> R!Pos(Carried(es)[k], es.prev.index + k),
                                      entry |-> GetEntry(es, es.prev.index + k)]]
  BY DEF IterWithPositions, Carried
<1>2. \A k \in 1 .. Length(es) : k \in 0 .. Length(es)  BY GoodFacts DEF Length
<1> QED  BY <1>1, <1>2, CarriedIs

-----------------------------------------------------------------------------
(* Building a log from its entries. *)

\* The two maps are functions, and a LogEntries has the four fields.
Shaped(es) ==
  /\ es = [prev |-> es.prev, last |-> es.last, terms |-> es.terms, configs |-> es.configs]
  /\ es.terms = [i \in DOMAIN es.terms |-> es.terms[i]]
  /\ es.configs = [i \in DOMAIN es.configs |-> es.configs[i]]

\* The first k entries.
First(es, k) ==
  [prev |-> es.prev,
   last |-> R!Pos(GetTerm(es, es.prev.index + k), es.prev.index + k),
   terms |-> SplitOff(es.terms, es.prev.index + k + 1),
   configs |-> SplitOff(es.configs, es.prev.index + k + 1)]

\* A map up to a key is the one up to the key before it, with the key if it has that.
LEMMA SplitOffNext ==
  ASSUME NEW f, DOMAIN f \subseteq Nat, NEW i \in Nat
  PROVE  /\ i \in DOMAIN f => SplitOff(f, i + 1) = Insert(SplitOff(f, i), i, f[i])
         /\ i \notin DOMAIN f => SplitOff(f, i + 1) = SplitOff(f, i)
<1>1. \A j \in DOMAIN f : j < i + 1 <=> (j < i \/ j = i)  OBVIOUS
<1>2. CASE i \in DOMAIN f
  <2>1. {k \in DOMAIN f : k < i + 1} = {k \in DOMAIN f : k < i} \cup {i}  BY <1>1, <1>2
  <2>2. \A j \in {k \in DOMAIN f : k < i + 1} :
          f[j] = IF j = i THEN f[i] ELSE SplitOff(f, i)[j]
    <3> SUFFICES ASSUME NEW j \in DOMAIN f, j < i + 1, j # i PROVE f[j] = SplitOff(f, i)[j]
      OBVIOUS
    <3>1. j \in {k \in DOMAIN f : k < i}  BY <1>1
    <3> QED  BY <3>1 DEF SplitOff
  <2>3. DOMAIN SplitOff(f, i) = {k \in DOMAIN f : k < i}  BY DEF SplitOff
  <2> QED  BY <1>2, <2>1, <2>2, <2>3 DEF SplitOff, Insert
<1>3. CASE i \notin DOMAIN f
  <2>1. {k \in DOMAIN f : k < i + 1} = {k \in DOMAIN f : k < i}  BY <1>1, <1>3
  <2> QED  BY <1>3, <2>1 DEF SplitOff
<1> QED  BY <1>2, <1>3

\* Pushing the next entry on the first ones gives one more of them.
LEMMA PushNext ==
  ASSUME NEW es, Good(es), NEW k \in 1 .. Length(es)
  PROVE  Push(First(es, k - 1), GetEntry(es, es.prev.index + k)) = First(es, k)
<1> DEFINE i == es.prev.index + k
           e == GetEntry(es, i)
           a == First(es, k - 1)
<1>1. es.prev.index \in Nat /\ Length(es) \in Nat  BY GoodFacts DEF Length
<1>2. i \in Nat /\ i > 0 /\ es.prev.index + (k - 1) = i - 1 /\ es.prev.index + (k - 1) + 1 = i
  BY <1>1
<1>3. /\ a.prev = es.prev /\ a.last = R!Pos(GetTerm(es, i - 1), i - 1)
      /\ a.terms = SplitOff(es.terms, i) /\ a.configs = SplitOff(es.configs, i)
  BY <1>2 DEF First
<1>4. a.last.index + 1 = i /\ a.last.term = GetTerm(es, i - 1)  BY <1>2, <1>3 DEF R!Pos
<1>5. DOMAIN es.terms \subseteq Nat /\ DOMAIN es.configs \subseteq Nat  BY GoodFacts
<1>6. First(es, k) = [prev |-> es.prev, last |-> R!Pos(GetTerm(es, i), i),
                      terms |-> SplitOff(es.terms, i + 1), configs |-> SplitOff(es.configs, i + 1)]
  BY DEF First
<1>7. /\ e.kind = "Term" <=> i \in DOMAIN es.terms
      /\ e.kind = "Term" => e.term = es.terms[i]
      /\ e.kind = "ClusterConfig" <=> i \in DOMAIN es.configs
      /\ e.kind = "ClusterConfig" => e.config = es.configs[i]
  BY EntryKinds
<1> HIDE DEF i, e, a
<1>8. R!Pos(IF e.kind = "Term" THEN e.term ELSE a.last.term, i) = R!Pos(GetTerm(es, i), i)
  BY <1>2, <1>4, <1>7, GetTermAtKey, GetTermElsewhere
<1>9. (IF e.kind = "Term" THEN Insert(a.terms, i, e.term) ELSE a.terms) = SplitOff(es.terms, i + 1)
  BY <1>2, <1>3, <1>5, <1>7, SplitOffNext
<1>10. (IF e.kind = "ClusterConfig" THEN Insert(a.configs, i, e.config) ELSE a.configs)
         = SplitOff(es.configs, i + 1)
  BY <1>2, <1>3, <1>5, <1>7, SplitOffNext
<1>11. Push(a, e) = First(es, k)  BY <1>3, <1>4, <1>6, <1>8, <1>9, <1>10 DEF Push
<1> QED  BY <1>11 DEF a, e, i

\* None of the entries are an empty log, and all of them the log.
LEMMA FirstEnds ==
  ASSUME NEW es, Good(es), Shaped(es)
  PROVE  First(es, 0) = New(es.prev) /\ First(es, Length(es)) = es
<1>1. /\ es.prev.index \in Nat /\ es.last.index \in Nat
      /\ es.prev.index + 0 = es.prev.index /\ es.prev.index + 0 + 1 = es.prev.index + 1
      /\ es.prev.index + Length(es) = es.last.index
  BY GoodFacts DEF Length
<1>2. R!Pos(es.prev.term, es.prev.index) = es.prev /\ R!Pos(es.last.term, es.last.index) = es.last
  BY DEF Good, Position, R!Pos
<1>3. \A f : (DOMAIN f \subseteq Nat /\ \A j \in DOMAIN f : es.prev.index < j)
               => SplitOff(f, es.prev.index + 1) = EmptyMap
  <2> TAKE f
  <2> HAVE DOMAIN f \subseteq Nat /\ \A j \in DOMAIN f : es.prev.index < j
  <2>1. {j \in DOMAIN f : j < es.prev.index + 1} = {}  BY <1>1
  <2> QED  BY <2>1 DEF SplitOff, EmptyMap
<1>4. \A f : (DOMAIN f \subseteq Nat /\ \A j \in DOMAIN f : j <= es.last.index)
               => SplitOff(f, es.last.index + 1) = [j \in DOMAIN f |-> f[j]]
  <2> TAKE f
  <2> HAVE DOMAIN f \subseteq Nat /\ \A j \in DOMAIN f : j <= es.last.index
  <2>1. {j \in DOMAIN f : j < es.last.index + 1} = DOMAIN f  BY <1>1
  <2> QED  BY <2>1 DEF SplitOff
<1>5. /\ SplitOff(es.terms, es.prev.index + 1) = EmptyMap
      /\ SplitOff(es.configs, es.prev.index + 1) = EmptyMap
  BY <1>3, GoodFacts
<1>6. /\ SplitOff(es.terms, es.last.index + 1) = es.terms
      /\ SplitOff(es.configs, es.last.index + 1) = es.configs
  BY <1>4, GoodFacts DEF Shaped
<1>7. First(es, 0) = New(es.prev)  BY <1>1, <1>2, <1>5, GetTermAtPrev DEF First, New
<1>8. First(es, Length(es)) = es
  <2>1. GetTerm(es, es.last.index) = es.last.term  BY GoodFacts
  <2>2. es = [prev |-> es.prev, last |-> es.last, terms |-> es.terms, configs |-> es.configs]
    BY DEF Shaped
  <2> QED  BY <1>1, <1>2, <1>6, <2>1, <2>2 DEF First
<1> QED  BY <1>7, <1>8

\* The logs that from_iter goes through.
Built(p, entries) ==
  CHOOSE g : g = [k \in 0 .. Len(entries) |-> IF k = 0 THEN New(p) ELSE Push(g[k - 1], entries[k])]

\* from_iter makes of what iteration yields the log that was iterated.
LEMMA RoundTrip ==
  ASSUME NEW es, Good(es), Shaped(es)
  PROVE  FromIter(es.prev, [k \in 1 .. Length(es) |-> IterWithPositions(es)[k].entry]) = es
<1> DEFINE n == Length(es)
           entries == [k \in 1 .. n |-> GetEntry(es, es.prev.index + k)]
           F == [k \in 0 .. n |-> First(es, k)]
           g == Built(es.prev, entries)
<1>1. [k \in 1 .. n |-> IterWithPositions(es)[k].entry] = entries  BY IterIs
<1>2. n \in Nat  BY GoodFacts DEF Length
<1>3. Len(entries) = n  BY <1>2
<1>4. \A k \in 1 .. n : First(es, k) = Push(First(es, k - 1), entries[k])  BY PushNext
<1>5. First(es, 0) = New(es.prev) /\ First(es, n) = es  BY FirstEnds
<1>6. F = [k \in 0 .. n |-> IF k = 0 THEN New(es.prev) ELSE Push(F[k - 1], entries[k])]
  <2>1. \A k \in 0 .. n : First(es, k) = IF k = 0 THEN New(es.prev) ELSE Push(F[k - 1], entries[k])
    <3> TAKE k \in 0 .. n
    <3>1. CASE k = 0  BY <1>5, <3>1
    <3>2. CASE k # 0
      <4>1. k \in 1 .. n /\ k - 1 \in 0 .. n  BY <1>2, <3>2
      <4>2. F[k - 1] = First(es, k - 1)  BY <4>1
      <4> QED  BY <1>4, <3>2, <4>1, <4>2
    <3> QED  BY <3>1, <3>2
  <2> HIDE DEF n, entries
  <2> QED  BY <2>1
<1>7. g = [k \in 0 .. n |-> IF k = 0 THEN New(es.prev) ELSE Push(g[k - 1], entries[k])]
  <2> HIDE DEF n, entries, F
  <2> QED  BY <1>3, <1>6 DEF Built
<1>8. \A k \in 0 .. n : g[k] = F[k]
  <2>1. g[0] = F[0]
    <3>1. 0 \in 0 .. n  BY <1>2
    <3>2. g[0] = New(es.prev)
      <4> HIDE DEF g, n, entries
      <4> QED  BY <1>7, <3>1
    <3>3. F[0] = New(es.prev)
      <4> HIDE DEF F, n, entries
      <4> QED  BY <1>6, <3>1
    <3> QED  BY <3>2, <3>3
  <2>2. \A k \in 1 .. n : g[k - 1] = F[k - 1] => g[k] = F[k]
    <3> TAKE k \in 1 .. n
    <3>1. k \in 0 .. n /\ k # 0  BY <1>2
    <3>2. g[k] = Push(g[k - 1], entries[k])
      <4> HIDE DEF g, entries
      <4> QED  BY <1>7, <3>1
    <3>3. F[k] = Push(F[k - 1], entries[k])
      <4> HIDE DEF F, entries
      <4> QED  BY <1>6, <3>1
    <3> QED  BY <3>2, <3>3
  <2> HIDE DEF g, F, n
  <2> QED  BY <1>2, <2>1, <2>2, SameByRecursion
<1>9. FromIter(es.prev, entries) = g[Len(entries)]  BY DEF FromIter, Built
<1>10. g[n] = es
  <2>1. n \in 0 .. n  BY <1>2
  <2>2. F[n] = First(es, n)  BY <2>1
  <2> QED  BY <1>5, <1>8, <2>1, <2>2
<1> QED  BY <1>1, <1>3, <1>9, <1>10

-----------------------------------------------------------------------------
(* The configurations. *)

\* The ClusterConfig entries up to an index are those of the map.
LEMMA ConfigsSame ==
  ASSUME NEW es, Good(es), NEW i \in es.prev.index .. es.last.index
  PROVE  LET q == Sequence(es)
             at == {j \in q.prev.index + 1 .. i : R!EntryAt(q, j).kind = "ClusterConfig"}
         IN  /\ at = UpTo(es.configs, i)
             /\ \A j \in at : R!EntryAt(q, j).config = es.configs[j]
<1> DEFINE q == Sequence(es)
           p == es.prev.index
           at == {j \in q.prev.index + 1 .. i : R!EntryAt(q, j).kind = "ClusterConfig"}
<1>1. q.prev = es.prev /\ \A k \in 1 .. Length(es) : q.ents[k] = EntryAt(es, p + k)
  BY SequenceFacts
<1>2. p \in Nat /\ es.last.index \in Nat /\ i \in Nat /\ i <= es.last.index /\ p <= i
      /\ Length(es) = es.last.index - p
  BY GoodFacts DEF Length
<1>3. \A j \in p + 1 .. i : R!EntryAt(q, j) = EntryAt(es, j)
  <2> TAKE j \in p + 1 .. i
  <2>1. j - p \in 1 .. Length(es) /\ p + (j - p) = j  BY <1>2
  <2>2. q.ents[j - p] = EntryAt(es, j)
    <3> HIDE DEF q, p
    <3> QED  BY <1>1, <2>1
  <2> QED  BY <1>1, <2>2 DEF R!EntryAt
<1>4. \A j : /\ EntryAt(es, j).kind = "ClusterConfig" <=> j \in DOMAIN es.configs
             /\ j \in DOMAIN es.configs => EntryAt(es, j).config = es.configs[j]
  BY EntryKinds
<1>5. \A j \in DOMAIN es.configs : j \in Nat /\ p < j  BY GoodFacts
<1>6. at = {j \in p + 1 .. i : j \in DOMAIN es.configs}
  <2> HIDE DEF q, p
  <2> QED  BY <1>1, <1>3, <1>4 DEF p
<1>7. {j \in p + 1 .. i : j \in DOMAIN es.configs} = {j \in DOMAIN es.configs : j <= i}
  <2> HIDE DEF p
  <2> QED  BY <1>2, <1>5
<1>8. at = UpTo(es.configs, i)  BY <1>6, <1>7 DEF UpTo
<1>9. \A j \in at : R!EntryAt(q, j).config = es.configs[j]
  <2> HIDE DEF q, p, at
  <2> QED  BY <1>3, <1>4, <1>6
<1> QED  BY <1>8, <1>9

\* get_config, latest_config and latest_config_index.
LEMMA ConfigQueriesSame ==
  ASSUME NEW l, Good(l.entries)
  PROVE  /\ \A i \in l.entries.prev.index .. l.entries.last.index :
              R!GetConfig(SequenceOf(l), i) = GetConfig(l, i)
         /\ R!LatestConfig(SequenceOf(l)) = LatestConfig(l)
         /\ R!LatestConfigIndex(SequenceOf(l)) = LatestConfigIndex(l)
<1> DEFINE es == l.entries
           q == Sequence(es)
           last == es.last.index
<1>1. SequenceOf(l).entries = q /\ SequenceOf(l).snapshot_config = l.snapshot_config
  BY DEF SequenceOf
<1>2. R!LastIndex(q) = last
  <2>1. S!LastIndex(q) = last  BY PositionFacts
  <2> QED  BY <2>1 DEF S!LastIndex, R!LastIndex
<1>3. last \in es.prev.index .. es.last.index /\ q.prev = es.prev
  <2>1. es.prev.index \in Nat /\ last \in Nat /\ es.prev.index <= last
    <3> HIDE DEF es
    <3> QED  BY GoodFacts DEF es
  <2>2. q.prev = es.prev  BY SequenceFacts
  <2> HIDE DEF q
  <2> QED  BY <2>1, <2>2
<1>4. \A i \in es.prev.index .. es.last.index : R!GetConfig(SequenceOf(l), i) = GetConfig(l, i)
  <2> TAKE i \in es.prev.index .. es.last.index
  <2> DEFINE at == {j \in q.prev.index + 1 .. i : R!EntryAt(q, j).kind = "ClusterConfig"}
             U == UpTo(es.configs, i)
  <2>1. at = U /\ \A j \in at : R!EntryAt(q, j).config = es.configs[j]
    <3> HIDE DEF es
    <3> QED  BY ConfigsSame DEF es
  <2>2. R!GetConfig(SequenceOf(l), i)
          = IF at = {} THEN l.snapshot_config
            ELSE R!EntryAt(q, CHOOSE j \in at : \A k \in at : k <= j).config
    BY <1>1 DEF R!GetConfig
  <2>3. (CHOOSE j \in at : \A k \in at : k <= j) = MaxKey(U)  BY <2>1 DEF MaxKey
  <2>4. U # {} => MaxKey(U) \in U
    <3>1. i \in Nat /\ U \subseteq 0 .. i  BY GoodFacts DEF UpTo
    <3> HIDE DEF U
    <3> QED  BY <3>1, GreatestExists
  <2>5. GetConfig(l, i) = IF U = {} THEN l.snapshot_config ELSE es.configs[MaxKey(U)]
    BY DEF GetConfig, ValueAt
  <2> HIDE DEF at, U, q, es
  <2> QED  BY <2>1, <2>2, <2>3, <2>4, <2>5
<1>5. UpTo(es.configs, last) = DOMAIN es.configs  BY GoodFacts DEF UpTo
<1>6. R!LatestConfig(SequenceOf(l)) = LatestConfig(l)
  <2>1. R!LatestConfig(SequenceOf(l)) = GetConfig(l, last)
    <3>1. R!LatestConfig(SequenceOf(l)) = R!GetConfig(SequenceOf(l), last)
      BY <1>1, <1>2 DEF R!LatestConfig
    <3> QED  BY <1>3, <1>4, <3>1
  <2> QED  BY <1>5, <2>1 DEF GetConfig, ValueAt, LatestConfig
<1>7. R!LatestConfigIndex(SequenceOf(l)) = LatestConfigIndex(l)
  <2> DEFINE at == {j \in q.prev.index + 1 .. R!LastIndex(q) : R!EntryAt(q, j).kind = "ClusterConfig"}
             b == {j \in q.prev.index + 1 .. last : R!EntryAt(q, j).kind = "ClusterConfig"}
  <2>1. at = DOMAIN es.configs
    <3>1. at = b  BY <1>2
    <3>2. b = UpTo(es.configs, last)
      <4> HIDE DEF last
      <4> QED  BY <1>3, ConfigsSame
    <3> QED  BY <1>5, <3>1, <3>2
  <2>2. R!LatestConfigIndex(SequenceOf(l))
          = IF at = {} THEN es.prev.index ELSE CHOOSE j \in at : \A k \in at : k <= j
    BY <1>1, <1>3 DEF R!LatestConfigIndex
  <2> HIDE DEF at
  <2> QED  BY <2>1, <2>2 DEF LatestConfigIndex, MaxKey
<1> QED  BY <1>4, <1>6, <1>7

\* All queries of a log agree with those of its sequence.
LEMMA QueriesSame ==
  ASSUME Good(log.entries), Shaped(log.entries)
  PROVE  QueriesAgree
<1> DEFINE es == log.entries
           l == SequenceOf(log)
           q == Sequence(es)
<1>1. \A k \in 1 .. Length(es) :
        LET it == IterWithPositions(es)[k]
            e == R!EntryAt(l.entries, it.position.index)
        IN  /\ it.position = R!Pos(e.term, es.prev.index + k)
            /\ it.entry.kind = e.kind
            /\ e.kind = "ClusterConfig" => it.entry.config = e.config
  <2> TAKE k \in 1 .. Length(es)
  <2> DEFINE i == es.prev.index + k
             it == IterWithPositions(es)[k]
             e == R!EntryAt(l.entries, it.position.index)
  <2>1. it.position = R!Pos(GetTerm(es, i), i) /\ it.entry = GetEntry(es, i)  BY IterIs
  <2>2. it.position.index = i  BY <2>1 DEF R!Pos
  <2>3. l.entries = q /\ q.prev = es.prev /\ q.ents[k] = EntryAt(es, i)
    BY SequenceFacts DEF SequenceOf
  <2>4. i - es.prev.index = k  BY GoodFacts DEF Length
  <2>5. e = EntryAt(es, i)  BY <2>2, <2>3, <2>4 DEF R!EntryAt
  <2> HIDE DEF e, i, it
  <2>6. it.position = R!Pos(e.term, i)  BY <2>1, <2>5, EntryKinds
  <2>7. it.entry.kind = e.kind /\ (e.kind = "ClusterConfig" => it.entry.config = e.config)
    BY <2>1, <2>5, EntryKinds
  <2> QED  BY <2>6, <2>7 DEF e, i, it
<1>2. FromIter(es.prev, [k \in 1 .. Length(es) |-> IterWithPositions(es)[k].entry]) = es
  BY RoundTrip
<1> QED  BY <1>1, <1>2, ConfigQueriesSame DEF QueriesAgree

-----------------------------------------------------------------------------
(* The methods keep the shape. *)

\* new, push_back, truncate, since and append_unchecked make four fields, two of them maps.
LEMMA MadeShaped ==
  /\ \A p : Shaped(New(p))
  /\ \A es, e : Shaped(es) => Shaped(Push(es, e))
  /\ \A es, n : Shaped(es) => Shaped(Truncate(es, n))
  /\ \A es, p : Shaped(Since(es, p))
  /\ \A es, more : Shaped(AppendUnchecked(es, more))
<1>1. \A p : Shaped(New(p))  BY DEF Shaped, New, EmptyMap
<1>2. \A es, e : Shaped(es) => Shaped(Push(es, e))
  <2> TAKE es, e
  <2> HAVE Shaped(es)
  <2>1. \A f, i, v : Insert(f, i, v) = [j \in DOMAIN Insert(f, i, v) |-> Insert(f, i, v)[j]]
    BY DEF Insert
  <2>2. /\ Push(es, e).terms = [j \in DOMAIN Push(es, e).terms |-> Push(es, e).terms[j]]
        /\ Push(es, e).configs = [j \in DOMAIN Push(es, e).configs |-> Push(es, e).configs[j]]
    <3>1. Push(es, e).terms \in {es.terms, Insert(es.terms, es.last.index + 1, e.term)}
      BY DEF Push
    <3>2. Push(es, e).configs \in {es.configs, Insert(es.configs, es.last.index + 1, e.config)}
      BY DEF Push
    <3> QED  BY <2>1, <3>1, <3>2 DEF Shaped
  <2> QED  BY <2>2 DEF Push, Shaped
<1>3. \A es, n : Shaped(es) => Shaped(Truncate(es, n))
  BY DEF Shaped, Truncate, SplitOff
<1>4. \A es, p : Shaped(Since(es, p))  BY DEF Shaped, Since, From
<1>5. \A es, more : Shaped(AppendUnchecked(es, more))
  BY DEF Shaped, AppendUnchecked, Extend
<1> QED  BY <1>1, <1>2, <1>3, <1>4, <1>5

\* So does whatever the steps choose from.
LEMMA ResultsShaped ==
  ASSUME NEW es, Shaped(es), NEW more, Shaped(more)
  PROVE  /\ \A r \in Pushes(es) : Shaped(r)
         /\ \A r \in Truncations(es) : Shaped(r)
         /\ \A r \in Suffixes(es) : Shaped(r)
         /\ \A r \in Rebased(es) : Shaped(r)
         /\ \A r \in Appends(es, more) : Shaped(r)
         /\ \A r \in DeltaAppends(es, more) : Shaped(r)
<1>1. \A r \in Pushes(es) : Shaped(r)
  <2> SUFFICES ASSUME NEW r \in Pushes(es) PROVE Shaped(r)  OBVIOUS
  <2>1. \E e : r = Push(es, e)  BY DEF Pushes
  <2> QED  BY <2>1, MadeShaped
<1>2. \A r \in Truncations(es) : Shaped(r)  BY MadeShaped DEF Truncations
<1>3. \A r \in Suffixes(es) : Shaped(r)  BY MadeShaped DEF Suffixes
<1>4. \A r \in Rebased(es) : Shaped(r)  BY MadeShaped DEF Rebased, Rebase
<1>5. \A r \in Appends(es, more) : Shaped(r)  BY MadeShaped DEF Appends, AppendSuffix
<1>6. \A r \in DeltaAppends(es, more) : Shaped(r)  BY MadeShaped DEF DeltaAppends
<1> QED  BY <1>1, <1>2, <1>3, <1>4, <1>5, <1>6

\* The invariant with the shape of both LogEntries.
ShapedInv == IInv /\ Shaped(log.entries) /\ Shaped(remote)

\* Every step keeps the shape.
LEMMA NextShaped == ShapedInv /\ [Next]_vars => ShapedInv'
<1> SUFFICES ASSUME ShapedInv, [Next]_vars PROVE ShapedInv'  OBVIOUS
<1>1. IInv /\ Shaped(log.entries) /\ Shaped(remote)  BY DEF ShapedInv
<1>2. IInv'  BY <1>1, NextIInv
<1>3. ASSUME NEW results, Local(results), \A r \in results : Shaped(r)
      PROVE  Shaped(log'.entries) /\ Shaped(remote')
  <2>1. PICK r \in results : log' = [log EXCEPT !.entries = r]  BY <1>3 DEF Local
  <2>2. log'.entries = r  BY <1>1, <2>1 DEF IInv
  <2>3. remote' = remote  BY <1>3 DEF Local
  <2> QED  BY <1>1, <1>3, <2>1, <2>2, <2>3
<1>4. ASSUME NEW results, Remote(results), \A r \in results : Shaped(r)
      PROVE  Shaped(log'.entries) /\ Shaped(remote')
  BY <1>1, <1>4 DEF Remote
<1>5. /\ \A r \in Pushes(log.entries) : Shaped(r)
      /\ \A r \in Truncations(log.entries) : Shaped(r)
      /\ \A r \in Appends(log.entries, remote) : Shaped(r)
      /\ \A r \in DeltaAppends(log.entries, remote) : Shaped(r)
      /\ \A r \in Pushes(remote) : Shaped(r)
      /\ \A r \in Truncations(remote) : Shaped(r)
      /\ \A r \in Suffixes(remote) : Shaped(r)
      /\ \A r \in Rebased(remote) : Shaped(r)
  BY <1>1, ResultsShaped
<1>6. Shaped(log'.entries) /\ Shaped(remote')
  <2>1. CASE PushEntry  BY <1>3, <1>4, <1>5, <2>1 DEF PushEntry
  <2>2. CASE TruncateEntries  BY <1>3, <1>4, <1>5, <2>2 DEF TruncateEntries
  <2>3. CASE CopyEntries
    <3>1. \A r \in {log.entries} : Shaped(r)  BY <1>1
    <3> QED  BY <1>4, <2>3, <3>1 DEF CopyEntries
  <2>4. CASE DropPrefix  BY <1>4, <1>5, <2>4 DEF DropPrefix
  <2>5. CASE RebaseQueued  BY <1>4, <1>5, <2>5 DEF RebaseQueued
  <2>6. CASE AppendAll  BY <1>3, <1>5, <2>6 DEF AppendAll
  <2>7. CASE AppendDelta  BY <1>3, <1>5, <2>7 DEF AppendDelta
  <2>8. CASE InstallSnapshot
    <3>1. PICK p \in Positions, c \in Configs : log' = Install(log, p, c)
      BY <2>8 DEF InstallSnapshot, Installs
    <3>2. Shaped(log'.entries)  BY <3>1, MadeShaped DEF Install
    <3> QED  BY <1>1, <2>8, <3>2 DEF InstallSnapshot
  <2>9. CASE UNCHANGED vars  BY <1>1, <2>9 DEF vars
  <2> QED  BY <2>1, <2>2, <2>3, <2>4, <2>5, <2>6, <2>7, <2>8, <2>9 DEF Next
<1> QED  BY <1>2, <1>6 DEF ShapedInv

\* Whatever was done to a log, what iteration yields, what the accessors look up and what
\* the sequence says are the same, and from_iter makes the log again of its entries.
THEOREM LookupsAgree == Spec => []QueriesAgree
<1>1. Init => ShapedInv
  <2> SUFFICES ASSUME Init PROVE ShapedInv  OBVIOUS
  <2>1. Shaped(log.entries) /\ Shaped(remote)  BY MadeShaped DEF Init
  <2> QED  BY <2>1, InitIInv DEF ShapedInv
<1>2. ShapedInv => QueriesAgree  BY QueriesSame DEF ShapedInv, IInv
<1> QED  BY <1>1, <1>2, NextShaped, PTL DEF Spec
=============================================================================
