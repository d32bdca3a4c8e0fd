------------------------------ MODULE LogProofs -----------------------------
(***************************************************************************)
(* What the operators of RaftLog preserve, for any set C of configurations *)
(* that logs may hold: entries stay well typed, a log that starts at index *)
(* 0 starts with a configuration, and the configuration in force at every  *)
(* index from 1 on is in C.                                                *)
(*                                                                         *)
(* Then the tree that logs form: sets of logs that agree up to where they  *)
(* meet, the lines of such a tree, parts of its logs, how it grows by a    *)
(* leader's entries, and which of its positions stay for good.             *)
(***************************************************************************)
EXTENDS LogTypes, SequenceTheorems, WellFoundedInduction, TLAPS

\* What may be written to a log.
Writes(C) == {es \in Entries(C) : es.prev.index = 0 => es.ents # <<>>}

\* The log only grows from old to new; a snapshot may take its prefix.
Extends(old, new) ==
  /\ old.prev.index <= new.prev.index
  /\ LastIndex(old) <= LastIndex(new)
  /\ \A i \in new.prev.index + 1 .. LastIndex(old) : EntryAt(old, i) = EntryAt(new, i)

-----------------------------------------------------------------------------
(* Extremal indices. *)

LEMMA LeastIndex ==
  ASSUME NEW K, K \subseteq Nat, K # {}
  PROVE  \E m \in K : \A k \in K : m <= k
<1> DEFINE R == OpToRel(<, Nat)
<1>1. IsWellFoundedOn(R, Nat)
  BY NatLessThanWellFounded
<1>2. PICK m \in K : \A k \in K : ~(<<k, m>> \in R)
  BY <1>1, WFMin
<1>3. \A k \in K : k < m => <<k, m>> \in R
  BY DEF OpToRel
<1> HIDE DEF R
<1>4. \A k \in K : ~(k < m)
  BY <1>2, <1>3
<1>5. m \in Nat /\ \A k \in K : k \in Nat
  OBVIOUS
<1> QED
  BY <1>4, <1>5

LEMMA GreatestIndex ==
  ASSUME NEW n \in Nat, NEW K, K \subseteq 0 .. n, K # {}
  PROVE  \E m \in K : \A k \in K : k <= m
<1> DEFINE D == {n - k : k \in K}
<1>1. D \subseteq Nat /\ D # {}
  <2>1. \A k \in K : n - k \in Nat
    OBVIOUS
  <2> QED
    BY <2>1
<1>2. PICK d \in D : \A e \in D : d <= e
  BY <1>1, LeastIndex
<1>3. PICK m \in K : d = n - m
  OBVIOUS
<1>4. \A k \in K : n - m <= n - k
  BY <1>2, <1>3
<1>5. \A k \in K : k \in 0 .. n
  OBVIOUS
<1> HIDE DEF D
<1> QED
  BY <1>4, <1>5

-----------------------------------------------------------------------------
(* Entries. *)

\* What the type says, one fact at a time.
LEMMA EntriesFacts ==
  ASSUME NEW C, NEW es \in Entries(C)
  PROVE  /\ es = [prev |-> es.prev, ents |-> es.ents]
         /\ es.prev \in Position
         /\ es.prev.index \in Nat
         /\ es.prev.term \in Nat
         /\ es.ents \in Seq(Entry(C))
         /\ Len(es.ents) \in Nat
         /\ LastIndex(es) \in Nat
         /\ LastIndex(es) = es.prev.index + Len(es.ents)
         /\ es.prev.index <= LastIndex(es)
         /\ es.ents = <<>> <=> Len(es.ents) = 0
         /\ ConfigFirst(es)
         /\ \A k \in 1 .. Len(es.ents) : es.ents[k] \in Entry(C)
         /\ \A i \in es.prev.index + 1 .. LastIndex(es) : EntryAt(es, i) \in Entry(C)
<1>1. /\ es \in [prev : Position, ents : Seq(Entry(C))]
      /\ ConfigFirst(es)
  BY DEF Entries
<1>2. es = [prev |-> es.prev, ents |-> es.ents] /\ es.prev \in Position
      /\ es.ents \in Seq(Entry(C))
  BY <1>1
<1>3. es.prev.index \in Nat /\ es.prev.term \in Nat
  BY <1>2 DEF Position
<1>4. /\ Len(es.ents) \in Nat
      /\ es.ents = <<>> <=> Len(es.ents) = 0
      /\ \A k \in 1 .. Len(es.ents) : es.ents[k] \in Entry(C)
  BY <1>2, LenProperties, EmptySeq, ElementOfSeq
<1>5. \A i \in es.prev.index + 1 .. es.prev.index + Len(es.ents) :
        i - es.prev.index \in 1 .. Len(es.ents)
  BY <1>3, <1>4
<1> QED
  BY <1>1, <1>2, <1>3, <1>4, <1>5 DEF LastIndex, EntryAt

LEMMA MakeEntries ==
  ASSUME NEW C, NEW p \in Position, NEW s \in Seq(Entry(C)),
         p.index = 0 /\ s # <<>> => s[1].kind = "ClusterConfig"
  PROVE  [prev |-> p, ents |-> s] \in Entries(C)
  BY DEF Entries, ConfigFirst

LEMMA EntryFacts ==
  ASSUME NEW C, NEW e \in Entry(C)
  PROVE  /\ e.term \in Nat
         /\ e.kind = "ClusterConfig" => e.config \in C
         /\ e.kind # "ClusterConfig" => e.config = EmptyConfig
         /\ e.kind \in {"Term", "Command", "ClusterConfig"}
  BY DEF Entry

LEMMA NewEntriesTyped ==
  ASSUME NEW C, NEW p \in Position PROVE NewEntries(p) \in Entries(C)
  BY EmptySeq, MakeEntries DEF NewEntries

LEMMA TermAtTyped ==
  ASSUME NEW C, NEW es \in Entries(C), NEW i, ContainsIndex(es, i)
  PROVE  /\ i \in Nat
         /\ es.prev.index <= i
         /\ i <= LastIndex(es)
         /\ TermAt(es, i) \in Nat
<1>1. i \in es.prev.index .. LastIndex(es)
  BY DEF ContainsIndex
<1>2. i \in Nat /\ es.prev.index <= i /\ i <= LastIndex(es)
  BY <1>1, EntriesFacts
<1>3. CASE i = es.prev.index
  BY <1>2, <1>3, EntriesFacts DEF TermAt
<1>4. CASE i # es.prev.index
  <2>1. i \in es.prev.index + 1 .. LastIndex(es)
    BY <1>2, <1>4, EntriesFacts
  <2>2. EntryAt(es, i) \in Entry(C)
    BY <2>1, EntriesFacts
  <2> QED
    BY <1>2, <1>4, <2>2, EntryFacts DEF TermAt, EntryAt
<1> QED
  BY <1>2, <1>3, <1>4

LEMMA PositionTyped ==
  ASSUME NEW C, NEW es \in Entries(C), NEW i, ContainsIndex(es, i)
  PROVE  Pos(TermAt(es, i), i) \in Position
  BY TermAtTyped DEF Position, Pos

LEMMA LastPositionTyped ==
  ASSUME NEW C, NEW es \in Entries(C)
  PROVE  /\ ContainsIndex(es, LastIndex(es))
         /\ LastPosition(es) \in Position
         /\ LastPosition(es).index = LastIndex(es)
         /\ Contains(es, LastPosition(es))
<1>1. ContainsIndex(es, LastIndex(es))
  BY EntriesFacts DEF ContainsIndex
<1> QED
  BY <1>1, PositionTyped DEF LastPosition, Contains, Pos

LEMMA SinceTyped ==
  ASSUME NEW C, NEW es \in Entries(C), NEW p \in Position, ContainsIndex(es, p.index)
  PROVE  LET s == Since(es, p) IN
         /\ s \in Entries(C)
         /\ s.prev = p
         /\ LastIndex(s) = LastIndex(es)
         /\ p.index < LastIndex(es) <=> s.ents # <<>>
         /\ \A i \in p.index + 1 .. LastIndex(es) : EntryAt(s, i) = EntryAt(es, i)
<1> DEFINE a == es.prev.index
           m == p.index - a + 1
           n == Len(es.ents)
           t == SubSeq(es.ents, m, n)
<1>1. Since(es, p) = [prev |-> p, ents |-> t]
  BY DEF Since
<1>2. /\ a \in Nat /\ n \in Nat /\ LastIndex(es) = a + n /\ ConfigFirst(es)
      /\ \A k \in 1 .. n : es.ents[k] \in Entry(C)
  BY EntriesFacts
<1>3. p.index \in Nat /\ a <= p.index /\ p.index <= a + n
  BY <1>2, TermAtTyped DEF Position
<1>4. m \in Int /\ n \in Int /\ m >= 1
  BY <1>2, <1>3
<1>5. /\ t \in Seq(Entry(C))
      /\ Len(t) = IF m <= n THEN n - m + 1 ELSE 0
      /\ \A k \in 1 .. n - m + 1 : t[k] = es.ents[m + k - 1]
  <2>1. \A k \in m .. n : es.ents[k] \in Entry(C)
    BY <1>2, <1>4
  <2> HIDE DEF m, n
  <2> QED
    BY <1>4, <2>1, SubSeqProperties
<1>6. t # <<>> <=> m <= n
  <2> HIDE DEF t, m, n
  <2> QED
    BY <1>4, <1>5, EmptySeq
<1>7. p.index = 0 /\ t # <<>> => t[1].kind = "ClusterConfig"
  <2> SUFFICES ASSUME p.index = 0, t # <<>> PROVE t[1].kind = "ClusterConfig"
    OBVIOUS
  <2>1. a = 0 /\ m = 1 /\ 1 <= n
    BY <1>2, <1>3, <1>6
  <2>2. t[1] = es.ents[1]
    BY <1>2, <1>5, <2>1
  <2>3. es.ents # <<>>
    BY <2>1, EmptySeq
  <2> QED
    BY <1>2, <2>1, <2>2, <2>3 DEF ConfigFirst
<1>8. Since(es, p) \in Entries(C)
  <2> HIDE DEF t
  <2> QED
    BY <1>1, <1>5, <1>7, MakeEntries
<1>9. LastIndex(Since(es, p)) = LastIndex(es)
  <2> HIDE DEF t
  <2> QED
    BY <1>1, <1>2, <1>3, <1>5, SMTT(40) DEF LastIndex
<1>10. \A i \in p.index + 1 .. LastIndex(es) : EntryAt(Since(es, p), i) = EntryAt(es, i)
  <2> TAKE i \in p.index + 1 .. LastIndex(es)
  <2>1. i \in Nat /\ p.index < i /\ i <= a + n
    BY <1>2, <1>3
  <2>2. /\ i - p.index \in 1 .. n - m + 1
        /\ m + (i - p.index) - 1 = i - a
    <3> HIDE DEF n, t
    <3> QED
      BY <1>2, <1>3, <2>1
  <2> HIDE DEF t
  <2>3. t[i - p.index] = es.ents[i - a]
    BY <1>5, <2>2
  <2> QED
    BY <1>1, <2>3 DEF EntryAt
<1> HIDE DEF t
<1> QED
  BY <1>1, <1>2, <1>3, <1>6, <1>8, <1>9, <1>10

LEMMA TruncateTyped ==
  ASSUME NEW C, NEW es \in Entries(C), NEW n \in Int
  PROVE  Truncate(es, n) \in Entries(C) /\ Truncate(es, n).prev = es.prev
<1> DEFINE t == SubSeq(es.ents, 1, n)
<1>1. CASE Len(es.ents) <= n
  BY <1>1 DEF Truncate
<1>2. CASE ~(Len(es.ents) <= n)
  <2>1. Truncate(es, n) = [prev |-> es.prev, ents |-> t]
    <3> HIDE DEF t
    <3>1. [es EXCEPT !.ents = t] = [prev |-> es.prev, ents |-> t]
      BY EntriesFacts
    <3> QED
      BY <1>2, <3>1 DEF Truncate, t
  <2>2. Len(es.ents) \in Nat /\ \A k \in 1 .. n : es.ents[k] \in Entry(C)
    BY <1>2, EntriesFacts
  <2>3. /\ t \in Seq(Entry(C))
        /\ Len(t) = IF 1 <= n THEN n ELSE 0
        /\ \A k \in 1 .. n : t[k] = es.ents[k]
    <3>1. /\ t \in Seq(Entry(C))
          /\ Len(t) = IF 1 <= n THEN n - 1 + 1 ELSE 0
          /\ \A k \in 1 .. n - 1 + 1 : t[k] = es.ents[1 + k - 1]
      BY <2>2, SubSeqProperties
    <3> HIDE DEF t
    <3>2. \A k \in 1 .. n : 1 + k - 1 = k
      OBVIOUS
    <3> QED
      BY <3>1, <3>2
  <2>4. t # <<>> => 1 <= n /\ t[1] = es.ents[1] /\ es.ents # <<>>
    <3> HIDE DEF t
    <3> QED
      BY <1>2, <2>2, <2>3, EmptySeq
  <2> HIDE DEF t
  <2> QED
    BY <2>1, <2>3, <2>4, EntriesFacts, MakeEntries DEF ConfigFirst
<1> QED
  BY <1>1, <1>2

LEMMA PushTyped ==
  ASSUME NEW C, NEW es \in Entries(C), NEW e \in Entry(C),
         LastIndex(es) = 0 => e.kind = "ClusterConfig"
  PROVE  LET s == Push(es, e) IN
         /\ s \in Entries(C)
         /\ s.prev = es.prev
         /\ LastIndex(s) = LastIndex(es) + 1
         /\ EntryAt(s, LastIndex(s)) = e
         /\ \A i \in es.prev.index + 1 .. LastIndex(es) : EntryAt(s, i) = EntryAt(es, i)
         /\ Extends(es, s)
<1> DEFINE a == es.prev.index
           n == Len(es.ents)
           t == Append(es.ents, e)
<1>1. /\ a \in Nat /\ n \in Nat /\ LastIndex(es) = a + n /\ es.prev \in Position
      /\ es.ents \in Seq(Entry(C)) /\ ConfigFirst(es)
  BY EntriesFacts
<1>2. /\ t \in Seq(Entry(C))
      /\ t # <<>>
      /\ Len(t) = n + 1
      /\ \A k \in 1 .. n : t[k] = es.ents[k]
      /\ t[n + 1] = e
  BY <1>1, AppendProperties
<1>3. Push(es, e) = [prev |-> es.prev, ents |-> t]
  <2> HIDE DEF t
  <2>1. [es EXCEPT !.ents = t] = [prev |-> es.prev, ents |-> t]
    BY EntriesFacts
  <2> QED
    BY <2>1 DEF Push, t
<1>4. a = 0 => t[1].kind = "ClusterConfig"
  <2>1. CASE n = 0
    <3> HIDE DEF t
    <3> QED
      BY <1>1, <1>2, <2>1
  <2>2. CASE n > 0
    <3>1. t[1] = es.ents[1] /\ es.ents # <<>>
      <4> HIDE DEF t
      <4> QED
        BY <1>1, <1>2, <2>2, EmptySeq
    <3> QED
      BY <3>1, <1>1 DEF ConfigFirst
  <2> QED
    BY <1>1, <2>1, <2>2
<1> HIDE DEF t
<1>5. Push(es, e) \in Entries(C)
  BY <1>1, <1>2, <1>3, <1>4, MakeEntries
<1>6. /\ LastIndex(Push(es, e)) = LastIndex(es) + 1
      /\ EntryAt(Push(es, e), LastIndex(es) + 1) = e
  <2>1. a + n + 1 - a = n + 1
    BY <1>1
  <2> QED
    BY <1>1, <1>2, <1>3, <2>1, SMTT(40) DEF LastIndex, EntryAt
<1>7. \A i \in a + 1 .. LastIndex(es) : EntryAt(Push(es, e), i) = EntryAt(es, i)
  <2> TAKE i \in a + 1 .. LastIndex(es)
  <2>1. i - a \in 1 .. n
    BY <1>1, SMTT(40)
  <2> QED
    BY <1>2, <1>3, <2>1 DEF EntryAt
<1>8. Push(es, e).prev = es.prev
  BY <1>3
<1>9. Extends(es, Push(es, e))
  BY <1>1, <1>6, <1>7, <1>8 DEF Extends
<1> QED
  BY <1>5, <1>6, <1>7, <1>8, <1>9

\* Entries appended after an anchor, contained or not.
LEMMA AppendUncheckedTyped ==
  ASSUME NEW C, NEW es \in Entries(C), NEW more \in Entries(C),
         es.prev.index = 0 /\ es.ents = <<>> => more.prev.index = 0
  PROVE  LET s == AppendUnchecked(es, more) IN
         /\ s \in Entries(C)
         /\ s.prev = es.prev
         /\ es.prev.index = 0 /\ s.ents = <<>> => more.ents = <<>> /\ more.prev.index = 0
<1> DEFINE a == es.prev.index
           b == more.prev.index
           n == b - a
           size == n - Len(es.ents)
           gap == [k \in 1 .. size |-> CommandEntry(LastPosition(es).term)]
           full == es.ents \o gap
           kept == IF b <= a THEN <<>> ELSE SubSeq(full, 1, n)
           skip == IF b < a THEN a - b ELSE 0
           tail == SubSeq(more.ents, skip + 1, Len(more.ents))
           t == kept \o tail
<1>1. /\ a \in Nat /\ es.prev \in Position /\ es.ents \in Seq(Entry(C))
      /\ Len(es.ents) \in Nat /\ ConfigFirst(es) /\ (es.ents = <<>> <=> Len(es.ents) = 0)
      /\ b \in Nat /\ Len(more.ents) \in Nat /\ ConfigFirst(more)
      /\ \A k \in 1 .. Len(more.ents) : more.ents[k] \in Entry(C)
      /\ (more.ents = <<>> <=> Len(more.ents) = 0)
  BY EntriesFacts
<1>2. AppendUnchecked(es, more) = [prev |-> es.prev, ents |-> t]
  <2>1. [es EXCEPT !.ents = t] = [prev |-> es.prev, ents |-> t]
    <3> HIDE DEF t
    <3> QED
      BY EntriesFacts
  <2> QED
    BY <2>1 DEF AppendUnchecked
<1>3. size > 0 => gap \in Seq(Entry(C)) /\ Len(gap) = size
  <2> SUFFICES ASSUME size > 0 PROVE gap \in Seq(Entry(C)) /\ Len(gap) = size
    OBVIOUS
  <2>1. size \in Nat
    BY <1>1
  <2>2. CommandEntry(LastPosition(es).term) \in Entry(C)
    BY LastPositionTyped DEF Position, CommandEntry, Entry
  <2> HIDE DEF size
  <2>3. gap \in [1 .. size -> Entry(C)]
    BY <2>2
  <2>4. gap \in Seq(Entry(C))
    <3> HIDE DEF gap
    <3> QED
      BY <2>1, <2>3, SeqDef
  <2>5. Len(gap) = size
    <3>1. DOMAIN gap = 1 .. size
      BY <2>3
    <3> HIDE DEF gap
    <3> QED
      BY <2>1, <2>4, <3>1, LenProperties
  <2> QED
    BY <2>4, <2>5
<1>4. size <= 0 => gap = <<>>
  <2> SUFFICES ASSUME size <= 0 PROVE gap = <<>>
    OBVIOUS
  <2>1. 1 .. size = {}
    BY <1>1
  <2> HIDE DEF size
  <2> QED
    BY <2>1
<1>5. gap \in Seq(Entry(C)) /\ Len(gap) \in Nat /\ Len(es.ents) + Len(gap) >= n
  <2>1. CASE size > 0
    <3> HIDE DEF gap
    <3> QED
      BY <1>1, <1>3, <2>1
  <2>2. CASE size <= 0
    <3>1. gap = <<>>
      BY <1>4, <2>2
    <3> HIDE DEF gap
    <3>2. gap \in Seq(Entry(C)) /\ Len(gap) = 0
      BY <3>1, EmptySeq
    <3> QED
      BY <1>1, <2>2, <3>2
  <2>3. size > 0 \/ size <= 0
    BY <1>1
  <2> HIDE DEF gap, size
  <2> QED
    BY <2>1, <2>2, <2>3
<1> HIDE DEF gap
<1>6. /\ \A k \in 1 .. Len(es.ents) + Len(gap) : full[k] \in Entry(C)
      /\ Len(es.ents) > 0 => full[1] = es.ents[1]
  <2>1. /\ full \in Seq(Entry(C))
        /\ Len(full) = Len(es.ents) + Len(gap)
        /\ \A k \in 1 .. Len(es.ents) + Len(gap) :
             full[k] = IF k <= Len(es.ents) THEN es.ents[k] ELSE gap[k - Len(es.ents)]
    BY <1>1, <1>5, ConcatProperties
  <2> HIDE DEF full
  <2> QED
    BY <1>1, <1>5, <2>1, ElementOfSeq
<1> HIDE DEF full
<1>7. /\ kept \in Seq(Entry(C))
      /\ Len(kept) = IF b <= a THEN 0 ELSE n
      /\ b > a => kept[1] = full[1]
  <2>1. CASE b <= a
    BY <1>1, <2>1, EmptySeq
  <2>2. CASE ~(b <= a)
    <3>1. n \in Int /\ 1 <= n /\ \A k \in 1 .. n : full[k] \in Entry(C)
      BY <1>1, <1>5, <1>6, <2>2, SMTT(40)
    <3>2. /\ SubSeq(full, 1, n) \in Seq(Entry(C))
          /\ Len(SubSeq(full, 1, n)) = n - 1 + 1
          /\ \A k \in 1 .. n - 1 + 1 : SubSeq(full, 1, n)[k] = full[1 + k - 1]
      <4> HIDE DEF n
      <4> QED
        BY <3>1, SubSeqProperties
    <3>3. SubSeq(full, 1, n)[1] = full[1]
      <4>1. 1 \in 1 .. n - 1 + 1 /\ 1 + 1 - 1 = 1
        BY <3>1
      <4> HIDE DEF n
      <4> QED
        BY <3>2, <4>1
    <3> HIDE DEF n
    <3> QED
      BY <2>2, <3>1, <3>2, <3>3
  <2> QED
    BY <2>1, <2>2
<1>8. /\ tail \in Seq(Entry(C))
      /\ Len(tail) \in Nat
      /\ b >= a => Len(tail) = Len(more.ents)
      /\ b = a /\ Len(more.ents) > 0 => tail[1] = more.ents[1]
  <2>1. /\ skip \in Nat /\ skip + 1 \in Int /\ Len(more.ents) \in Int
        /\ \A k \in skip + 1 .. Len(more.ents) : more.ents[k] \in Entry(C)
        /\ b >= a => skip = 0
    BY <1>1
  <2> HIDE DEF skip
  <2>2. /\ tail \in Seq(Entry(C))
        /\ Len(tail) = IF skip + 1 <= Len(more.ents) THEN Len(more.ents) - (skip + 1) + 1 ELSE 0
        /\ \A k \in 1 .. Len(more.ents) - (skip + 1) + 1 :
             tail[k] = more.ents[(skip + 1) + k - 1]
    BY <2>1, SubSeqProperties
  <2> HIDE DEF tail
  <2>3. b = a /\ Len(more.ents) > 0 => tail[1] = more.ents[1]
    <3> SUFFICES ASSUME b = a, Len(more.ents) > 0 PROVE tail[1] = more.ents[1]
      OBVIOUS
    <3>1. skip = 0 /\ 1 \in 1 .. Len(more.ents) - (skip + 1) + 1 /\ (skip + 1) + 1 - 1 = 1
      BY <1>1, <2>1
    <3> QED
      BY <2>2, <3>1
  <2> QED
    BY <1>1, <2>1, <2>2, <2>3
<1> HIDE DEF kept, tail
<1>9. /\ t \in Seq(Entry(C))
      /\ Len(t) = Len(kept) + Len(tail)
      /\ \A k \in 1 .. Len(kept) + Len(tail) :
           t[k] = IF k <= Len(kept) THEN kept[k] ELSE tail[k - Len(kept)]
  BY <1>7, <1>8, ConcatProperties
<1>10. t = <<>> <=> Len(kept) + Len(tail) = 0
  <2> HIDE DEF t
  <2> QED
    BY <1>9, EmptySeq
<1> HIDE DEF t
<1>11. a = 0 /\ t # <<>> => t[1].kind = "ClusterConfig"
  <2> SUFFICES ASSUME a = 0, t # <<>> PROVE t[1].kind = "ClusterConfig"
    OBVIOUS
  <2>1. Len(kept) + Len(tail) > 0 /\ Len(kept) \in Nat /\ Len(tail) \in Nat
    BY <1>1, <1>7, <1>8, <1>10
  <2>2. CASE b = 0
    <3>1. Len(kept) = 0 /\ Len(tail) > 0 /\ Len(more.ents) > 0
      BY <1>1, <1>7, <1>8, <2>1, <2>2
    <3>2. t[1] = tail[1]
      BY <1>9, <2>1, <3>1
    <3> QED
      BY <1>1, <1>8, <2>2, <3>1, <3>2 DEF ConfigFirst
  <2>3. CASE b > 0
    <3>1. Len(kept) > 0 /\ kept[1] = full[1] /\ Len(es.ents) > 0
      BY <1>1, <1>7, <2>3
    <3>2. t[1] = kept[1]
      BY <1>9, <2>1, <3>1
    <3> QED
      BY <1>1, <1>6, <3>1, <3>2 DEF ConfigFirst
  <2> QED
    BY <1>1, <2>2, <2>3
<1>12. a = 0 /\ t = <<>> => more.ents = <<>> /\ b = 0
  BY <1>1, <1>7, <1>8, <1>10
<1> QED
  BY <1>1, <1>2, <1>9, <1>11, <1>12, MakeEntries

-----------------------------------------------------------------------------
(* Edges: no operator makes one of two logs that meet at an anchor.        *)

\* The term at an index is that of its entry.
LEMMA TermAtEntry ==
  ASSUME NEW C, NEW es \in Entries(C), NEW i \in es.prev.index + 1 .. LastIndex(es)
  PROVE  /\ TermAt(es, i) = EntryAt(es, i).term
         /\ i \in Nat /\ i - 1 \in Nat
         /\ es.prev.index < i /\ i <= LastIndex(es)
         /\ ContainsIndex(es, i) /\ ContainsIndex(es, i - 1)
<1>1. es.prev.index \in Nat /\ LastIndex(es) \in Nat
  BY EntriesFacts
<1>2. i # es.prev.index
  BY <1>1
<1> QED
  BY <1>1, <1>2 DEF TermAt, EntryAt, ContainsIndex

LEMMA EdgesFacts ==
  ASSUME NEW C, NEW es \in Entries(C), NEW e \in Edges(es)
  PROVE  /\ e.index \in es.prev.index + 1 .. LastIndex(es)
         /\ e = Edge(es, e.index)
         /\ e.index \in Nat /\ es.prev.index < e.index /\ e.index <= LastIndex(es)
         /\ e.entry = EntryAt(es, e.index)
         /\ e.entry \in Entry(C)
         /\ e.entry.term \in Nat
         /\ e.entry.term = TermAt(es, e.index)
         /\ e.before = TermAt(es, e.index - 1)
<1>1. PICK i \in es.prev.index + 1 .. LastIndex(es) : e = Edge(es, i)
  BY DEF Edges
<1>2. e.index = i /\ e.entry = EntryAt(es, i) /\ e.before = TermAt(es, i - 1)
  BY <1>1 DEF Edge
<1>3. EntryAt(es, i) \in Entry(C)
  BY EntriesFacts
<1> QED
  BY <1>1, <1>2, <1>3, TermAtEntry, EntryFacts

LEMMA EdgeIs ==
  ASSUME NEW es, NEW i, NEW t, TermAt(es, i - 1) = t
  PROVE  Edge(es, i) = [before |-> t, index |-> i, entry |-> EntryAt(es, i)]
  BY DEF Edge

LEMMA EdgeIn ==
  ASSUME NEW es, NEW i \in es.prev.index + 1 .. LastIndex(es)
  PROVE  Edge(es, i) \in Edges(es)
  BY DEF Edges

\* a is a part of b: its entries are there, after the same term.
LEMMA EdgesOfPart ==
  ASSUME NEW C, NEW a \in Entries(C), NEW b \in Entries(C),
         b.prev.index <= a.prev.index, LastIndex(a) <= LastIndex(b),
         TermAt(b, a.prev.index) = a.prev.term,
         \A i \in a.prev.index + 1 .. LastIndex(a) : EntryAt(a, i) = EntryAt(b, i)
  PROVE  /\ Edges(a) \subseteq Edges(b)
         /\ \A i \in a.prev.index .. LastIndex(a) : TermAt(a, i) = TermAt(b, i)
<1>1. /\ a.prev.index \in Nat /\ LastIndex(a) \in Nat
      /\ b.prev.index \in Nat /\ LastIndex(b) \in Nat
  BY EntriesFacts
<1>2. ASSUME NEW i \in a.prev.index .. LastIndex(a)
      PROVE  TermAt(a, i) = TermAt(b, i)
  <2>1. CASE i = a.prev.index
    BY <2>1 DEF TermAt
  <2>2. CASE i # a.prev.index
    <3>1. i \in a.prev.index + 1 .. LastIndex(a) /\ i \in b.prev.index + 1 .. LastIndex(b)
      BY <1>1, <2>2
    <3> QED
      BY <3>1, TermAtEntry
  <2> QED
    BY <2>1, <2>2
<1>3. ASSUME NEW i \in a.prev.index + 1 .. LastIndex(a)
      PROVE  Edge(a, i) \in Edges(b)
  <2>1. i \in b.prev.index + 1 .. LastIndex(b) /\ i - 1 \in a.prev.index .. LastIndex(a)
    BY <1>1
  <2>2. Edge(a, i) = Edge(b, i)
    BY <1>2, <2>1 DEF Edge
  <2> QED
    BY <2>1, <2>2, EdgeIn
<1> QED
  BY <1>2, <1>3 DEF Edges

LEMMA EdgesOfNone ==
  ASSUME NEW p \in Position PROVE Edges(NewEntries(p)) = {}
<1>1. LastIndex(NewEntries(p)) = p.index /\ NewEntries(p).prev = p /\ p.index \in Nat
  BY EmptySeq DEF LastIndex, NewEntries, Position
<1> QED
  BY <1>1 DEF Edges

\* A log that has grown.
LEMMA ExtendsEdges ==
  ASSUME NEW C, NEW a \in Entries(C), NEW b \in Entries(C), Extends(a, b), b.prev = a.prev
  PROVE  /\ Edges(a) \subseteq Edges(b)
         /\ \A i \in a.prev.index .. LastIndex(a) : TermAt(a, i) = TermAt(b, i)
<1>1. a.prev.index \in Nat
  BY EntriesFacts
<1>2. TermAt(b, a.prev.index) = a.prev.term
  BY DEF TermAt
<1> QED
  BY <1>1, <1>2, EdgesOfPart DEF Extends

LEMMA SinceEdges ==
  ASSUME NEW C, NEW es \in Entries(C), NEW p \in Position, Contains(es, p)
  PROVE  LET s == Since(es, p) IN
         /\ Edges(s) \subseteq Edges(es)
         /\ LastPosition(s) = LastPosition(es)
<1> DEFINE s == Since(es, p)
<1>1. /\ s \in Entries(C)
      /\ s.prev = p
      /\ LastIndex(s) = LastIndex(es)
      /\ \A i \in p.index + 1 .. LastIndex(es) : EntryAt(s, i) = EntryAt(es, i)
  BY SinceTyped DEF Contains
<1>2. es.prev.index <= p.index /\ TermAt(es, p.index) = p.term /\ p.index <= LastIndex(es)
      /\ p.index \in Nat /\ LastIndex(es) \in Nat
  BY TermAtTyped, EntriesFacts DEF Contains
<1> HIDE DEF s
<1>3. /\ Edges(s) \subseteq Edges(es)
      /\ \A i \in p.index .. LastIndex(s) : TermAt(s, i) = TermAt(es, i)
  BY <1>1, <1>2, EdgesOfPart
<1>4. TermAt(s, LastIndex(s)) = TermAt(es, LastIndex(es))
  BY <1>1, <1>2, <1>3
<1> QED
  BY <1>1, <1>3, <1>4 DEF LastPosition, s

LEMMA TruncateEdges ==
  ASSUME NEW C, NEW es \in Entries(C), NEW n \in Int
  PROVE  Edges(Truncate(es, n)) \subseteq Edges(es)
<1> DEFINE s == Truncate(es, n)
           t == SubSeq(es.ents, 1, n)
<1>1. CASE Len(es.ents) <= n
  BY <1>1 DEF Truncate
<1>2. CASE ~(Len(es.ents) <= n)
  <2>1. /\ es.prev.index \in Nat /\ Len(es.ents) \in Nat
        /\ LastIndex(es) = es.prev.index + Len(es.ents)
        /\ \A k \in 1 .. Len(es.ents) : es.ents[k] \in Entry(C)
        /\ es.prev \in Position
    BY EntriesFacts
  <2>2. /\ Len(t) = IF 1 <= n THEN n - 1 + 1 ELSE 0
        /\ \A k \in 1 .. n - 1 + 1 : t[k] = es.ents[1 + k - 1]
    <3>1. \A k \in 1 .. n : es.ents[k] \in Entry(C)
      BY <1>2, <2>1
    <3> QED
      BY <3>1, SubSeqProperties
  <2>3. s = [prev |-> es.prev, ents |-> t]
    <3> HIDE DEF t
    <3>1. [es EXCEPT !.ents = t] = [prev |-> es.prev, ents |-> t]
      BY EntriesFacts
    <3> QED
      BY <1>2, <3>1 DEF Truncate, t
  <2> HIDE DEF t
  <2>4. s \in Entries(C) /\ s.prev = es.prev /\ LastIndex(s) = es.prev.index + Len(t)
    BY <2>3, TruncateTyped DEF LastIndex
  <2>5. \A i \in es.prev.index + 1 .. LastIndex(s) : EntryAt(s, i) = EntryAt(es, i)
    <3> TAKE i \in es.prev.index + 1 .. LastIndex(s)
    <3>1. 1 <= n /\ i - es.prev.index \in 1 .. n - 1 + 1
          /\ 1 + (i - es.prev.index) - 1 = i - es.prev.index
      BY <2>1, <2>2, <2>4
    <3>2. t[i - es.prev.index] = es.ents[i - es.prev.index]
      BY <2>2, <3>1
    <3> QED
      BY <2>3, <3>2 DEF EntryAt
  <2>6. LastIndex(s) <= LastIndex(es)
    BY <1>2, <2>1, <2>2, <2>4
  <2> HIDE DEF s
  <2>7. TermAt(es, s.prev.index) = s.prev.term
    BY <2>4 DEF TermAt
  <2>8. es.prev.index <= s.prev.index
    BY <2>1, <2>4
  <2> QED
    BY <2>4, <2>5, <2>6, <2>7, <2>8, EdgesOfPart DEF s
<1> QED
  BY <1>1, <1>2

-----------------------------------------------------------------------------
(* What is appended. *)

\* Two logs with the same term at lo and the same entries up to hi.
LEMMA SameEdges ==
  ASSUME NEW C, NEW a \in Entries(C), NEW b \in Entries(C), NEW lo \in Nat, NEW hi \in Nat,
         a.prev.index <= lo, b.prev.index <= lo, hi <= LastIndex(a), hi <= LastIndex(b),
         TermAt(a, lo) = TermAt(b, lo),
         \A i \in lo + 1 .. hi : EntryAt(a, i) = EntryAt(b, i)
  PROVE  /\ \A i \in lo .. hi : TermAt(a, i) = TermAt(b, i)
         /\ \A i \in lo + 1 .. hi : Edge(a, i) = Edge(b, i)
<1>1. /\ a.prev.index \in Nat /\ LastIndex(a) \in Nat
      /\ b.prev.index \in Nat /\ LastIndex(b) \in Nat
  BY EntriesFacts
<1>2. ASSUME NEW i \in lo .. hi
      PROVE  TermAt(a, i) = TermAt(b, i)
  <2>1. CASE i = lo
    BY <2>1
  <2>2. CASE i # lo
    <3>1. /\ i \in a.prev.index + 1 .. LastIndex(a)
          /\ i \in b.prev.index + 1 .. LastIndex(b)
          /\ i \in lo + 1 .. hi
      BY <1>1, <2>2
    <3> QED
      BY <3>1, TermAtEntry
  <2> QED
    BY <2>1, <2>2
<1>3. ASSUME NEW i \in lo + 1 .. hi
      PROVE  Edge(a, i) = Edge(b, i)
  <2>1. i - 1 \in lo .. hi
    OBVIOUS
  <2> QED
    BY <1>2, <2>1 DEF Edge
<1> QED
  BY <1>2, <1>3

LEMMA AppendContained ==
  ASSUME NEW C, NEW es \in Entries(C), NEW more \in Entries(C),
         ContainsIndex(es, more.prev.index)
  PROVE  LET s == AppendUnchecked(es, more) IN
         /\ s \in Entries(C)
         /\ s.prev = es.prev
         /\ LastIndex(s) = LastIndex(more)
         /\ \A i \in es.prev.index + 1 .. more.prev.index : EntryAt(s, i) = EntryAt(es, i)
         /\ \A i \in more.prev.index + 1 .. LastIndex(more) : EntryAt(s, i) = EntryAt(more, i)
<1> DEFINE a == es.prev.index
           b == more.prev.index
           n == b - a
           size == n - Len(es.ents)
           gap == [k \in 1 .. size |-> CommandEntry(LastPosition(es).term)]
           full == es.ents \o gap
           kept == IF b <= a THEN <<>> ELSE SubSeq(full, 1, n)
           skip == IF b < a THEN a - b ELSE 0
           tail == SubSeq(more.ents, skip + 1, Len(more.ents))
           t == kept \o tail
           s == AppendUnchecked(es, more)
<1>1. /\ a \in Nat /\ es.ents \in Seq(Entry(C)) /\ Len(es.ents) \in Nat
      /\ LastIndex(es) = a + Len(es.ents)
      /\ b \in Nat /\ Len(more.ents) \in Nat /\ LastIndex(more) = b + Len(more.ents)
      /\ \A k \in 1 .. Len(es.ents) : es.ents[k] \in Entry(C)
      /\ \A k \in 1 .. Len(more.ents) : more.ents[k] \in Entry(C)
      /\ (es.ents = <<>> <=> Len(es.ents) = 0)
  BY EntriesFacts
<1>2. a <= b /\ b <= a + Len(es.ents)
  BY <1>1 DEF ContainsIndex
<1>3. s = [prev |-> es.prev, ents |-> t]
  <2>1. [es EXCEPT !.ents = t] = [prev |-> es.prev, ents |-> t]
    <3> HIDE DEF t
    <3> QED
      BY EntriesFacts
  <2> QED
    BY <2>1 DEF AppendUnchecked
<1>4. es.prev.index = 0 /\ es.ents = <<>> => more.prev.index = 0
  BY <1>1, <1>2
<1>5. s \in Entries(C) /\ s.prev = es.prev
  BY <1>4, AppendUncheckedTyped
<1>6. gap = <<>>
  <2>1. 1 .. size = {}
    BY <1>1, <1>2
  <2> HIDE DEF size
  <2> QED
    BY <2>1
<1> HIDE DEF gap
<1>7. full = es.ents
  BY <1>1, <1>6, ConcatEmptySeq
<1> HIDE DEF full
<1>8. /\ kept \in Seq(Entry(C))
      /\ Len(kept) = n
      /\ \A k \in 1 .. n : kept[k] = es.ents[k]
  <2>1. CASE b <= a
    <3>1. n = 0 /\ 1 .. n = {}
      BY <1>1, <1>2, <2>1
    <3> HIDE DEF n
    <3> QED
      BY <2>1, <3>1, EmptySeq
  <2>2. CASE ~(b <= a)
    <3>1. n \in Int /\ 1 <= n /\ \A k \in 1 .. n : full[k] \in Entry(C)
      BY <1>1, <1>2, <1>7, <2>2
    <3>2. /\ SubSeq(full, 1, n) \in Seq(Entry(C))
          /\ Len(SubSeq(full, 1, n)) = n - 1 + 1
          /\ \A k \in 1 .. n - 1 + 1 : SubSeq(full, 1, n)[k] = full[1 + k - 1]
      <4> HIDE DEF n
      <4> QED
        BY <3>1, SubSeqProperties
    <3>3. n - 1 + 1 = n /\ \A k \in 1 .. n : 1 + k - 1 = k
      BY <3>1
    <3> HIDE DEF n
    <3> QED
      BY <1>7, <2>2, <3>2, <3>3
  <2> QED
    BY <2>1, <2>2
<1>9. tail \in Seq(Entry(C)) /\ Len(tail) = Len(more.ents)
      /\ \A k \in 1 .. Len(more.ents) : tail[k] = more.ents[k]
  <2>1. skip = 0
    BY <1>1, <1>2
  <2> HIDE DEF skip
  <2>2. /\ tail \in Seq(Entry(C))
        /\ Len(tail) = IF 0 + 1 <= Len(more.ents) THEN Len(more.ents) - (0 + 1) + 1 ELSE 0
        /\ \A k \in 1 .. Len(more.ents) - (0 + 1) + 1 : tail[k] = more.ents[(0 + 1) + k - 1]
    <3>1. \A k \in 0 + 1 .. Len(more.ents) : more.ents[k] \in Entry(C)
      BY <1>1
    <3> QED
      BY <1>1, <2>1, <3>1, SubSeqProperties
  <2> HIDE DEF tail
  <2>3. Len(more.ents) - (0 + 1) + 1 = Len(more.ents)
        /\ \A k \in 1 .. Len(more.ents) : (0 + 1) + k - 1 = k
    BY <1>1
  <2> QED
    BY <1>1, <2>2, <2>3
<1> HIDE DEF kept, tail
<1>10. /\ t \in Seq(Entry(C))
       /\ Len(t) = Len(kept) + Len(tail)
       /\ \A k \in 1 .. Len(kept) + Len(tail) :
            t[k] = IF k <= Len(kept) THEN kept[k] ELSE tail[k - Len(kept)]
  <2>1. kept \in Seq(Entry(C)) /\ tail \in Seq(Entry(C))
    BY <1>8, <1>9
  <2> QED
    BY <2>1, ConcatProperties
<1> HIDE DEF t
<1>14. /\ a \in Nat /\ b \in Nat /\ n \in Nat /\ Len(more.ents) \in Nat
       /\ LastIndex(more) = b + Len(more.ents)
       /\ a + n = b /\ Len(kept) = n /\ Len(tail) = Len(more.ents)
  BY <1>1, <1>2, <1>8, <1>9
<1> HIDE DEF n, a, b
<1>11. LastIndex(s) = LastIndex(more)
  <2>1. LastIndex(s) = a + Len(t)
    BY <1>3 DEF LastIndex, a
  <2> QED
    BY <1>10, <1>14, <2>1
<1>12. \A i \in a + 1 .. b : EntryAt(s, i) = EntryAt(es, i)
  <2> TAKE i \in a + 1 .. b
  <2>1. i - a \in 1 .. n /\ i - a \in 1 .. Len(kept) + Len(tail) /\ i - a <= Len(kept)
    BY <1>14
  <2> QED
    BY <1>3, <1>8, <1>10, <2>1 DEF EntryAt, a
<1>13. \A i \in b + 1 .. LastIndex(more) : EntryAt(s, i) = EntryAt(more, i)
  <2> TAKE i \in b + 1 .. LastIndex(more)
  <2>1. /\ i - a \in 1 .. Len(kept) + Len(tail)
        /\ ~(i - a <= Len(kept))
        /\ i - a - Len(kept) = i - b
        /\ i - b \in 1 .. Len(more.ents)
    BY <1>14
  <2>2. t[i - a] = tail[i - b]
    BY <1>10, <2>1
  <2>3. tail[i - b] = more.ents[i - b]
    BY <1>9, <2>1
  <2> QED
    BY <1>3, <2>2, <2>3 DEF EntryAt, a, b
<1> HIDE DEF s
<1> QED
  BY <1>5, <1>11, <1>12, <1>13 DEF s, a, b

\* Entries appended after a position that the log contains.
LEMMA AppendEdges ==
  ASSUME NEW C, NEW es \in Entries(C), NEW more \in Entries(C), Contains(es, more.prev)
  PROVE  LET s == AppendUnchecked(es, more) IN
         /\ s \in Entries(C)
         /\ s.prev = es.prev
         /\ Edges(s) \subseteq Edges(es) \cup Edges(more)
         /\ LastPosition(s) = LastPosition(more)
<1> DEFINE s == AppendUnchecked(es, more)
           b == more.prev.index
<1>1. /\ es.prev.index \in Nat /\ LastIndex(es) \in Nat
      /\ b \in Nat /\ LastIndex(more) \in Nat /\ b <= LastIndex(more)
      /\ es.prev.index <= b /\ b <= LastIndex(es)
      /\ TermAt(es, b) = TermAt(more, b)
  <2>1. TermAt(more, b) = more.prev.term
    BY DEF TermAt
  <2> QED
    BY <2>1, EntriesFacts, TermAtTyped DEF Contains
<1>2. /\ s \in Entries(C)
      /\ s.prev = es.prev
      /\ LastIndex(s) = LastIndex(more)
      /\ \A i \in es.prev.index + 1 .. b : EntryAt(s, i) = EntryAt(es, i)
      /\ \A i \in b + 1 .. LastIndex(more) : EntryAt(s, i) = EntryAt(more, i)
  BY AppendContained DEF Contains
<1> HIDE DEF s
<1>3. /\ \A i \in es.prev.index .. b : TermAt(s, i) = TermAt(es, i)
      /\ \A i \in es.prev.index + 1 .. b : Edge(s, i) = Edge(es, i)
  <2>1. TermAt(s, es.prev.index) = TermAt(es, es.prev.index)
    BY <1>2 DEF TermAt
  <2>2. /\ es.prev.index <= es.prev.index /\ s.prev.index <= es.prev.index
        /\ b <= LastIndex(s) /\ b <= LastIndex(es)
    BY <1>1, <1>2
  <2> HIDE DEF b
  <2> QED
    BY <1>1, <1>2, <2>1, <2>2, SameEdges
<1>4. /\ \A i \in b .. LastIndex(more) : TermAt(s, i) = TermAt(more, i)
      /\ \A i \in b + 1 .. LastIndex(more) : Edge(s, i) = Edge(more, i)
  <2>1. TermAt(s, b) = TermAt(more, b)
    BY <1>1, <1>3
  <2>2. /\ s.prev.index <= b /\ more.prev.index <= b
        /\ LastIndex(more) <= LastIndex(s) /\ LastIndex(more) <= LastIndex(more)
    BY <1>1, <1>2
  <2> HIDE DEF b
  <2> QED
    BY <1>1, <1>2, <2>1, <2>2, SameEdges
<1>5. ASSUME NEW i \in s.prev.index + 1 .. LastIndex(s)
      PROVE  Edge(s, i) \in Edges(es) \cup Edges(more)
  <2>1. CASE i <= b
    <3>1. i \in es.prev.index + 1 .. b /\ i \in es.prev.index + 1 .. LastIndex(es)
      BY <1>1, <1>2, <2>1
    <3> QED
      BY <1>3, <3>1, EdgeIn
  <2>2. CASE ~(i <= b)
    <3>1. i \in b + 1 .. LastIndex(more)
      BY <1>1, <1>2, <2>2
    <3> QED
      BY <1>4, <3>1, EdgeIn
  <2> QED
    BY <2>1, <2>2
<1>6. LastPosition(s) = LastPosition(more)
  BY <1>1, <1>2, <1>4 DEF LastPosition
<1> QED
  BY <1>2, <1>5, <1>6 DEF Edges, s

\* One more entry.
LEMMA PushEdges ==
  ASSUME NEW C, NEW es \in Entries(C), NEW e \in Entry(C),
         LastIndex(es) = 0 => e.kind = "ClusterConfig"
  PROVE  LET s == Push(es, e)
             one == [prev |-> LastPosition(es), ents |-> <<e>>]
             edge == [before |-> LastPosition(es).term, index |-> LastIndex(es) + 1, entry |-> e]
         IN  /\ s \in Entries(C)
             /\ s.prev = es.prev
             /\ LastIndex(s) = LastIndex(es) + 1
             /\ LastPosition(s) = Pos(e.term, LastIndex(es) + 1)
             /\ Edges(s) = Edges(es) \cup {edge}
             /\ one \in Entries(C)
             /\ one.prev = LastPosition(es)
             /\ LastPosition(one) = LastPosition(s)
             /\ Edges(one) = {edge}
<1> DEFINE s == Push(es, e)
           one == [prev |-> LastPosition(es), ents |-> <<e>>]
           n == LastIndex(es)
           edge == [before |-> LastPosition(es).term, index |-> n + 1, entry |-> e]
<1>1. /\ s \in Entries(C)
      /\ s.prev = es.prev
      /\ LastIndex(s) = n + 1
      /\ EntryAt(s, n + 1) = e
      /\ \A i \in es.prev.index + 1 .. n : EntryAt(s, i) = EntryAt(es, i)
  BY PushTyped
<1>2. /\ es.prev.index \in Nat /\ n \in Nat /\ es.prev.index <= n
      /\ LastPosition(es) = Pos(TermAt(es, n), n)
      /\ LastPosition(es) \in Position /\ LastPosition(es).index = n
  BY EntriesFacts, LastPositionTyped DEF LastPosition
<1> HIDE DEF s
<1>3. /\ \A i \in es.prev.index .. n : TermAt(s, i) = TermAt(es, i)
      /\ \A i \in es.prev.index + 1 .. n : Edge(s, i) = Edge(es, i)
  <2>1. TermAt(s, es.prev.index) = TermAt(es, es.prev.index)
    BY <1>1 DEF TermAt
  <2>2. s.prev.index <= es.prev.index /\ es.prev.index <= es.prev.index
        /\ n <= LastIndex(s) /\ n <= LastIndex(es)
    BY <1>1, <1>2
  <2> HIDE DEF n
  <2> QED
    BY <1>1, <1>2, <2>1, <2>2, SameEdges DEF n
<1>4. n + 1 \in s.prev.index + 1 .. LastIndex(s) /\ n \in es.prev.index .. n
  BY <1>1, <1>2
<1>5. TermAt(s, n + 1) = e.term
  BY <1>1, <1>4, TermAtEntry
<1>6. LastPosition(s) = Pos(e.term, n + 1)
  BY <1>1, <1>5 DEF LastPosition
<1>7. Edge(s, n + 1) = edge
  <2>1. (n + 1) - 1 = n
    BY <1>2
  <2>2. TermAt(s, n) = LastPosition(es).term
    BY <1>2, <1>3, <1>4 DEF Pos
  <2>3. TermAt(s, (n + 1) - 1) = LastPosition(es).term
    BY <2>1, <2>2
  <2> HIDE DEF n
  <2> QED
    BY <1>1, <2>3, EdgeIs
<1>8. Edges(s) = Edges(es) \cup {edge}
  <2>1. s.prev.index + 1 .. LastIndex(s) = (es.prev.index + 1 .. n) \cup {n + 1}
    BY <1>1, <1>2
  <2>2. Edges(s) = {Edge(s, i) : i \in es.prev.index + 1 .. n} \cup {Edge(s, n + 1)}
    BY <2>1 DEF Edges
  <2>3. {Edge(s, i) : i \in es.prev.index + 1 .. n} = Edges(es)
    BY <1>3 DEF Edges
  <2> QED
    BY <1>7, <2>2, <2>3
<1>9. /\ one \in Entries(C)
      /\ one.prev = LastPosition(es)
      /\ one.ents = <<e>>
      /\ Len(one.ents) = 1
      /\ LastIndex(one) = n + 1
      /\ EntryAt(one, n + 1) = e
  <2>1. <<e>> \in Seq(Entry(C)) /\ Len(<<e>>) = 1 /\ <<e>>[1] = e
    OBVIOUS
  <2>2. n + 1 - n = 1
    BY <1>2
  <2>3. one \in Entries(C)
    BY <1>2, <2>1, MakeEntries
  <2> QED
    BY <1>2, <2>1, <2>2, <2>3 DEF LastIndex, EntryAt
<1> HIDE DEF one
<1>10. n + 1 \in one.prev.index + 1 .. LastIndex(one) /\ one.prev.index = n
  BY <1>2, <1>9
<1>11. LastPosition(one) = Pos(e.term, n + 1)
  BY <1>9, <1>10, TermAtEntry DEF LastPosition
<1>12. Edges(one) = {edge}
  <2>1. one.prev.index + 1 .. LastIndex(one) = {n + 1}
    BY <1>2, <1>9, <1>10
  <2>2. Edges(one) = {Edge(one, n + 1)}
    BY <2>1 DEF Edges
  <2>3. (n + 1) - 1 = one.prev.index
    BY <1>2, <1>10
  <2>4. TermAt(one, (n + 1) - 1) = LastPosition(es).term
    BY <1>9, <2>3 DEF TermAt
  <2>5. Edge(one, n + 1) = edge
    <3> HIDE DEF n
    <3> QED
      BY <1>9, <2>4, EdgeIs
  <2> QED
    BY <2>2, <2>5
<1> QED
  BY <1>1, <1>6, <1>8, <1>9, <1>11, <1>12 DEF s, one

\* No Term entry, no other term.
LEMMA SameTerm ==
  ASSUME NEW C, NEW es \in Entries(C), \A e \in Edges(es) : TermsStep(e),
         NEW lo \in Nat, NEW hi \in Nat, es.prev.index <= lo, lo <= hi, hi <= LastIndex(es),
         \A i \in lo + 1 .. hi : EntryAt(es, i).kind # "Term"
  PROVE  TermAt(es, hi) = TermAt(es, lo)
<1> DEFINE K == {i \in lo .. hi : TermAt(es, i) # TermAt(es, lo)}
<1> SUFFICES ASSUME K # {} PROVE FALSE
  <2>1. hi \in lo .. hi
    OBVIOUS
  <2> QED
    BY <2>1
<1>1. PICK m \in K : \A k \in K : m <= k
  <2>1. K \subseteq Nat
    OBVIOUS
  <2> HIDE DEF K
  <2> QED
    BY <2>1, LeastIndex
<1>2. es.prev.index \in Nat /\ LastIndex(es) \in Nat /\ m \in lo .. hi
      /\ TermAt(es, m) # TermAt(es, lo)
  BY <1>1, EntriesFacts
<1>3. m # lo
  BY <1>2
<1>4. /\ m \in lo + 1 .. hi
      /\ m \in es.prev.index + 1 .. LastIndex(es)
      /\ m - 1 \in lo .. hi
      /\ ~(m <= m - 1)
  BY <1>2, <1>3
<1>5. TermAt(es, m - 1) = TermAt(es, lo)
  <2>1. m - 1 \notin K
    <3> HIDE DEF K
    <3> QED
      BY <1>1, <1>4
  <2> QED
    BY <1>4, <2>1
<1>6. EntryAt(es, m).term = TermAt(es, m - 1)
  <2>1. TermsStep(Edge(es, m)) /\ EntryAt(es, m).kind # "Term"
    BY <1>4, EdgeIn
  <2> QED
    BY <2>1 DEF TermsStep, Edge
<1>7. TermAt(es, m) = EntryAt(es, m).term
  BY <1>4, TermAtEntry
<1> QED
  BY <1>2, <1>5, <1>6, <1>7

-----------------------------------------------------------------------------
(* strip_common_prefix and handle_snapshot_installed. *)

\* What a follower appends of a leader's entries is not empty and continues its log.
LEMMA StripTyped ==
  ASSUME NEW C, NEW es \in Entries(C), NEW local \in Entries(C),
         ~Contains(local, LastPosition(es)), Contains(local, es.prev)
  PROVE  LET d == StripCommonPrefix(es, local) IN
         /\ d \in Entries(C) /\ d.ents # <<>> /\ LastIndex(d) = LastIndex(es)
         /\ Contains(local, d.prev)
         /\ (\A e \in Edges(es) : TermsStep(e)) => Edges(d) \subseteq Edges(es)
<1> DEFINE last == LastPosition(local)
           bounds == {i \in es.prev.index + 1 .. LastIndex(es) : EntryAt(es, i).kind = "Term"}
           at(i) == Pos(EntryAt(es, i).term, i)
           fresh == {i \in bounds : ~Contains(local, at(i))}
           first == CHOOSE i \in fresh : \A j \in fresh : i <= j
           known == {at(i) : i \in {j \in bounds : j < first}} \cup {es.prev}
           common == CHOOSE p \in known : \A q \in known : q.index <= p.index
           candidate == Pos(common.term, first - 1)
           d == StripCommonPrefix(es, local)
           stepping == \A e \in Edges(es) : TermsStep(e)
<1> SUFFICES /\ d \in Entries(C) /\ d.ents # <<>> /\ LastIndex(d) = LastIndex(es)
             /\ Contains(local, d.prev)
             /\ stepping => Edges(d) \subseteq Edges(es)
  OBVIOUS
<1>1. /\ es.prev.index \in Nat /\ LastIndex(es) \in Nat /\ es.prev \in Position
      /\ es.prev.index <= LastIndex(es)
      /\ \A i \in es.prev.index + 1 .. LastIndex(es) : EntryAt(es, i) \in Entry(C)
      /\ es.ents = <<>> <=> LastIndex(es) = es.prev.index
  BY EntriesFacts
<1>2. ASSUME NEW p \in Position, ContainsIndex(es, p.index), p.index < LastIndex(es),
             Contains(local, p)
      PROVE  /\ Since(es, p) \in Entries(C) /\ Since(es, p).ents # <<>>
             /\ LastIndex(Since(es, p)) = LastIndex(es)
             /\ Contains(local, Since(es, p).prev)
             /\ Contains(es, p) => Edges(Since(es, p)) \subseteq Edges(es)
  BY <1>2, SinceTyped, SinceEdges
<1>3. es.ents # <<>>
  <2> SUFFICES ASSUME es.ents = <<>> PROVE FALSE
    OBVIOUS
  <2>1. LastPosition(es) = Pos(es.prev.term, es.prev.index)
    BY <1>1 DEF LastPosition, TermAt
  <2>2. LastPosition(es) = es.prev
    BY <1>1, <2>1 DEF Pos, Position
  <2> QED
    BY <2>2
<1>4. d = IF es.prev # last /\ Contains(es, last) THEN Since(es, last)
          ELSE IF es.prev = last \/ fresh = {} THEN es
          ELSE IF Contains(local, candidate) THEN Since(es, candidate)
          ELSE Since(es, common)
  BY DEF StripCommonPrefix
<1>5. CASE es.prev # last /\ Contains(es, last)
  <2>1. last \in Position /\ ContainsIndex(es, last.index) /\ Contains(local, last)
    BY <1>5, LastPositionTyped DEF Contains
  <2>2. last.index <= LastIndex(es) /\ last.index \in Nat
    BY <2>1, TermAtTyped
  <2>3. last.index # LastIndex(es)
    <3> SUFFICES ASSUME last.index = LastIndex(es) PROVE FALSE
      OBVIOUS
    <3>1. TermAt(es, LastIndex(es)) = last.term
      BY <1>5 DEF Contains
    <3>2. last = Pos(last.term, last.index)
      BY <2>1 DEF Position, Pos
    <3> HIDE DEF last
    <3>3. LastPosition(es) = last
      BY <3>1, <3>2 DEF LastPosition
    <3> QED
      BY <2>1, <3>3
  <2> HIDE DEF last, fresh, candidate, common, d
  <2> QED
    BY <1>1, <1>2, <1>4, <1>5, <2>1, <2>2, <2>3
<1>6. CASE ~(es.prev # last /\ Contains(es, last)) /\ (es.prev = last \/ fresh = {})
  <2> HIDE DEF last, fresh, candidate, common, d
  <2>1. d = es
    BY <1>4, <1>6
  <2> QED
    BY <1>3, <2>1
<1>7. CASE ~(es.prev # last /\ Contains(es, last)) /\ fresh # {} /\ es.prev # last
  <2>1. d = IF Contains(local, candidate) THEN Since(es, candidate) ELSE Since(es, common)
    <3> HIDE DEF last, fresh, candidate, common, d
    <3> QED
      BY <1>4, <1>7
  <2> HIDE DEF d
  <2>2. first \in fresh /\ \A j \in fresh : first <= j
    <3>1. fresh \subseteq Nat
      BY <1>1
    <3>2. \E i \in fresh : \A j \in fresh : i <= j
      <4> HIDE DEF fresh
      <4> QED
        BY <1>7, <3>1, LeastIndex
    <3> HIDE DEF fresh
    <3> QED
      BY <3>2
  <2>3. /\ first \in Nat /\ es.prev.index < first /\ first <= LastIndex(es)
        /\ \A i \in bounds : i < first => Contains(local, at(i))
    <3>1. first \in bounds
      BY <2>2
    <3>2. \A i \in bounds : i \in Nat
      BY <1>1
    <3>3. \A i \in bounds : i < first => i \notin fresh
      <4> HIDE DEF bounds, fresh, first
      <4>1. \A i \in fresh : i \in Nat /\ first \in Nat
        BY <2>2, <3>1, <3>2 DEF fresh
      <4> QED
        BY <2>2, <4>1
    <3> HIDE DEF first
    <3> QED
      BY <1>1, <3>1, <3>3
  <2> HIDE DEF first, fresh
  <2>4. \A p \in known : /\ p \in Position
                         /\ p.index \in es.prev.index .. first - 1
                         /\ Contains(local, p)
                         /\ Contains(es, p)
    <3>1. ASSUME NEW i \in bounds, i < first
          PROVE  /\ at(i) \in Position
                 /\ at(i).index \in es.prev.index .. first - 1
                 /\ Contains(local, at(i))
                 /\ Contains(es, at(i))
      <4>1. EntryAt(es, i).term \in Nat /\ i \in Nat /\ es.prev.index < i
        BY <1>1, EntryFacts
      <4>2. Contains(es, at(i))
        BY TermAtEntry DEF Contains, Pos
      <4> QED
        BY <1>1, <2>3, <3>1, <4>1, <4>2 DEF Position, Pos
    <3>2. /\ es.prev.index \in es.prev.index .. first - 1
          /\ Contains(es, es.prev)
      BY <1>1, <2>3 DEF Contains, ContainsIndex, TermAt
    <3> HIDE DEF at, bounds
    <3> QED
      BY <1>1, <3>1, <3>2
  <2>5. common \in known /\ \A q \in known : q.index <= common.index
    <3> DEFINE K == {p.index : p \in known}
    <3>1. K \subseteq 0 .. LastIndex(es) /\ K # {}
      <4>1. \A p \in known : p.index \in 0 .. LastIndex(es)
        BY <1>1, <2>3, <2>4
      <4> QED
        BY <4>1
    <3>2. PICK m \in K : \A k \in K : k <= m
      <4> HIDE DEF K
      <4> QED
        BY <1>1, <3>1, GreatestIndex
    <3>3. PICK p \in known : p.index = m
      OBVIOUS
    <3>4. \A q \in known : q.index <= p.index
      BY <3>2, <3>3
    <3> HIDE DEF known, K
    <3> QED
      BY <3>4
  <2>8. \A i \in bounds : i < first => i <= common.index
    <3>1. ASSUME NEW i \in bounds, i < first
          PROVE  at(i).index <= common.index
      <4> HIDE DEF common
      <4> QED
        BY <2>5, <3>1
    <3> HIDE DEF common
    <3> QED
      BY <3>1 DEF Pos
  <2> HIDE DEF known, common
  <2>6. /\ common \in Position /\ common.index \in Nat /\ common.index < LastIndex(es)
        /\ ContainsIndex(es, common.index) /\ Contains(local, common)
        /\ Contains(es, common)
        /\ es.prev.index <= common.index /\ common.index <= first - 1
    <3>1. common.index \in es.prev.index .. first - 1
      BY <2>4, <2>5
    <3> QED
      BY <1>1, <2>3, <2>4, <2>5, <3>1 DEF ContainsIndex
  <2>7. candidate \in Position /\ ContainsIndex(es, candidate.index)
        /\ candidate.index < LastIndex(es)
    BY <1>1, <2>3, <2>6 DEF Position, Pos, ContainsIndex
  <2>9. stepping => Contains(es, candidate)
    <3> SUFFICES ASSUME stepping PROVE Contains(es, candidate)
      OBVIOUS
    <3>1. \A i \in common.index + 1 .. first - 1 : EntryAt(es, i).kind # "Term"
      <4> TAKE i \in common.index + 1 .. first - 1
      <4>1. /\ i \in es.prev.index + 1 .. LastIndex(es) /\ i < first
            /\ ~(i <= common.index)
        BY <1>1, <2>3, <2>6
      <4> QED
        BY <2>8, <4>1
    <3>2. TermAt(es, first - 1) = TermAt(es, common.index)
      <4>1. first - 1 \in Nat /\ first - 1 <= LastIndex(es)
        BY <1>1, <2>3
      <4> QED
        BY <2>6, <3>1, <4>1, SameTerm
    <3> QED
      BY <2>6, <2>7, <3>2 DEF Contains, Pos
  <2> HIDE DEF candidate, stepping
  <2> QED
    BY <1>2, <2>1, <2>6, <2>7, <2>9
<1> HIDE DEF last, fresh, d
<1> QED
  BY <1>5, <1>6, <1>7

LEMMA RebaseEntriesTyped ==
  ASSUME NEW C, NEW es \in Entries(C), NEW p \in Position
  PROVE  RebaseEntries(es, p) \in Entries(C)
<1>1. CASE p.index < es.prev.index
  BY <1>1 DEF RebaseEntries
<1>2. CASE ~(p.index < es.prev.index) /\ Contains(es, p)
  BY <1>2, SinceTyped DEF RebaseEntries, Contains
<1>3. CASE ~(p.index < es.prev.index) /\ ~Contains(es, p)
  BY <1>3, NewEntriesTyped DEF RebaseEntries
<1> QED
  BY <1>1, <1>2, <1>3

-----------------------------------------------------------------------------
(* One log extends another. *)

LEMMA ExtendsReflexive ==
  ASSUME NEW C, NEW es \in Entries(C) PROVE Extends(es, es)
  BY EntriesFacts DEF Extends

LEMMA ExtendsTransitive ==
  ASSUME NEW C, NEW a \in Entries(C), NEW b \in Entries(C), NEW c \in Entries(C),
         Extends(a, b), Extends(b, c)
  PROVE  Extends(a, c)
<1>1. /\ a.prev.index \in Nat /\ b.prev.index \in Nat /\ c.prev.index \in Nat
      /\ LastIndex(a) \in Nat /\ LastIndex(b) \in Nat /\ LastIndex(c) \in Nat
  BY EntriesFacts
<1>2. /\ a.prev.index <= b.prev.index /\ b.prev.index <= c.prev.index
      /\ LastIndex(a) <= LastIndex(b) /\ LastIndex(b) <= LastIndex(c)
  BY DEF Extends
<1>3. \A i \in c.prev.index + 1 .. LastIndex(a) : EntryAt(a, i) = EntryAt(c, i)
  <2> TAKE i \in c.prev.index + 1 .. LastIndex(a)
  <2>1. i \in b.prev.index + 1 .. LastIndex(a) /\ i \in c.prev.index + 1 .. LastIndex(b)
    BY <1>1, <1>2
  <2> QED
    BY <2>1 DEF Extends
<1> QED
  BY <1>1, <1>2, <1>3 DEF Extends

LEMMA SinceExtends ==
  ASSUME NEW C, NEW es \in Entries(C), NEW p \in Position, ContainsIndex(es, p.index)
  PROVE  Extends(es, Since(es, p))
<1>1. /\ Since(es, p).prev = p
      /\ LastIndex(Since(es, p)) = LastIndex(es)
      /\ \A i \in p.index + 1 .. LastIndex(es) : EntryAt(Since(es, p), i) = EntryAt(es, i)
  BY SinceTyped
<1>2. es.prev.index <= p.index /\ LastIndex(es) \in Nat
  BY TermAtTyped, EntriesFacts
<1> HIDE DEF Since
<1> QED
  BY <1>1, <1>2 DEF Extends

-----------------------------------------------------------------------------
(* Logs. *)

LEMMA LogFacts ==
  ASSUME NEW C, NEW log \in Logs(C)
  PROVE  /\ log = [snapshot_config |-> log.snapshot_config, entries |-> log.entries]
         /\ log.entries \in Entries(C)
         /\ log.entries.prev.index = 0 => log.snapshot_config = EmptyConfig
         /\ log.entries.prev.index # 0 => log.snapshot_config \in C
  BY DEF Logs

LEMMA MakeLog ==
  ASSUME NEW C, NEW c, NEW es \in Entries(C),
         es.prev.index = 0 => c = EmptyConfig,
         es.prev.index # 0 => c \in C
  PROVE  [snapshot_config |-> c, entries |-> es] \in Logs(C)
  BY DEF Logs

\* A log with other entries after the same snapshot.
LEMMA WithEntries ==
  ASSUME NEW C, NEW log \in Logs(C), NEW es \in Entries(C), es.prev = log.entries.prev
  PROVE  [log EXCEPT !.entries = es] \in Logs(C)
<1>1. [log EXCEPT !.entries = es] = [snapshot_config |-> log.snapshot_config, entries |-> es]
  BY LogFacts
<1> QED
  BY <1>1, LogFacts, MakeLog

LEMMA EmptyLogTyped == ASSUME NEW C PROVE EmptyLog \in Logs(C)
<1>1. ZERO \in Position /\ ZERO.index = 0
  BY DEF ZERO, Pos, Position
<1>2. NewEntries(ZERO) \in Entries(C) /\ NewEntries(ZERO).prev = ZERO
  BY <1>1, NewEntriesTyped DEF NewEntries
<1> QED
  BY <1>1, <1>2, MakeLog DEF EmptyLog

LEMMA InstallInLogTyped ==
  ASSUME NEW C, NEW log \in Logs(C), NEW p \in Position, NEW config,
         p.index = 0 => config = EmptyConfig,
         p.index # 0 => config \in C
  PROVE  LET l == InstallInLog(log, p, config) IN
         /\ l \in Logs(C)
         /\ l.entries.prev = p
         /\ LastIndex(l.entries) \in {p.index, LastIndex(log.entries)}
         /\ Contains(log.entries, p) => /\ Extends(log.entries, l.entries)
                                        /\ LastIndex(l.entries) = LastIndex(log.entries)
<1> DEFINE es == IF Contains(log.entries, p) THEN Since(log.entries, p) ELSE NewEntries(p)
<1>1. log.entries \in Entries(C)
  BY LogFacts
<1>2. CASE Contains(log.entries, p)
  <2>1. /\ es \in Entries(C) /\ es.prev = p /\ LastIndex(es) = LastIndex(log.entries)
        /\ Extends(log.entries, es)
    BY <1>1, <1>2, SinceTyped, SinceExtends DEF Contains
  <2> HIDE DEF es
  <2>2. InstallInLog(log, p, config) = [snapshot_config |-> config, entries |-> es]
    BY DEF InstallInLog, es
  <2> QED
    BY <2>1, <2>2, MakeLog
<1>3. CASE ~Contains(log.entries, p)
  <2>1. es \in Entries(C) /\ es.prev = p /\ LastIndex(es) = p.index
    BY <1>3, NewEntriesTyped, EmptySeq DEF NewEntries, LastIndex, Position
  <2> HIDE DEF es
  <2>2. InstallInLog(log, p, config) = [snapshot_config |-> config, entries |-> es]
    BY DEF InstallInLog, es
  <2> QED
    BY <1>3, <2>1, <2>2, MakeLog
<1> QED
  BY <1>2, <1>3

LEMMA InstallEdges ==
  ASSUME NEW C, NEW log \in Logs(C), NEW p \in Position, NEW config
  PROVE  LET es == InstallInLog(log, p, config).entries IN
         /\ Edges(es) \subseteq Edges(log.entries)
         /\ Contains(log.entries, p) => LastPosition(es) = LastPosition(log.entries)
<1> DEFINE es == IF Contains(log.entries, p) THEN Since(log.entries, p) ELSE NewEntries(p)
<1>1. log.entries \in Entries(C)
  BY LogFacts
<1>2. InstallInLog(log, p, config).entries = es
  BY DEF InstallInLog
<1>3. CASE Contains(log.entries, p)
  BY <1>1, <1>2, <1>3, SinceEdges
<1>4. CASE ~Contains(log.entries, p)
  BY <1>2, <1>4, EdgesOfNone
<1> QED
  BY <1>3, <1>4

\* The configuration at an index is in C, except at index 0.
LEMMA GetConfigTyped ==
  ASSUME NEW C, NEW log \in Logs(C), NEW i, ContainsIndex(log.entries, i)
  PROVE  /\ i = 0 => GetConfig(log, i) = EmptyConfig
         /\ i # 0 => GetConfig(log, i) \in C
<1> DEFINE es == log.entries
           at == {j \in es.prev.index + 1 .. i : EntryAt(es, j).kind = "ClusterConfig"}
           last == CHOOSE j \in at : \A k \in at : k <= j
<1>1. /\ es \in Entries(C)
      /\ es.prev.index = 0 => log.snapshot_config = EmptyConfig
      /\ es.prev.index # 0 => log.snapshot_config \in C
  BY LogFacts
<1>2. /\ i \in Nat /\ es.prev.index \in Nat /\ es.prev.index <= i /\ i <= LastIndex(es)
      /\ LastIndex(es) = es.prev.index + Len(es.ents) /\ Len(es.ents) \in Nat
      /\ (es.ents = <<>> <=> Len(es.ents) = 0)
      /\ ConfigFirst(es)
      /\ \A j \in es.prev.index + 1 .. LastIndex(es) : EntryAt(es, j) \in Entry(C)
  BY <1>1, TermAtTyped, EntriesFacts
<1>3. GetConfig(log, i) = IF at = {} THEN log.snapshot_config ELSE EntryAt(es, last).config
  BY DEF GetConfig
<1>4. CASE at = {}
  <2>1. i # 0 => es.prev.index # 0
    <3> SUFFICES ASSUME i # 0, es.prev.index = 0 PROVE FALSE
      OBVIOUS
    <3>1. es.ents # <<>> /\ 1 \in es.prev.index + 1 .. i /\ 1 - es.prev.index = 1
      BY <1>2
    <3>2. EntryAt(es, 1).kind = "ClusterConfig"
      BY <1>2, <3>1 DEF ConfigFirst, EntryAt
    <3>3. 1 \in at
      BY <3>1, <3>2
    <3> QED
      BY <1>4, <3>3
  <2>2. i = 0 => es.prev.index = 0
    BY <1>2
  <2> HIDE DEF at, last
  <2> QED
    BY <1>1, <1>3, <1>4, <2>1, <2>2
<1>5. CASE at # {}
  <2>1. at \subseteq 0 .. i /\ \A j \in at : j # 0
    BY <1>2
  <2>2. \E j \in at : \A k \in at : k <= j
    <3> HIDE DEF at
    <3> QED
      BY <1>2, <1>5, <2>1, GreatestIndex
  <2>3. last \in at
    <3> HIDE DEF at
    <3> QED
      BY <2>2
  <2>4. EntryAt(es, last).kind = "ClusterConfig" /\ last \in es.prev.index + 1 .. i
    BY <2>3
  <2> HIDE DEF last
  <2>5. last \in es.prev.index + 1 .. LastIndex(es) /\ i # 0
    BY <1>2, <2>4
  <2>6. EntryAt(es, last).config \in C
    BY <1>2, <2>4, <2>5, EntryFacts
  <2> HIDE DEF at
  <2> QED
    BY <1>3, <1>5, <2>5, <2>6
<1> QED
  BY <1>4, <1>5

LEMMA LatestConfigTyped ==
  ASSUME NEW C, NEW log \in Logs(C)
  PROVE  /\ LastIndex(log.entries) = 0 => LatestConfig(log) = EmptyConfig
         /\ LastIndex(log.entries) # 0 => LatestConfig(log) \in C
<1>1. ContainsIndex(log.entries, LastIndex(log.entries))
  BY LogFacts, LastPositionTyped
<1> QED
  BY <1>1, GetConfigTyped DEF LatestConfig

\* A configuration that is pushed is the latest one.
LEMMA LatestConfigPushed ==
  ASSUME NEW C, NEW log \in Logs(C), NEW e \in Entry(C), e.kind = "ClusterConfig",
         NEW log2, log2.entries = Push(log.entries, e)
  PROVE  LatestConfig(log2) = e.config
<1> DEFINE es == Push(log.entries, e)
           n == LastIndex(es)
           at == {j \in es.prev.index + 1 .. n : EntryAt(es, j).kind = "ClusterConfig"}
           last == CHOOSE j \in at : \A k \in at : k <= j
<1>1. log.entries \in Entries(C)
  BY LogFacts
<1>2. /\ es \in Entries(C) /\ EntryAt(es, n) = e
      /\ n = LastIndex(log.entries) + 1 /\ es.prev = log.entries.prev
  BY <1>1, PushTyped
<1>3. LastIndex(log.entries) \in Nat /\ log.entries.prev.index <= LastIndex(log.entries)
      /\ log.entries.prev.index \in Nat
  BY <1>1, EntriesFacts
<1>4. LatestConfig(log2) = IF at = {} THEN log2.snapshot_config ELSE EntryAt(es, last).config
  BY DEF LatestConfig, GetConfig
<1> HIDE DEF es, n
<1>5. n \in at /\ \A k \in at : k <= n /\ k \in Nat
  BY <1>2, <1>3
<1>6. last = n
  <2>1. last \in at /\ \A k \in at : k <= last
    <3> HIDE DEF at
    <3> QED
      BY <1>5
  <2> HIDE DEF at, last
  <2> QED
    BY <1>5, <2>1
<1> HIDE DEF at, last
<1> QED
  BY <1>2, <1>4, <1>5, <1>6

-----------------------------------------------------------------------------
(* The tree of everything that was ever written: G is a set of logs that   *)
(* start at index 0, a position is on the tree if one of them contains it. *)

OnTree(G, p) == \E g \in G : Contains(g, p)

\* p is at or below q on the line of the tree that leads to q.
Before(G, p, q) == p.index <= q.index /\ \E g \in G : Contains(g, p) /\ Contains(g, q)

\* Terms rise along a log; logs that meet agree before; a term writes one line.
Ascends(g) ==
  \A i \in 0 .. LastIndex(g) : \A j \in i .. LastIndex(g) : TermAt(g, i) <= TermAt(g, j)
Agree(g, h) ==
  \A i \in 1 .. LastIndex(g) :
    (i <= LastIndex(h) /\ TermAt(g, i) = TermAt(h, i))
      => \A j \in 1 .. i : EntryAt(g, j) = EntryAt(h, j)
OneLine(g, h) ==
  \A i \in 0 .. LastIndex(g) : \A j \in i .. LastIndex(h) :
    TermAt(g, i) = TermAt(h, j) => TermAt(h, i) = TermAt(g, i)

Tree(G, C) ==
  /\ \A g \in G : g \in Entries(C) /\ g.prev = ZERO /\ Ascends(g)
  /\ \A g, h \in G : Agree(g, h) /\ OneLine(g, h)

\* The entries es are a part of the log g.
PartOf(es, g) ==
  /\ LastIndex(es) <= LastIndex(g)
  /\ TermAt(g, es.prev.index) = es.prev.term
  /\ \A i \in es.prev.index + 1 .. LastIndex(es) : EntryAt(es, i) = EntryAt(g, i)

Backed(G, es) == \E g \in G : PartOf(es, g)

LEMMA FullFacts ==
  ASSUME NEW C, NEW g \in Entries(C), g.prev = ZERO
  PROVE  /\ g.prev.index = 0
         /\ LastIndex(g) \in Nat
         /\ TermAt(g, 0) = 0
         /\ \A i \in 1 .. LastIndex(g) : TermAt(g, i) = EntryAt(g, i).term
         /\ \A i \in 0 .. LastIndex(g) : TermAt(g, i) \in Nat
         /\ \A p : Contains(g, p) <=> p.index \in 0 .. LastIndex(g) /\ TermAt(g, p.index) = p.term
<1>1. g.prev.index = 0 /\ g.prev.term = 0
  BY DEF ZERO, Pos
<1>2. LastIndex(g) \in Nat
  BY EntriesFacts
<1>3. TermAt(g, 0) = 0
  BY <1>1 DEF TermAt
<1>4. \A i \in 1 .. LastIndex(g) : TermAt(g, i) = EntryAt(g, i).term
  BY <1>1, TermAtEntry
<1>5. \A i \in 0 .. LastIndex(g) : TermAt(g, i) \in Nat
  BY <1>1, TermAtTyped DEF ContainsIndex
<1>6. \A p : Contains(g, p) <=> p.index \in 0 .. LastIndex(g) /\ TermAt(g, p.index) = p.term
  BY <1>1 DEF Contains, ContainsIndex
<1> QED
  BY <1>1, <1>2, <1>3, <1>4, <1>5, <1>6

\* Logs of the tree that contain one position have the same entries and terms up to it.
LEMMA SameBelow ==
  ASSUME NEW C, NEW G, Tree(G, C), NEW g \in G, NEW h \in G, NEW p,
         Contains(g, p), Contains(h, p)
  PROVE  /\ \A j \in 1 .. p.index : EntryAt(g, j) = EntryAt(h, j)
         /\ \A j \in 0 .. p.index : TermAt(g, j) = TermAt(h, j)
<1>1. /\ g \in Entries(C) /\ g.prev = ZERO /\ h \in Entries(C) /\ h.prev = ZERO
      /\ Agree(g, h)
  BY DEF Tree
<1>2. /\ p.index \in 0 .. LastIndex(g) /\ p.index \in 0 .. LastIndex(h)
      /\ TermAt(g, p.index) = TermAt(h, p.index)
  BY <1>1, FullFacts
<1>3. LastIndex(g) \in Nat /\ LastIndex(h) \in Nat
  BY <1>1, FullFacts
<1>4. ASSUME NEW j \in 1 .. p.index PROVE EntryAt(g, j) = EntryAt(h, j)
  <2>1. p.index \in 1 .. LastIndex(g) /\ p.index <= LastIndex(h)
    BY <1>2, <1>3
  <2> QED
    BY <1>1, <1>2, <2>1 DEF Agree
<1>5. ASSUME NEW j \in 0 .. p.index PROVE TermAt(g, j) = TermAt(h, j)
  <2>1. CASE j = 0
    BY <1>1, <2>1, FullFacts
  <2>2. CASE j # 0
    <3>1. j \in 1 .. p.index /\ j \in 1 .. LastIndex(g) /\ j \in 1 .. LastIndex(h)
      BY <1>2, <1>3, <2>2
    <3>2. TermAt(g, j) = EntryAt(g, j).term /\ TermAt(h, j) = EntryAt(h, j).term
      BY <1>1, <3>1, FullFacts
    <3> QED
      BY <1>4, <3>1, <3>2
  <2> QED
    BY <2>1, <2>2
<1> QED
  BY <1>4, <1>5

LEMMA BeforeFacts ==
  ASSUME NEW C, NEW G, Tree(G, C), NEW p, NEW q, Before(G, p, q)
  PROVE  /\ p.index \in Nat /\ q.index \in Nat /\ p.index <= q.index
         /\ p.term \in Nat /\ q.term \in Nat /\ p.term <= q.term
         /\ OnTree(G, p) /\ OnTree(G, q)
<1>1. PICK g \in G : Contains(g, p) /\ Contains(g, q)
  BY DEF Before
<1>2. g \in Entries(C) /\ g.prev = ZERO /\ Ascends(g)
  BY DEF Tree
<1>3. /\ p.index \in 0 .. LastIndex(g) /\ TermAt(g, p.index) = p.term
      /\ q.index \in 0 .. LastIndex(g) /\ TermAt(g, q.index) = q.term
      /\ LastIndex(g) \in Nat
  BY <1>1, <1>2, FullFacts
<1>4. p.term \in Nat /\ q.term \in Nat
  BY <1>2, <1>3, FullFacts
<1>5. p.index <= q.index
  BY DEF Before
<1>6. q.index \in p.index .. LastIndex(g)
  BY <1>3, <1>5
<1>7. p.term <= q.term
  BY <1>2, <1>3, <1>6 DEF Ascends
<1> QED
  BY <1>1, <1>3, <1>4, <1>5, <1>7 DEF OnTree

\* A log that contains q contains what is before q.
LEMMA BeforeContained ==
  ASSUME NEW C, NEW G, Tree(G, C), NEW p, NEW q, Before(G, p, q), NEW h \in G, Contains(h, q)
  PROVE  Contains(h, p)
<1>1. PICK g \in G : Contains(g, p) /\ Contains(g, q)
  BY DEF Before
<1>2. g \in Entries(C) /\ g.prev = ZERO /\ h \in Entries(C) /\ h.prev = ZERO
  BY DEF Tree
<1>3. /\ p.index \in 0 .. LastIndex(g) /\ TermAt(g, p.index) = p.term
      /\ q.index \in 0 .. LastIndex(h)
      /\ LastIndex(g) \in Nat /\ LastIndex(h) \in Nat
  BY <1>1, <1>2, FullFacts
<1>4. p.index \in 0 .. q.index
  BY <1>3 DEF Before
<1>5. TermAt(g, p.index) = TermAt(h, p.index)
  BY <1>1, <1>4, SameBelow
<1>6. p.index \in 0 .. LastIndex(h)
  BY <1>3, <1>4
<1> QED
  BY <1>2, <1>3, <1>5, <1>6, FullFacts

LEMMA BeforeReflexive ==
  ASSUME NEW C, NEW G, Tree(G, C), NEW p, OnTree(G, p)
  PROVE  Before(G, p, p)
<1>1. PICK g \in G : Contains(g, p)
  BY DEF OnTree
<1>2. p.index \in 0 .. LastIndex(g) /\ LastIndex(g) \in Nat
  BY <1>1, FullFacts DEF Tree
<1> QED
  BY <1>1, <1>2 DEF Before

LEMMA BeforeTransitive ==
  ASSUME NEW C, NEW G, Tree(G, C), NEW p, NEW q, NEW r, Before(G, p, q), Before(G, q, r)
  PROVE  Before(G, p, r)
<1>1. PICK h \in G : Contains(h, q) /\ Contains(h, r)
  BY DEF Before
<1>2. Contains(h, p)
  BY <1>1, BeforeContained
<1>3. p.index <= r.index
  <2>1. p.index \in Nat /\ q.index \in Nat /\ p.index <= q.index
    BY BeforeFacts
  <2>2. r.index \in Nat /\ q.index <= r.index
    BY BeforeFacts
  <2> QED
    BY <2>1, <2>2
<1> QED
  BY <1>1, <1>2, <1>3 DEF Before

\* What is before one position lies on one line.
LEMMA BeforeLinear ==
  ASSUME NEW C, NEW G, Tree(G, C), NEW p, NEW q, NEW r, Before(G, p, r), Before(G, q, r)
  PROVE  /\ p.index <= q.index => Before(G, p, q)
         /\ Before(G, p, q) \/ Before(G, q, p)
<1>1. PICK h \in G : Contains(h, q) /\ Contains(h, r)
  BY DEF Before
<1>2. Contains(h, p)
  BY <1>1, BeforeContained
<1>3. p.index \in Nat /\ q.index \in Nat
  BY BeforeFacts
<1>4. p.index <= q.index \/ q.index <= p.index
  BY <1>3
<1> QED
  BY <1>1, <1>2, <1>4 DEF Before

\* Positions of one term lie on one line.
LEMMA OneTermLine ==
  ASSUME NEW C, NEW G, Tree(G, C), NEW p, OnTree(G, p), NEW q, OnTree(G, q), p.term = q.term
  PROVE  /\ p.index <= q.index => Before(G, p, q)
         /\ Before(G, p, q) \/ Before(G, q, p)
<1>1. ASSUME NEW a, OnTree(G, a), NEW b, OnTree(G, b), a.term = b.term, a.index <= b.index
      PROVE  Before(G, a, b)
  <2>1. PICK g \in G : Contains(g, a)
    BY <1>1 DEF OnTree
  <2>2. PICK h \in G : Contains(h, b)
    BY <1>1 DEF OnTree
  <2>3. /\ g \in Entries(C) /\ g.prev = ZERO /\ h \in Entries(C) /\ h.prev = ZERO
        /\ OneLine(g, h)
    BY DEF Tree
  <2>4. /\ a.index \in 0 .. LastIndex(g) /\ TermAt(g, a.index) = a.term /\ LastIndex(g) \in Nat
        /\ b.index \in 0 .. LastIndex(h) /\ TermAt(h, b.index) = b.term /\ LastIndex(h) \in Nat
    BY <2>1, <2>2, <2>3, FullFacts
  <2>5. b.index \in a.index .. LastIndex(h) /\ a.index \in 0 .. LastIndex(h)
    BY <1>1, <2>4
  <2>6. TermAt(h, a.index) = a.term
    BY <1>1, <2>3, <2>4, <2>5 DEF OneLine
  <2>7. Contains(h, a)
    BY <2>3, <2>5, <2>6, FullFacts
  <2> QED
    BY <1>1, <2>2, <2>7 DEF Before
<1>2. p.index <= q.index \/ q.index <= p.index
  <2>1. p.index \in Nat /\ q.index \in Nat
    BY BeforeReflexive, BeforeFacts
  <2> QED
    BY <2>1
<1> QED
  BY <1>1, <1>2

\* A tree that has grown keeps its lines, and gets no new position below an old one.
LEMMA BeforeGrown ==
  ASSUME NEW C, NEW G, NEW H, G \subseteq H, Tree(H, C), NEW p, NEW q
  PROVE  /\ Before(G, p, q) => Before(H, p, q)
         /\ Before(H, p, q) /\ OnTree(G, q) => Before(G, p, q)
         /\ OnTree(G, p) => OnTree(H, p)
         /\ Tree(G, C)
<1>1. Before(G, p, q) => Before(H, p, q)
  BY DEF Before
<1>2. ASSUME Before(H, p, q), OnTree(G, q) PROVE Before(G, p, q)
  <2>1. PICK g \in G : Contains(g, q)
    BY <1>2 DEF OnTree
  <2>2. Contains(g, p)
    BY <1>2, <2>1, BeforeContained
  <2> QED
    BY <1>2, <2>1, <2>2 DEF Before
<1>3. OnTree(G, p) => OnTree(H, p)
  BY DEF OnTree
<1>4. Tree(G, C)
  BY DEF Tree
<1> QED
  BY <1>1, <1>2, <1>3, <1>4

-----------------------------------------------------------------------------
(* Parts of logs. *)

\* A part has the terms of the log, and contains what the log contains at its indices.
LEMMA PartFacts ==
  ASSUME NEW C, NEW es \in Entries(C), NEW g \in Entries(C), g.prev.index <= es.prev.index,
         PartOf(es, g)
  PROVE  /\ LastIndex(es) <= LastIndex(g)
         /\ \A i \in es.prev.index .. LastIndex(es) : TermAt(es, i) = TermAt(g, i)
         /\ \A p : Contains(es, p) => Contains(g, p)
         /\ \A p : Contains(g, p) /\ ContainsIndex(es, p.index) => Contains(es, p)
         /\ Contains(g, LastPosition(es))
<1>1. /\ LastIndex(es) <= LastIndex(g)
      /\ TermAt(g, es.prev.index) = es.prev.term
      /\ \A i \in es.prev.index + 1 .. LastIndex(es) : EntryAt(es, i) = EntryAt(g, i)
  BY DEF PartOf
<1>2. \A i \in es.prev.index .. LastIndex(es) : TermAt(es, i) = TermAt(g, i)
  BY <1>1, EdgesOfPart
<1>3. /\ es.prev.index \in Nat /\ LastIndex(es) \in Nat
      /\ g.prev.index \in Nat /\ LastIndex(g) \in Nat
  BY EntriesFacts
<1>4. ASSUME NEW p, ContainsIndex(es, p.index)
      PROVE  ContainsIndex(g, p.index) /\ TermAt(es, p.index) = TermAt(g, p.index)
  <2>1. p.index \in es.prev.index .. LastIndex(es)
    BY <1>4 DEF ContainsIndex
  <2>2. p.index \in g.prev.index .. LastIndex(g)
    BY <2>1, <1>1, <1>3
  <2> QED
    BY <2>1, <2>2, <1>2 DEF ContainsIndex
<1>5. \A p : Contains(es, p) => Contains(g, p)
  BY <1>4 DEF Contains
<1>6. \A p : Contains(g, p) /\ ContainsIndex(es, p.index) => Contains(es, p)
  BY <1>4 DEF Contains
<1>7. Contains(es, LastPosition(es))
  BY LastPositionTyped
<1> QED
  BY <1>1, <1>2, <1>5, <1>6, <1>7

\* A log of the tree that contains the end of a part has the part.
LEMMA PartMoved ==
  ASSUME NEW C, NEW G, Tree(G, C), NEW g \in G, NEW h \in G, NEW es \in Entries(C),
         PartOf(es, g), Contains(h, LastPosition(es))
  PROVE  PartOf(es, h)
<1>1. g \in Entries(C) /\ g.prev = ZERO /\ h \in Entries(C) /\ h.prev = ZERO
  BY DEF Tree
<1>2. /\ es.prev.index \in Nat /\ LastIndex(es) \in Nat /\ es.prev.index <= LastIndex(es)
      /\ LastPosition(es).index = LastIndex(es)
  BY EntriesFacts, LastPositionTyped
<1>3. g.prev.index = 0
  BY <1>1 DEF ZERO, Pos
<1>4. Contains(g, LastPosition(es))
  BY <1>1, <1>2, <1>3, PartFacts
<1>5. /\ \A j \in 1 .. LastIndex(es) : EntryAt(g, j) = EntryAt(h, j)
      /\ \A j \in 0 .. LastIndex(es) : TermAt(g, j) = TermAt(h, j)
  BY <1>2, <1>4, SameBelow
<1>6. LastIndex(es) <= LastIndex(h)
  <2>1. LastIndex(es) \in 0 .. LastIndex(h)
    BY <1>1, <1>2, FullFacts
  <2> QED
    BY <2>1
<1>7. TermAt(h, es.prev.index) = es.prev.term
  BY <1>2, <1>5 DEF PartOf
<1>8. \A i \in es.prev.index + 1 .. LastIndex(es) : EntryAt(es, i) = EntryAt(h, i)
  BY <1>2, <1>5 DEF PartOf
<1> QED
  BY <1>6, <1>7, <1>8 DEF PartOf

LEMMA PartWithin ==
  ASSUME NEW C, NEW a \in Entries(C), NEW b \in Entries(C), NEW g \in Entries(C),
         b.prev.index <= a.prev.index, g.prev.index <= b.prev.index, PartOf(a, b), PartOf(b, g)
  PROVE  PartOf(a, g)
<1>1. /\ a.prev.index \in Nat /\ LastIndex(a) \in Nat /\ a.prev.index <= LastIndex(a)
      /\ b.prev.index \in Nat /\ LastIndex(b) \in Nat /\ LastIndex(g) \in Nat
  BY EntriesFacts
<1>2. LastIndex(a) <= LastIndex(b) /\ LastIndex(b) <= LastIndex(g)
  BY DEF PartOf
<1>3. TermAt(g, a.prev.index) = a.prev.term
  <2>1. a.prev.index \in b.prev.index .. LastIndex(b)
    BY <1>1, <1>2
  <2>2. TermAt(b, a.prev.index) = TermAt(g, a.prev.index)
    BY <2>1, PartFacts
  <2> QED
    BY <2>2 DEF PartOf
<1>4. ASSUME NEW i \in a.prev.index + 1 .. LastIndex(a) PROVE EntryAt(a, i) = EntryAt(g, i)
  <2>1. i \in b.prev.index + 1 .. LastIndex(b)
    BY <1>1, <1>2
  <2> QED
    BY <2>1 DEF PartOf
<1>5. LastIndex(a) <= LastIndex(g)
  BY <1>1, <1>2
<1> QED
  BY <1>3, <1>4, <1>5 DEF PartOf

LEMMA PartSelf == ASSUME NEW C, NEW es \in Entries(C) PROVE PartOf(es, es)
<1>1. LastIndex(es) \in Nat /\ TermAt(es, es.prev.index) = es.prev.term
  BY EntriesFacts DEF TermAt
<1> QED
  BY <1>1 DEF PartOf

LEMMA NothingIsPart ==
  ASSUME NEW C, NEW es \in Entries(C), NEW p, Contains(es, p)
  PROVE  PartOf(NewEntries(p), es) /\ LastPosition(NewEntries(p)) = Pos(p.term, p.index)
<1>1. p.index \in es.prev.index .. LastIndex(es) /\ TermAt(es, p.index) = p.term
  BY DEF Contains, ContainsIndex
<1>2. es.prev.index \in Nat /\ LastIndex(es) \in Nat
  BY EntriesFacts
<1>3. p.index \in Nat /\ p.index <= LastIndex(es)
  BY <1>1, <1>2
<1>4. NewEntries(p).prev = p /\ LastIndex(NewEntries(p)) = p.index
  BY <1>3 DEF NewEntries, LastIndex
<1>5. \A i \in p.index + 1 .. p.index : FALSE
  BY <1>3
<1>6. LastPosition(NewEntries(p)) = Pos(p.term, p.index)
  BY <1>4 DEF LastPosition, TermAt
<1> QED
  BY <1>1, <1>3, <1>4, <1>5, <1>6 DEF PartOf

LEMMA SinceIsPart ==
  ASSUME NEW C, NEW es \in Entries(C), NEW p \in Position, Contains(es, p)
  PROVE  PartOf(Since(es, p), es) /\ Since(es, p) \in Entries(C) /\ Since(es, p).prev = p
<1>1. ContainsIndex(es, p.index) /\ TermAt(es, p.index) = p.term
  BY DEF Contains
<1> DEFINE s == Since(es, p)
<1>2. /\ s \in Entries(C) /\ s.prev = p /\ LastIndex(s) = LastIndex(es)
      /\ \A i \in p.index + 1 .. LastIndex(es) : EntryAt(s, i) = EntryAt(es, i)
  BY <1>1, SinceTyped
<1>3. LastIndex(es) \in Nat
  BY EntriesFacts
<1> QED
  BY <1>1, <1>2, <1>3 DEF PartOf

LEMMA TruncateIsPart ==
  ASSUME NEW C, NEW es \in Entries(C), NEW n \in Int
  PROVE  /\ PartOf(Truncate(es, n), es)
         /\ Truncate(es, n) \in Entries(C)
         /\ Truncate(es, n).prev = es.prev
         /\ n \in 0 .. Len(es.ents) => LastIndex(Truncate(es, n)) = es.prev.index + n
<1>1. CASE Len(es.ents) <= n
  <2>1. Truncate(es, n) = es
    BY <1>1 DEF Truncate
  <2>2. n \in 0 .. Len(es.ents) => n = Len(es.ents)
    BY <1>1, EntriesFacts
  <2> QED
    BY <2>1, <2>2, PartSelf DEF LastIndex
<1>2. CASE ~(Len(es.ents) <= n)
  <2> DEFINE s == Truncate(es, n)
  <2>1. s = [es EXCEPT !.ents = SubSeq(es.ents, 1, n)]
    BY <1>2 DEF Truncate
  <2>2. s \in Entries(C) /\ s.prev = es.prev
    BY TruncateTyped
  <2>3. /\ es.ents \in Seq(Entry(C)) /\ Len(es.ents) \in Nat /\ es.prev.index \in Nat
        /\ es = [prev |-> es.prev, ents |-> es.ents]
    BY EntriesFacts
  <2>4. s.ents = SubSeq(es.ents, 1, n)
    BY <2>1, <2>3
  <2>5. \A k \in 1 .. Len(s.ents) : s.ents[k] = es.ents[k]
    BY <2>3, <2>4
  <2>6. Len(s.ents) \in Nat /\ Len(s.ents) <= Len(es.ents) /\ (n \in Nat => Len(s.ents) = n)
    BY <1>2, <2>3, <2>4
  <2>7. LastIndex(s) = es.prev.index + Len(s.ents) /\ LastIndex(s) <= LastIndex(es)
    BY <2>2, <2>3, <2>6 DEF LastIndex
  <2>8. TermAt(es, s.prev.index) = s.prev.term
    BY <2>2 DEF TermAt
  <2>9. ASSUME NEW i \in s.prev.index + 1 .. LastIndex(s) PROVE EntryAt(s, i) = EntryAt(es, i)
    <3>1. i - es.prev.index \in 1 .. Len(s.ents)
      BY <2>2, <2>3, <2>6, <2>7
    <3> QED
      BY <3>1, <2>2, <2>5 DEF EntryAt
  <2>10. n \in 0 .. Len(es.ents) => LastIndex(s) = es.prev.index + n
    BY <2>6, <2>7
  <2> QED
    BY <2>2, <2>7, <2>8, <2>9, <2>10 DEF PartOf
<1> QED
  BY <1>1, <1>2

\* What is appended to a part at a position that it contains.
LEMMA AppendIsPart ==
  ASSUME NEW C, NEW G, Tree(G, C), NEW h \in G, NEW es \in Entries(C), PartOf(es, h),
         NEW g \in G, NEW more \in Entries(C), PartOf(more, g), Contains(es, more.prev)
  PROVE  /\ PartOf(AppendUnchecked(es, more), g)
         /\ AppendUnchecked(es, more) \in Entries(C)
         /\ AppendUnchecked(es, more).prev = es.prev
         /\ LastPosition(AppendUnchecked(es, more)) = LastPosition(more)
         /\ LastIndex(AppendUnchecked(es, more)) = LastIndex(more)
<1> DEFINE s == AppendUnchecked(es, more)
<1>1. g \in Entries(C) /\ g.prev = ZERO /\ h \in Entries(C) /\ h.prev = ZERO
  BY DEF Tree
<1>2. g.prev.index = 0 /\ h.prev.index = 0
  BY <1>1 DEF ZERO, Pos
<1>3. /\ es.prev.index \in Nat /\ LastIndex(es) \in Nat
      /\ more.prev.index \in Nat /\ LastIndex(more) \in Nat /\ more.prev.index <= LastIndex(more)
  BY EntriesFacts
<1>4. ContainsIndex(es, more.prev.index) /\ more.prev.index \in es.prev.index .. LastIndex(es)
  BY DEF Contains, ContainsIndex
<1>5. /\ s \in Entries(C) /\ s.prev = es.prev /\ LastIndex(s) = LastIndex(more)
      /\ \A i \in es.prev.index + 1 .. more.prev.index : EntryAt(s, i) = EntryAt(es, i)
      /\ \A i \in more.prev.index + 1 .. LastIndex(more) : EntryAt(s, i) = EntryAt(more, i)
  BY <1>4, AppendContained
<1>6. LastPosition(s) = LastPosition(more)
  BY AppendEdges
<1>7. Contains(h, more.prev)
  BY <1>1, <1>2, <1>3, PartFacts
<1>8. Contains(g, more.prev)
  <2>1. TermAt(g, more.prev.index) = more.prev.term /\ LastIndex(more) <= LastIndex(g)
    BY DEF PartOf
  <2>2. more.prev.index \in 0 .. LastIndex(g)
    BY <1>1, <1>3, <2>1, EntriesFacts
  <2> QED
    BY <1>1, <2>1, <2>2, FullFacts
<1>9. /\ \A j \in 1 .. more.prev.index : EntryAt(h, j) = EntryAt(g, j)
      /\ \A j \in 0 .. more.prev.index : TermAt(h, j) = TermAt(g, j)
  BY <1>7, <1>8, SameBelow
<1>10. TermAt(g, es.prev.index) = es.prev.term
  BY <1>3, <1>4, <1>9 DEF PartOf
<1>11. ASSUME NEW i \in es.prev.index + 1 .. LastIndex(more) PROVE EntryAt(s, i) = EntryAt(g, i)
  <2>1. CASE i <= more.prev.index
    <3>1. i \in es.prev.index + 1 .. more.prev.index /\ i \in es.prev.index + 1 .. LastIndex(es)
          /\ i \in 1 .. more.prev.index
      BY <1>3, <1>4, <2>1
    <3>2. EntryAt(s, i) = EntryAt(es, i) /\ EntryAt(h, i) = EntryAt(g, i)
      BY <3>1, <1>5, <1>9
    <3>3. EntryAt(es, i) = EntryAt(h, i)
      BY <3>1 DEF PartOf
    <3> QED
      BY <3>2, <3>3
  <2>2. CASE ~(i <= more.prev.index)
    <3>1. i \in more.prev.index + 1 .. LastIndex(more)
      BY <1>3, <2>2
    <3> QED
      BY <3>1, <1>5 DEF PartOf
  <2> QED
    BY <2>1, <2>2
<1>12. LastIndex(s) <= LastIndex(g)
  BY <1>5 DEF PartOf
<1>13. PartOf(s, g)
  BY <1>5, <1>10, <1>11, <1>12 DEF PartOf
<1> QED
  BY <1>5, <1>6, <1>13

-----------------------------------------------------------------------------
(* The tree grows. *)

\* The log g up to where b starts, and then b.
Stitched(g, b) == AppendUnchecked(g, b)

\* A log of the tree's, and the entries of term t after position last of the tree.
Branches(G, g, s, last, t) ==
  /\ Contains(g, last)
  /\ last.index <= LastIndex(s)
  /\ \A i \in 0 .. last.index : TermAt(s, i) = TermAt(g, i)
  /\ \A i \in 1 .. last.index : EntryAt(s, i) = EntryAt(g, i)
  /\ \A i \in last.index + 1 .. LastIndex(s) : TermAt(s, i) = t
  /\ last.term <= t
  /\ \A p : OnTree(G, p) /\ p.term = t => Before(G, p, last)

\* A log b that has grown from a.
LEMMA StitchedFacts ==
  ASSUME NEW C, NEW g \in Entries(C), g.prev = ZERO, NEW a \in Entries(C), PartOf(a, g),
         NEW b \in Entries(C), b.prev = a.prev, LastIndex(a) <= LastIndex(b),
         \A i \in a.prev.index + 1 .. LastIndex(a) : EntryAt(b, i) = EntryAt(a, i)
  PROVE  LET s == Stitched(g, b) IN
         /\ s \in Entries(C)
         /\ s.prev = ZERO
         /\ LastIndex(s) = LastIndex(b)
         /\ PartOf(b, s)
         /\ \A i \in 0 .. LastIndex(a) : TermAt(s, i) = TermAt(g, i)
         /\ \A i \in 1 .. LastIndex(a) : EntryAt(s, i) = EntryAt(g, i)
<1> DEFINE s == Stitched(g, b)
<1>1. g.prev.index = 0
  BY DEF ZERO, Pos
<1>2. /\ a.prev.index \in Nat /\ LastIndex(a) \in Nat /\ a.prev.index <= LastIndex(a)
      /\ LastIndex(b) \in Nat /\ LastIndex(g) \in Nat /\ b.prev.index <= LastIndex(b)
  BY EntriesFacts
<1>3. LastIndex(a) <= LastIndex(g) /\ TermAt(g, a.prev.index) = a.prev.term
  BY DEF PartOf
<1>4. ContainsIndex(g, b.prev.index)
  BY <1>1, <1>2, <1>3 DEF ContainsIndex
<1>5. /\ s \in Entries(C) /\ s.prev = g.prev /\ LastIndex(s) = LastIndex(b)
      /\ \A i \in g.prev.index + 1 .. b.prev.index : EntryAt(s, i) = EntryAt(g, i)
      /\ \A i \in b.prev.index + 1 .. LastIndex(b) : EntryAt(s, i) = EntryAt(b, i)
  BY <1>4, AppendContained DEF Stitched
<1> HIDE DEF s
<1>6. ASSUME NEW i \in 1 .. LastIndex(a) PROVE EntryAt(s, i) = EntryAt(g, i)
  <2>1. CASE i <= b.prev.index
    <3>1. i \in g.prev.index + 1 .. b.prev.index
      BY <1>1, <1>2, <2>1
    <3> QED
      BY <3>1, <1>5
  <2>2. CASE ~(i <= b.prev.index)
    <3>1. i \in b.prev.index + 1 .. LastIndex(b) /\ i \in a.prev.index + 1 .. LastIndex(a)
      BY <1>2, <2>2
    <3>2. EntryAt(s, i) = EntryAt(b, i) /\ EntryAt(b, i) = EntryAt(a, i)
      BY <3>1, <1>5
    <3>3. EntryAt(a, i) = EntryAt(g, i)
      BY <3>1 DEF PartOf
    <3> QED
      BY <3>2, <3>3
  <2> QED
    BY <2>1, <2>2
<1>7. ASSUME NEW i \in 0 .. LastIndex(a) PROVE TermAt(s, i) = TermAt(g, i)
  <2>1. CASE i = 0
    BY <2>1, <1>5, FullFacts
  <2>2. CASE i # 0
    <3>1. i \in 1 .. LastIndex(a) /\ i \in 1 .. LastIndex(s) /\ i \in 1 .. LastIndex(g)
      BY <1>2, <1>3, <1>5, <2>2
    <3>2. TermAt(s, i) = EntryAt(s, i).term
      BY <1>5, <3>1, FullFacts
    <3>3. TermAt(g, i) = EntryAt(g, i).term
      BY <3>1, FullFacts
    <3> QED
      BY <1>6, <3>1, <3>2, <3>3
  <2> QED
    BY <2>1, <2>2
<1>8. TermAt(s, b.prev.index) = b.prev.term
  <2>1. b.prev.index \in 0 .. LastIndex(a)
    BY <1>2
  <2> QED
    BY <2>1, <1>3, <1>7
<1>9. PartOf(b, s)
  BY <1>2, <1>5, <1>8 DEF PartOf
<1> QED
  BY <1>5, <1>6, <1>7, <1>9 DEF s

LEMMA BranchGrows ==
  ASSUME NEW C, NEW G, Tree(G, C), NEW g \in G, NEW s \in Entries(C), s.prev = ZERO,
         NEW last, NEW t \in Nat, Branches(G, g, s, last, t)
  PROVE  LET H == G \cup {s} IN
         /\ Tree(H, C)
         /\ Contains(s, last)
         /\ \A p : OnTree(H, p) => \/ OnTree(G, p)
                                   \/ /\ p.term = t /\ Contains(s, p) /\ last.index < p.index
                                      /\ Before(H, last, p)
<1> DEFINE H == G \cup {s}
<1>1. g \in Entries(C) /\ g.prev = ZERO /\ Ascends(g)
  BY DEF Tree
<1>2. /\ LastIndex(s) \in Nat /\ LastIndex(g) \in Nat
      /\ last.index \in 0 .. LastIndex(g) /\ TermAt(g, last.index) = last.term
      /\ \A i \in 0 .. LastIndex(g) : TermAt(g, i) \in Nat
  BY <1>1, FullFacts DEF Branches
<1>3. last.index \in Nat /\ last.index <= LastIndex(s) /\ last.index <= LastIndex(g)
      /\ last.term \in Nat /\ last.term <= t
  BY <1>2 DEF Branches
<1>4. /\ \A i \in 0 .. last.index : TermAt(s, i) = TermAt(g, i)
      /\ \A i \in 1 .. last.index : EntryAt(s, i) = EntryAt(g, i)
      /\ \A i \in last.index + 1 .. LastIndex(s) : TermAt(s, i) = t
  BY DEF Branches
<1>5. Contains(s, last)
  <2>1. last.index \in 0 .. LastIndex(s) /\ TermAt(s, last.index) = last.term
    BY <1>2, <1>3, <1>4
  <2> QED
    BY <2>1, FullFacts
\* A position of term t that was there is on the line of g up to last.
<1>6. ASSUME NEW h \in G, NEW i \in 0 .. LastIndex(h), TermAt(h, i) = t
      PROVE  i <= last.index /\ TermAt(g, i) = t
  <2>1. h \in Entries(C) /\ h.prev = ZERO
    BY DEF Tree
  <2>2. Pos(t, i).index = i /\ Pos(t, i).term = t
    BY DEF Pos
  <2>3. Contains(h, Pos(t, i))
    BY <1>6, <2>1, <2>2, FullFacts
  <2>4. Before(G, Pos(t, i), last)
    BY <2>2, <2>3 DEF Branches, OnTree
  <2>5. Contains(g, Pos(t, i))
    BY <2>4, BeforeContained DEF Branches
  <2>6. TermAt(g, i) = t
    BY <1>1, <2>2, <2>5, FullFacts
  <2> QED
    BY <2>2, <2>4, <2>6 DEF Before
<1>7. Ascends(s)
  <2> SUFFICES ASSUME NEW i \in 0 .. LastIndex(s), NEW j \in i .. LastIndex(s)
               PROVE  TermAt(s, i) <= TermAt(s, j)
    BY DEF Ascends
  <2>1. CASE j <= last.index
    <3>1. /\ i \in 0 .. last.index /\ j \in 0 .. last.index
          /\ i \in 0 .. LastIndex(g) /\ j \in i .. LastIndex(g)
      BY <1>2, <1>3, <2>1
    <3>2. TermAt(g, i) <= TermAt(g, j)
      BY <1>1, <3>1 DEF Ascends
    <3> QED
      BY <1>4, <3>1, <3>2
  <2>2. CASE i <= last.index /\ ~(j <= last.index)
    <3>1. /\ i \in 0 .. last.index /\ j \in last.index + 1 .. LastIndex(s)
          /\ i \in 0 .. LastIndex(g) /\ last.index \in i .. LastIndex(g)
      BY <1>2, <1>3, <2>2
    <3>2. TermAt(g, i) <= TermAt(g, last.index)
      BY <1>1, <3>1 DEF Ascends
    <3>3. TermAt(g, i) \in Nat
      BY <1>2, <3>1
    <3>4. TermAt(s, i) = TermAt(g, i) /\ TermAt(s, j) = t
      BY <1>4, <3>1
    <3> QED
      BY <1>2, <1>3, <3>2, <3>3, <3>4
  <2>3. CASE ~(i <= last.index)
    <3>1. i \in last.index + 1 .. LastIndex(s) /\ j \in last.index + 1 .. LastIndex(s)
      BY <1>2, <1>3, <2>3
    <3>2. TermAt(s, i) = t /\ TermAt(s, j) = t
      BY <1>4, <3>1
    <3> QED
      BY <3>2
  <2> QED
    BY <2>1, <2>2, <2>3
<1>8. ASSUME NEW h \in G PROVE Agree(s, h) /\ Agree(h, s) /\ OneLine(s, h) /\ OneLine(h, s)
  <2>1. h \in Entries(C) /\ h.prev = ZERO /\ Agree(g, h) /\ OneLine(g, h) /\ OneLine(h, g)
    BY DEF Tree
  <2>2. LastIndex(h) \in Nat
    BY <2>1, FullFacts
  <2>3. ASSUME NEW i \in 1 .. LastIndex(s), i <= LastIndex(h), TermAt(s, i) = TermAt(h, i),
               NEW j \in 1 .. i
        PROVE  EntryAt(s, j) = EntryAt(h, j)
    <3>1. i <= last.index
      <4> SUFFICES ASSUME ~(i <= last.index) PROVE FALSE
        OBVIOUS
      <4>1. i \in last.index + 1 .. LastIndex(s) /\ i \in 0 .. LastIndex(h)
        BY <1>2, <1>3, <2>2, <2>3
      <4>2. TermAt(h, i) = t
        BY <1>4, <2>3, <4>1
      <4> QED
        BY <1>6, <4>1, <4>2
    <3>2. i \in 0 .. last.index /\ j \in 1 .. last.index /\ i \in 1 .. LastIndex(g)
      BY <1>2, <1>3, <2>3, <3>1
    <3>3. TermAt(g, i) = TermAt(h, i)
      BY <1>4, <2>3, <3>2
    <3>4. EntryAt(g, j) = EntryAt(h, j)
      BY <2>1, <2>3, <3>2, <3>3 DEF Agree
    <3> QED
      BY <1>4, <3>2, <3>4
  <2>4. Agree(s, h)
    BY <2>3 DEF Agree
  <2>5. Agree(h, s)
    <3> SUFFICES ASSUME NEW i \in 1 .. LastIndex(h), i <= LastIndex(s), TermAt(h, i) = TermAt(s, i),
                        NEW j \in 1 .. i
                 PROVE  EntryAt(h, j) = EntryAt(s, j)
      BY DEF Agree
    <3>1. i \in 1 .. LastIndex(s) /\ i <= LastIndex(h)
      BY <1>2, <2>2
    <3> QED
      BY <2>3, <3>1
  <2>6. OneLine(s, h)
    <3> SUFFICES ASSUME NEW i \in 0 .. LastIndex(s), NEW j \in i .. LastIndex(h),
                        TermAt(s, i) = TermAt(h, j)
                 PROVE  TermAt(h, i) = TermAt(s, i)
      BY DEF OneLine
    <3>1. CASE i <= last.index
      <4>1. i \in 0 .. last.index /\ i \in 0 .. LastIndex(g)
        BY <1>2, <1>3, <3>1
      <4>2. TermAt(g, i) = TermAt(h, j)
        BY <1>4, <4>1
      <4>3. TermAt(h, i) = TermAt(g, i)
        BY <2>1, <4>1, <4>2 DEF OneLine
      <4> QED
        BY <1>4, <4>1, <4>3
    <3>2. CASE ~(i <= last.index)
      <4>1. i \in last.index + 1 .. LastIndex(s) /\ j \in 0 .. LastIndex(h)
        BY <1>2, <1>3, <2>2, <3>2
      <4>2. TermAt(h, j) = t
        BY <1>4, <4>1
      <4>3. j <= last.index
        BY <1>6, <4>1, <4>2
      <4> QED
        BY <1>2, <2>2, <1>3, <3>2, <4>3
    <3> QED
      BY <3>1, <3>2
  <2>7. OneLine(h, s)
    <3> SUFFICES ASSUME NEW i \in 0 .. LastIndex(h), NEW j \in i .. LastIndex(s),
                        TermAt(h, i) = TermAt(s, j)
                 PROVE  TermAt(s, i) = TermAt(h, i)
      BY DEF OneLine
    <3>1. CASE j <= last.index
      <4>1. /\ j \in 0 .. last.index /\ j \in i .. LastIndex(g) /\ i \in 0 .. last.index
        BY <1>2, <1>3, <2>2, <3>1
      <4>2. TermAt(h, i) = TermAt(g, j)
        BY <1>4, <4>1
      <4>3. TermAt(g, i) = TermAt(h, i)
        BY <2>1, <4>1, <4>2 DEF OneLine
      <4> QED
        BY <1>4, <4>1, <4>3
    <3>2. CASE ~(j <= last.index)
      <4>1. j \in last.index + 1 .. LastIndex(s)
        BY <1>2, <1>3, <2>2, <3>2
      <4>2. TermAt(h, i) = t
        BY <1>4, <4>1
      <4>3. i <= last.index /\ TermAt(g, i) = t
        BY <1>6, <4>2
      <4>4. i \in 0 .. last.index
        BY <1>3, <2>2, <4>3
      <4> QED
        BY <1>4, <4>2, <4>3, <4>4
    <3> QED
      BY <3>1, <3>2
  <2> QED
    BY <2>4, <2>5, <2>6, <2>7
<1>9. Agree(s, s) /\ OneLine(s, s)
  BY DEF Agree, OneLine
<1>10. Tree(H, C)
  <2>1. \A x \in H : x \in Entries(C) /\ x.prev = ZERO /\ Ascends(x)
    BY <1>7 DEF Tree
  <2>2. \A x, y \in H : Agree(x, y) /\ OneLine(x, y)
    <3> SUFFICES ASSUME NEW x \in H, NEW y \in H PROVE Agree(x, y) /\ OneLine(x, y)
      OBVIOUS
    <3>1. CASE x \in G /\ y \in G
      BY <3>1 DEF Tree
    <3>2. CASE x = s /\ y \in G
      BY <3>2, <1>8
    <3>3. CASE x \in G /\ y = s
      BY <3>3, <1>8
    <3>4. CASE x = s /\ y = s
      BY <3>4, <1>9
    <3> QED
      BY <3>1, <3>2, <3>3, <3>4
  <2> QED
    BY <2>1, <2>2 DEF Tree
<1>11. ASSUME NEW p, OnTree(H, p), ~OnTree(G, p)
       PROVE  p.term = t /\ Contains(s, p) /\ last.index < p.index /\ Before(H, last, p)
  <2>1. Contains(s, p)
    BY <1>11 DEF OnTree
  <2>2. p.index \in 0 .. LastIndex(s) /\ TermAt(s, p.index) = p.term
    BY <2>1, FullFacts
  <2>3. ~(p.index <= last.index)
    <3> SUFFICES ASSUME p.index <= last.index PROVE FALSE
      OBVIOUS
    <3>1. p.index \in 0 .. last.index /\ p.index \in 0 .. LastIndex(g)
      BY <1>2, <1>3, <2>2
    <3>2. TermAt(g, p.index) = p.term
      BY <1>4, <2>2, <3>1
    <3>3. Contains(g, p)
      BY <1>1, <3>1, <3>2, FullFacts
    <3> QED
      BY <1>11, <3>3 DEF OnTree
  <2>4. p.index \in last.index + 1 .. LastIndex(s) /\ last.index < p.index
    BY <1>2, <1>3, <2>2, <2>3
  <2>5. p.term = t
    BY <1>4, <2>2, <2>4
  <2>6. last.index <= p.index
    BY <1>2, <1>3, <2>2, <2>4
  <2> QED
    BY <1>5, <2>1, <2>4, <2>5, <2>6 DEF Before
<1> QED
  BY <1>5, <1>10, <1>11

-----------------------------------------------------------------------------
(* The protocol.  X are the positions that were chosen, which is for good; *)
(* U those that never will be, but by being on the line to a position that *)
(* is.  What is not on the line to a later term's position is of U.        *)

Kept(G, U, r, p) == Before(G, r, p) \/ Pos(r.term, r.index) \in U

Lined(G, U) == \A p, r : OnTree(G, p) /\ OnTree(G, r) /\ r.term < p.term => Kept(G, U, r, p)

\* A position up to which entries were committed by term t.
Decided(G, X, q, t) == q = ZERO \/ \E r \in X : r.term <= t /\ Before(G, q, r)

Lawful(C, G, U, X) == Tree(G, C) /\ Lined(G, U) /\ X \subseteq Position /\ X \cap U = {}

LEMMA OnTreeTyped ==
  ASSUME NEW C, NEW G, Tree(G, C), NEW p, OnTree(G, p)
  PROVE  p.index \in Nat /\ p.term \in Nat /\ Before(G, ZERO, p) /\ Before(G, p, p)
<1>1. PICK g \in G : Contains(g, p)
  BY DEF OnTree
<1>2. g \in Entries(C) /\ g.prev = ZERO
  BY DEF Tree
<1>3. /\ p.index \in 0 .. LastIndex(g) /\ LastIndex(g) \in Nat /\ TermAt(g, p.index) = p.term
      /\ p.term \in Nat /\ TermAt(g, 0) = 0
  BY <1>1, <1>2, FullFacts
<1>4. ZERO.index = 0 /\ ZERO.term = 0
  BY DEF ZERO, Pos
<1>5. 0 \in 0 .. LastIndex(g)
  BY <1>3
<1>6. Contains(g, ZERO)
  BY <1>2, <1>3, <1>4, <1>5, FullFacts
<1>7. ZERO.index <= p.index
  BY <1>3, <1>4
<1> QED
  BY <1>1, <1>3, <1>6, <1>7, BeforeReflexive DEF Before

LEMMA BeforeIsOn ==
  ASSUME NEW C, NEW G, Tree(G, C), NEW p, NEW q, Before(G, p, q)
  PROVE  OnTree(G, p) /\ OnTree(G, q)
BY BeforeFacts

\* A chosen position is on the line to every later term's.
LEMMA ChosenBefore ==
  ASSUME NEW C, NEW G, NEW U, NEW X, Lawful(C, G, U, X), NEW r \in X, OnTree(G, r),
         NEW p, OnTree(G, p), r.term <= p.term
  PROVE  Before(G, r, p) \/ Before(G, p, r)
<1>1. /\ Tree(G, C)
      /\ Lined(G, U)
      /\ Pos(r.term, r.index) \notin U
  BY DEF Lawful, Position, Pos
<1>2. r.term \in Nat /\ p.term \in Nat
  BY <1>1, OnTreeTyped
<1>3. CASE r.term < p.term
  BY <1>1, <1>3 DEF Lined, Kept
<1>4. CASE r.term = p.term
  BY <1>1, <1>4, OneTermLine
<1> QED
  BY <1>2, <1>3, <1>4

\* What is decided by term t is on one line with every position of t or later.
LEMMA DecidedMeets ==
  ASSUME NEW C, NEW G, NEW U, NEW X, Lawful(C, G, U, X), NEW t \in Nat, NEW q, Decided(G, X, q, t),
         NEW p, OnTree(G, p), t <= p.term
  PROVE  /\ OnTree(G, q)
         /\ Before(G, q, p) \/ Before(G, p, q)
<1>1. Tree(G, C)
  BY DEF Lawful
<1>2. CASE q = ZERO
  BY <1>1, <1>2, OnTreeTyped, BeforeIsOn
<1>3. CASE q # ZERO
  <2>1. PICK r \in X : r.term <= t /\ Before(G, q, r)
    BY <1>3 DEF Decided
  <2>2. OnTree(G, q) /\ OnTree(G, r)
    BY <1>1, <2>1, BeforeIsOn
  <2>3. r.term <= p.term
    BY <1>1, <2>1, <2>2, OnTreeTyped
  <2>4. Before(G, r, p) \/ Before(G, p, r)
    BY <2>2, <2>3, ChosenBefore
  <2>5. CASE Before(G, r, p)
    BY <1>1, <2>1, <2>2, <2>5, BeforeTransitive
  <2>6. CASE Before(G, p, r)
    BY <1>1, <2>1, <2>2, <2>6, BeforeLinear
  <2> QED
    BY <2>4, <2>5, <2>6
<1> QED
  BY <1>2, <1>3

\* Decided positions are on one line.
LEMMA DecidedLine ==
  ASSUME NEW C, NEW G, NEW U, NEW X, Lawful(C, G, U, X),
         NEW t, NEW q, Decided(G, X, q, t), NEW t2, NEW q2, Decided(G, X, q2, t2),
         OnTree(G, q), OnTree(G, q2)
  PROVE  /\ Before(G, q, q2) \/ Before(G, q2, q)
         /\ q.index <= q2.index => Before(G, q, q2)
<1>1. Tree(G, C)
  BY DEF Lawful
<1>2. ZERO.index = 0 /\ ZERO.term = 0
  BY DEF ZERO, Pos
<1>3. CASE q = ZERO
  BY <1>1, <1>3, OnTreeTyped
<1>4. CASE q2 = ZERO /\ q # ZERO
  <2>1. Before(G, q2, q) /\ q.index \in Nat
    BY <1>1, <1>4, OnTreeTyped
  <2>2. ASSUME q.index <= q2.index PROVE Before(G, q, q2)
    <3>1. q.index = 0
      BY <1>2, <1>4, <2>1, <2>2
    <3>2. PICK g \in G : Contains(g, q2) /\ Contains(g, q)
      BY <2>1 DEF Before
    <3> QED
      BY <2>2, <3>2 DEF Before
  <2> QED
    BY <2>1, <2>2
<1>5. CASE q # ZERO /\ q2 # ZERO
  <2>1. PICK r \in X : Before(G, q, r)
    BY <1>5 DEF Decided
  <2>2. PICK r2 \in X : Before(G, q2, r2)
    BY <1>5 DEF Decided
  <2>3. OnTree(G, r) /\ OnTree(G, r2)
    BY <1>1, <2>1, <2>2, BeforeIsOn
  <2>4. r.term \in Nat /\ r2.term \in Nat
    BY <1>1, <2>3, OnTreeTyped
  <2>5. r.term <= r2.term \/ r2.term <= r.term
    BY <2>4
  <2>6. Before(G, r, r2) \/ Before(G, r2, r)
    BY <2>3, <2>5, ChosenBefore
  <2>7. CASE Before(G, r, r2)
    <3>1. Before(G, q, r2)
      BY <1>1, <2>1, <2>7, BeforeTransitive
    <3> QED
      BY <1>1, <2>2, <3>1, BeforeLinear
  <2>8. CASE Before(G, r2, r)
    <3>1. Before(G, q2, r)
      BY <1>1, <2>2, <2>8, BeforeTransitive
    <3> QED
      BY <1>1, <2>1, <3>1, BeforeLinear
  <2> QED
    BY <2>6, <2>7, <2>8
<1> QED
  BY <1>3, <1>4, <1>5

\* A log that ends in p is replaced by a snapshot at q, which it does not contain.
LEMMA SnapshotKeeps ==
  ASSUME NEW C, NEW G, NEW U, NEW X, Lawful(C, G, U, X), NEW r, NEW p, OnTree(G, p), Kept(G, U, r, p),
         NEW t, NEW q, Decided(G, X, q, t), ~Before(G, q, p)
  PROVE  Kept(G, U, r, q)
<1>1. Tree(G, C) /\ Lined(G, U)
  BY DEF Lawful
<1> SUFFICES ASSUME Pos(r.term, r.index) \notin U PROVE Before(G, r, q)
  BY DEF Kept
<1>2. Before(G, r, p)
  BY DEF Kept
<1>3. q # ZERO
  BY <1>1, OnTreeTyped
<1>4. PICK c \in X : Before(G, q, c)
  BY <1>3 DEF Decided
<1>5. OnTree(G, r) /\ OnTree(G, c)
  BY <1>1, <1>2, <1>4, BeforeIsOn
<1>6. ~Before(G, c, r)
  <2> SUFFICES ASSUME Before(G, c, r) PROVE FALSE
    OBVIOUS
  <2>1. Before(G, q, r)
    BY <1>1, <1>4, BeforeTransitive
  <2> QED
    BY <1>1, <1>2, <2>1, BeforeTransitive
<1>7. Before(G, r, c)
  <2>1. r.term \in Nat /\ c.term \in Nat
    BY <1>1, <1>5, OnTreeTyped
  <2>2. CASE c.term <= r.term
    BY <1>5, <1>6, <2>2, ChosenBefore
  <2>3. CASE r.term < c.term
    BY <1>1, <1>5, <2>3 DEF Lined, Kept
  <2> QED
    BY <2>1, <2>2, <2>3
<1>8. Before(G, r, q) \/ Before(G, q, r)
  BY <1>1, <1>4, <1>7, BeforeLinear
<1> QED
  BY <1>1, <1>2, <1>8, BeforeTransitive

\* A log that ends in p is continued, or cut, along the line to l: it then ends in p2.
LEMMA AppendFollows ==
  ASSUME NEW C, NEW G, Tree(G, C), NEW r, NEW p, Before(G, r, p), NEW l,
         Before(G, r, l) \/ Before(G, l, r), NEW p2, Before(G, p2, l), ~Before(G, p2, p)
  PROVE  Before(G, r, p2)
<1>1. ~Before(G, p2, r)
  BY BeforeTransitive
<1>2. ~Before(G, l, r)
  BY <1>1, BeforeTransitive
<1> QED
  BY <1>1, <1>2, BeforeLinear

LEMMA CutFollows ==
  ASSUME NEW C, NEW G, Tree(G, C), NEW r, NEW p, Before(G, r, p), NEW l,
         Before(G, r, l) \/ Before(G, l, r), NEW e, Before(G, e, l), ~Before(G, e, p),
         NEW p2, Before(G, p2, p), p2.index + 1 = e.index
  PROVE  Before(G, r, p2)
<1>1. ~Before(G, e, r)
  BY BeforeTransitive
<1>2. ~Before(G, l, r)
  BY <1>1, BeforeTransitive
<1>3. Before(G, r, l)
  BY <1>2
<1>4. ~(e.index <= r.index)
  BY <1>1, <1>3, BeforeLinear
<1>5. r.index \in Nat /\ e.index \in Nat /\ p2.index \in Nat
  <2>1. r.index \in Nat
    BY BeforeFacts
  <2>2. e.index \in Nat
    BY BeforeFacts
  <2>3. p2.index \in Nat
    BY BeforeFacts
  <2> QED
    BY <2>1, <2>2, <2>3
<1>6. r.index <= p2.index
  BY <1>4, <1>5
<1> QED
  BY <1>6, BeforeLinear

\* What a voter that ends in p keeps, the candidate that ends in c keeps.
LEMMA VoteInherits ==
  ASSUME NEW C, NEW G, NEW U, Tree(G, C), Lined(G, U), NEW r, NEW p, OnTree(G, p), Kept(G, U, r, p),
         NEW c, OnTree(G, c), ~PosLess(c, p)
  PROVE  Kept(G, U, r, c)
<1> SUFFICES ASSUME Pos(r.term, r.index) \notin U PROVE Before(G, r, c)
  BY DEF Kept
<1>1. Before(G, r, p)
  BY DEF Kept
<1>2. r.term \in Nat /\ p.term \in Nat /\ r.term <= p.term /\ OnTree(G, r) /\ p.index \in Nat
  BY <1>1, BeforeFacts
<1>3. c.term \in Nat /\ c.index \in Nat
  BY OnTreeTyped
<1>4. CASE p.term < c.term
  <2>1. r.term < c.term
    BY <1>2, <1>3, <1>4
  <2> QED
    BY <1>2, <2>1 DEF Lined, Kept
<1>5. CASE ~(p.term < c.term)
  <2>1. p.term = c.term /\ p.index <= c.index
    BY <1>2, <1>3, <1>5 DEF PosLess
  <2>2. Before(G, p, c)
    BY <2>1, OneTermLine
  <2> QED
    BY <1>1, <2>2, BeforeTransitive
<1> QED
  BY <1>4, <1>5
=============================================================================
