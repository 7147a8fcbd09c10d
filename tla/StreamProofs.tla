---------------------------- MODULE StreamProofs ----------------------------
(***************************************************************************)
(* Proofs about StreamStore for any groups, consumers, ids, trimming       *)
(* options and counts: the stream's record says what the rows say, the     *)
(* records of groups and consumers count the pending list, a reader is     *)
(* given what lies after the last entry given, and the lag shown is never  *)
(* too small.  What writes entries and what writes one group are treated   *)
(* apart: the first by the record and the rows it leaves, the second by    *)
(* the four values it leaves at that group.                                *)
(***************************************************************************)
EXTENDS StreamStore, Ranks

(* Numbers, ids and finite sets of ids.                                    *)

LEMMA LessIs ==
    ASSUME NEW a \in Nat, NEW b \in Nat
    PROVE  /\ Less(a, b) \in Nat /\ Less(a, b) >= a - b
           /\ b <= a => Less(a, b) = a - b
           /\ Less(a, b) <= a
BY DEF Less

LEMMA IdsAre ==
    ASSUME StreamAssumption
    PROVE  /\ Top \in Nat /\ Top \in Ids /\ Ids \subseteq Nat /\ IsFiniteSet(Ids) /\ 0 \in Ids
           /\ \A i \in Ids : i \in Nat /\ i <= Top
           /\ \A i \in Nat : i <= Top => i \in Ids
<1>1. Top \in Nat
  BY SMTT(30) DEF StreamAssumption, Top
<1>2. Ids = 0 .. Top
  BY DEF Ids
<1>. QED
  BY <1>1, <1>2, FS_Interval

LEMMA IdSet ==
    ASSUME StreamAssumption, NEW S \in SUBSET Ids
    PROVE  /\ IsFiniteSet(S) /\ Cardinality(S) \in Nat /\ S \subseteq Nat
           /\ Cardinality(S) = 0 <=> S = {}
           /\ \A T \in SUBSET S : Cardinality(T) <= Cardinality(S)
BY IdsAre, FS_Subset, FS_CardinalityType, FS_EmptySet

LEMMA SetMinus ==
    ASSUME StreamAssumption, NEW S \in SUBSET Ids, NEW T \in SUBSET S
    PROVE  Cardinality(S \ T) = Cardinality(S) - Cardinality(T)
<1>1. S \cap T = T
  OBVIOUS
<1>. QED
  BY <1>1, IdSet, FS_Difference

LEMMA LowestIs ==
    ASSUME StreamAssumption, NEW S \in SUBSET Ids, S # {}
    PROVE  /\ Lowest(S) \in S /\ Lowest(S) \in Ids /\ \A x \in S : Lowest(S) <= x
           /\ \A m \in S : (\A x \in S : m <= x) => m = Lowest(S)
<1>0. S \subseteq Nat /\ \A z \in S : z \in Nat
  BY IdsAre
<1>1. Lowest(S) \in S /\ \A x \in S : Lowest(S) <= x
  BY <1>0, LeastOf DEF Lowest
<1>. HIDE DEF Lowest
<1>2. ASSUME NEW m \in S, \A x \in S : m <= x PROVE m = Lowest(S)
  <2>1. m \in Nat /\ Lowest(S) \in Nat
    BY <1>0, <1>1
  <2>2. m <= Lowest(S) /\ Lowest(S) <= m
    BY <1>1, <1>2
  <2>. QED
    BY <2>1, <2>2
<1>. QED
  BY <1>1, <1>2

LEMMA HighestIs ==
    ASSUME StreamAssumption, NEW S \in SUBSET Ids, S # {}
    PROVE  /\ Highest(S) \in S /\ Highest(S) \in Ids /\ \A x \in S : x <= Highest(S)
           /\ \A m \in S : (\A x \in S : x <= m) => m = Highest(S)
<1>0. S \subseteq Nat /\ IsFiniteSet(S) /\ \A z \in S : z \in Nat
  BY IdsAre, IdSet
<1>1. Highest(S) \in S /\ \A x \in S : x <= Highest(S)
  BY <1>0, GreatestOf DEF Highest
<1>. HIDE DEF Highest
<1>2. ASSUME NEW m \in S, \A x \in S : x <= m PROVE m = Highest(S)
  <2>1. m \in Nat /\ Highest(S) \in Nat
    BY <1>0, <1>1
  <2>2. m <= Highest(S) /\ Highest(S) <= m
    BY <1>1, <1>2
  <2>. QED
    BY <2>1, <2>2
<1>. QED
  BY <1>1, <1>2

LEMMA FirstOfIn ==
    ASSUME StreamAssumption, NEW S \in SUBSET Ids, NEW n
    PROVE  /\ FirstOf(S, n) = Firsts(S, n) /\ FirstOf(S, n) \subseteq S
           /\ \A x \in FirstOf(S, n), y \in S : n \in Nat /\ y <= x => y \in FirstOf(S, n)
<1>1. FirstOf(S, n) = Firsts(S, n) /\ FirstOf(S, n) \subseteq S
  BY DEF FirstOf, Firsts, Below
<1>2. S \subseteq Nat /\ IsFiniteSet(S)
  BY IdSet
<1>. QED
  BY <1>1, <1>2, FirstsBelow

----------------------------------------------------------------------------
(* The next id.                                                            *)

LEMMA Product ==
    ASSUME NEW s \in Nat \ {0}, NEW a \in Nat, NEW n \in Nat
    PROVE  /\ n * s \in Nat
           /\ a \div s \in Nat /\ a % s \in 0 .. s - 1 /\ a = s * (a \div s) + (a % s)
           /\ n > a \div s => n * s > a
           /\ n <= a => n * s <= a * s
<1>1. n * s \in Nat
  BY SMTT(30)
<1>2. a \div s \in Nat /\ a % s \in 0 .. s - 1 /\ a = s * (a \div s) + (a % s)
  BY SMTT(30)
<1>3. n > a \div s => n * s > a
  BY SMTT(30)
<1>4. n <= a => n * s <= a * s
  BY SMTT(30)
<1>. QED
  BY <1>1, <1>2, <1>3, <1>4

LEMMA Generated ==
    ASSUME StreamAssumption, now \in 1 .. MaxNow, NEW s \in Strategies, NEW last \in Ids,
           NEW id \in GenerateId(s, last)
    PROVE  id \in Ids /\ id > last
<1>0. /\ Seqs \in Nat \ {0} /\ MaxMs \in Nat /\ now \in Nat /\ now <= MaxMs /\ last \in Nat
      /\ last <= Top /\ Top \in Nat /\ Top = MaxMs * Seqs + Seqs - 1 /\ MaxMs * Seqs \in Nat
  BY IdsAre, Product DEF StreamAssumption, Top
<1>. HIDE DEF Top, Ids
<1>1. \A n \in Nat : n <= MaxMs => n * Seqs \in Nat /\ n * Seqs <= MaxMs * Seqs
  BY <1>0, Product
<1>2. \A n \in Nat : n > MsOf(last) => n * Seqs > last
  BY <1>0, Product DEF MsOf
<1>3. CASE s.by = "auto"
  <2>1. id \in (IF now > MsOf(last) THEN {now * Seqs} ELSE IF last = Top THEN {} ELSE {last + 1})
    BY <1>3 DEF GenerateId
  <2>2. CASE now > MsOf(last)
    BY <1>0, <1>1, <1>2, <2>1, <2>2, IdsAre
  <2>3. CASE ~(now > MsOf(last))
    BY <1>0, <2>1, <2>3, IdsAre
  <2>. QED
    BY <2>2, <2>3
<1>4. CASE s.by = "seq"
  <2>1. id \in {now * Seqs + s.n} \ (0 .. last) /\ s.n \in 0 .. Seqs - 1
    BY <1>4 DEF GenerateId, StreamAssumption
  <2>2. now * Seqs \in Nat /\ now * Seqs <= MaxMs * Seqs
    BY <1>0, <1>1
  <2>. QED
    BY <1>0, <2>1, <2>2, IdsAre
<1>5. CASE s.by = "ms"
  <2>1. /\ s.n \in Nat /\ s.n <= MaxMs
        /\ id \in (IF s.n < MsOf(last) THEN {}
                   ELSE IF s.n > MsOf(last) THEN {s.n * Seqs}
                   ELSE IF SeqOf(last) = Seqs - 1 THEN {} ELSE {last + 1})
    BY <1>0, <1>5 DEF GenerateId, StreamAssumption
  <2>2. CASE s.n > MsOf(last)
    <3>1. id = s.n * Seqs
      BY <1>0, <2>1, <2>2, Product DEF MsOf
    <3>. QED
      BY <1>0, <1>1, <1>2, <2>1, <2>2, <3>1, IdsAre
  <2>3. CASE ~(s.n > MsOf(last))
    <3>1. id = last + 1 /\ SeqOf(last) # Seqs - 1 /\ s.n = MsOf(last)
      BY <1>0, <2>1, <2>3, Product DEF MsOf
    <3>2. /\ SeqOf(last) \in 0 .. Seqs - 1 /\ last = Seqs * s.n + SeqOf(last)
      BY <1>0, <3>1, Product DEF SeqOf, MsOf
    <3>3. Seqs * s.n \in Nat /\ Seqs * s.n <= MaxMs * Seqs
      <4>1. Seqs * s.n = s.n * Seqs
        BY <1>0, <2>1, SMTT(30)
      <4>. QED
        BY <1>1, <2>1, <4>1
    <3>. QED
      BY <1>0, <3>1, <3>2, <3>3, IdsAre
  <2>. QED
    BY <2>2, <2>3
<1>6. CASE s.by = "id"
  <2>1. id \in (IF last = Top THEN {} ELSE {s.n} \ (0 .. last)) /\ s.n \in Ids
    BY <1>6 DEF GenerateId, StreamAssumption
  <2>2. id = s.n /\ s.n \in Nat /\ ~(s.n \in 0 .. last)
    BY <2>1, IdsAre
  <2>. QED
    BY <1>0, <2>1, <2>2
<1>. QED
  BY <1>3, <1>4, <1>5, <1>6 DEF StreamAssumption

----------------------------------------------------------------------------
(* The record and the rows, when entries go and come.                      *)

TrimOptions == [by : {"none", "maxlen", "minid"}, n : Nat, limit : Nat \cup {Absent}]

\* S is a lower end of R.
LowerEnd(S, R) == S \subseteq R /\ \A x \in S, y \in R : y <= x => y \in S

\* What the record m says of entries is so of the rows S.
Says(m, S) ==
    /\ m.size = Cardinality(S) /\ m.size <= m.added
    /\ S = {} => m.first = 0 /\ m.top = 0
    /\ S # {} => m.first = Lowest(S) /\ m.top = Highest(S) /\ m.top <= m.last

\* What trimming and deleting leave alone.
SameGiven(m, n) ==
    m.last = n.last /\ m.added = n.added /\ m.groups = n.groups /\ m.lapsed = n.lapsed

LEMMA LowerEndFirsts ==
    ASSUME StreamAssumption, NEW R \in SUBSET Ids, NEW S, LowerEnd(S, R), NEW n \in Nat
    PROVE  LowerEnd(FirstOf(S, n), R)
<1>1. S \in SUBSET Ids /\ S \subseteq R
  BY DEF LowerEnd
<1>2. FirstOf(S, n) \subseteq S
  BY <1>1, FirstOfIn
<1>3. \A x \in FirstOf(S, n), y \in R : y <= x => y \in FirstOf(S, n)
  BY <1>1, <1>2, FirstOfIn DEF LowerEnd
<1>. QED
  BY <1>1, <1>2, <1>3 DEF LowerEnd

LEMMA TrimmedLower ==
    ASSUME StreamAssumption, rows \subseteq Ids, NEW m \in Metas, NEW t \in TrimOptions
    PROVE  LowerEnd(Trimmed(m, t), rows)
<1>1. \A i \in rows : i \in Nat
  BY IdsAre
<1>2. Less(m.size, t.n) \in Nat /\ t.n \in Nat
  BY LessIs DEF Metas, TrimOptions
<1>3. LowerEnd({}, rows) /\ LowerEnd(rows, rows)
  BY DEF LowerEnd
<1>4. LowerEnd(FirstOf(rows, Less(m.size, t.n)), rows)
  BY <1>2, <1>3, LowerEndFirsts
<1>5. LowerEnd({i \in rows : i < t.n}, rows)
  <2>1. \A x \in rows, y \in rows : x < t.n /\ y <= x => y < t.n
    BY <1>1, <1>2
  <2>. QED
    BY <2>1 DEF LowerEnd
<1>6. LowerEnd(Unwanted(m, t), rows)
  <2>1. t.by \in {"none", "maxlen", "minid"}
    BY DEF TrimOptions
  <2>. QED
    BY <1>3, <1>4, <1>5, <2>1 DEF Unwanted
<1>7. t.limit # Absent => LowerEnd(FirstOf(Unwanted(m, t), Larger(t.limit, 1)), rows)
  <2>1. t.limit # Absent => Larger(t.limit, 1) \in Nat
    BY DEF TrimOptions, Larger
  <2>. QED
    BY <1>6, <2>1, LowerEndFirsts
<1>. QED
  BY <1>3, <1>6, <1>7 DEF Trimmed

LEMMA LargerIs ==
    ASSUME NEW a \in Ids, NEW b \in Ids
    PROVE  Larger(a, b) \in Ids
BY DEF Larger

LEMMA TrimmedRecord ==
    ASSUME StreamAssumption, rows \subseteq Ids, NEW m \in Metas, NEW gone \in SUBSET rows
    PROVE  /\ MetaTrimmed(m, gone) \in Metas /\ SameGiven(MetaTrimmed(m, gone), m)
           /\ LowerEnd(gone, rows) /\ Says(m, rows) => Says(MetaTrimmed(m, gone), rows \ gone)
<1>1. CASE gone = {}
  BY <1>1 DEF MetaTrimmed, SameGiven
<1>2. CASE gone # {}
  <2>. DEFINE left == rows \ gone
              size == Less(m.size, Cardinality(gone))
              maxdel == Larger(m.maxdel, Highest(gone))
              cut == [m EXCEPT !.size = size, !.maxdel = maxdel]
              over == size = 0 \/ rows = gone
  <2>1. gone \in SUBSET Ids /\ left \in SUBSET Ids
    OBVIOUS
  <2>2. size \in Nat /\ maxdel \in Ids
    BY <1>2, <2>1, IdSet, LessIs, HighestIs, LargerIs DEF Metas
  <2>3. ~over => Lowest(left) \in Ids
    BY <2>1, LowestIs
  <2>4. MetaTrimmed(m, gone) = IF over THEN [cut EXCEPT !.size = 0, !.first = 0, !.top = 0]
                               ELSE [cut EXCEPT !.first = Lowest(left)]
    BY <1>2 DEF MetaTrimmed
  <2>. DEFINE n == MetaTrimmed(m, gone)
  <2>5. /\ n \in Metas /\ SameGiven(n, m)
        /\ over => n.size = 0 /\ n.first = 0 /\ n.top = 0
        /\ ~over => n.size = size /\ n.first = Lowest(left) /\ n.top = m.top
    <3>. HIDE DEF size, maxdel, left
    <3>1. 0 \in Ids
      BY IdsAre
    <3>2. cut \in Metas /\ SameGiven(cut, m) /\ cut.size = size /\ cut.top = m.top
      BY <2>2 DEF Metas, SameGiven
    <3>. HIDE DEF cut
    <3>3. CASE over
      <4>1. n = [cut EXCEPT !.size = 0, !.first = 0, !.top = 0]
        BY <2>4, <3>3
      <4>. HIDE DEF n
      <4>. QED
        BY <3>1, <3>2, <3>3, <4>1 DEF Metas, SameGiven
    <3>4. CASE ~over
      <4>1. n = [cut EXCEPT !.first = Lowest(left)]
        BY <2>4, <3>4
      <4>. HIDE DEF n, over
      <4>. QED
        BY <2>3, <3>2, <3>4, <4>1 DEF Metas, SameGiven
    <3>. QED
      BY <3>3, <3>4
  <2>. HIDE DEF n
  <2>6. ASSUME LowerEnd(gone, rows), Says(m, rows) PROVE Says(n, left)
    <3>1. /\ m.size = Cardinality(rows) /\ Cardinality(gone) <= Cardinality(rows)
          /\ Cardinality(left) = Cardinality(rows) - Cardinality(gone)
          /\ Cardinality(rows) \in Nat /\ Cardinality(gone) \in Nat
          /\ Cardinality(left) = 0 <=> left = {}
      BY <2>1, <2>6, IdSet, SetMinus DEF Says
    <3>2. size = Cardinality(left)
      BY <3>1, LessIs
    <3>3. over <=> left = {}
      BY <3>1, <3>2
    <3>4. n.added = m.added /\ n.last = m.last /\ m.added \in Nat
      BY <2>5 DEF SameGiven, Metas
    <3>. HIDE DEF size
    <3>5. CASE left = {}
      <4>1. n.size = 0 /\ n.first = 0 /\ n.top = 0 /\ Cardinality(left) = 0
        BY <2>5, <3>3, <3>5, FS_EmptySet
      <4>. QED
        BY <3>4, <3>5, <4>1 DEF Says
    <3>6. CASE left # {}
      <4>1. n.size = size /\ n.first = Lowest(left) /\ n.top = m.top
        BY <2>5, <3>3, <3>6
      <4>2. rows # {} /\ m.top = Highest(rows) /\ m.top <= m.last /\ m.size <= m.added
        BY <2>6, <3>6 DEF Says
      <4>3. Highest(rows) \in rows /\ \A x \in rows : x <= Highest(rows)
        BY <4>2, HighestIs
      <4>4. Highest(rows) \notin gone
        BY <2>6, <3>6, <4>3 DEF LowerEnd
      <4>5. Highest(rows) = Highest(left)
        BY <2>1, <3>6, <4>3, <4>4, HighestIs
      <4>6. n.size <= n.added
        BY <3>1, <3>2, <3>4, <4>1, <4>2
      <4>. QED
        BY <3>2, <3>4, <3>6, <4>1, <4>2, <4>5, <4>6 DEF Says
    <3>. QED
      BY <3>5, <3>6
  <2>. QED
    BY <2>5, <2>6 DEF n
<1>. QED
  BY <1>1, <1>2

LEMMA AddedRecord ==
    ASSUME StreamAssumption, NEW m \in Metas, NEW S \in SUBSET Ids, NEW id \in Ids, id > m.last
    PROVE  /\ MetaAdded(m, id) \in Metas
           /\ MetaAdded(m, id).last = id /\ MetaAdded(m, id).added = m.added + 1
           /\ MetaAdded(m, id).groups = m.groups /\ MetaAdded(m, id).lapsed = m.lapsed
           /\ Says(m, S) => Says(MetaAdded(m, id), S \cup {id})
<1>. DEFINE n == MetaAdded(m, id)
            first == IF m.size = 0 THEN id ELSE m.first
            size == m.size + 1
            added == m.added + 1
<1>1. /\ n \in Metas /\ n.last = id /\ n.top = id /\ n.size = size /\ n.added = added
      /\ n.first = first /\ n.groups = m.groups /\ n.lapsed = m.lapsed
  <2>1. n = [m EXCEPT !.last = id, !.top = id, !.size = size, !.added = added, !.first = first]
    BY DEF MetaAdded
  <2>2. first \in Ids /\ size \in Nat /\ added \in Nat
    BY DEF Metas
  <2>. HIDE DEF n, first, size, added
  <2>. QED
    BY <2>1, <2>2 DEF Metas
<1>. HIDE DEF n
<1>2. ASSUME Says(m, S) PROVE Says(n, S \cup {id})
  <2>. DEFINE T == S \cup {id}
  <2>0. T \in SUBSET Ids /\ T # {} /\ id \in T /\ id \in Nat /\ m.last \in Nat
    BY IdsAre DEF Metas
  <2>1. m.size = Cardinality(S) /\ m.size <= m.added /\ (m.size = 0 <=> S = {})
    BY <1>2, IdSet DEF Says
  <2>2. \A x \in S : x < id
    <3>1. CASE S = {}
      BY <3>1
    <3>2. CASE S # {}
      <4>1. \A x \in S : x <= Highest(S) /\ x \in Nat /\ Highest(S) \in Nat
        BY <3>2, HighestIs, IdsAre
      <4>2. Highest(S) <= m.last
        BY <1>2, <3>2 DEF Says
      <4>. QED
        BY <2>0, <4>1, <4>2
    <3>. QED
      BY <3>1, <3>2
  <2>3. id \notin S
    BY <2>0, <2>2
  <2>4. Cardinality(T) = Cardinality(S) + 1
    BY <2>3, IdSet, FS_AddElement
  <2>5. id = Highest(T)
    <3>1. \A x \in T : x <= id
      BY <2>0, <2>2
    <3>. QED
      BY <2>0, <3>1, HighestIs
  <2>6. first = Lowest(T)
    <3>1. CASE S = {}
      <4>1. T = {id} /\ first = id
        BY <2>1, <3>1
      <4>. QED
        BY <2>0, <4>1, LowestIs
    <3>2. CASE S # {}
      <4>1. first = Lowest(S)
        BY <1>2, <2>1, <3>2 DEF Says
      <4>2. Lowest(S) \in S /\ \A x \in S : Lowest(S) <= x
        BY <3>2, LowestIs
      <4>3. Lowest(S) < id /\ Lowest(S) \in Nat
        BY <2>2, <4>2, IdsAre
      <4>4. \A x \in T : Lowest(S) <= x
        BY <2>0, <4>2, <4>3
      <4>5. Lowest(S) = Lowest(T)
        BY <2>0, <4>2, <4>4, LowestIs
      <4>. QED
        BY <4>1, <4>5
    <3>. QED
      BY <3>1, <3>2
  <2>7. n.size <= n.added
    BY <1>1, <2>1 DEF Metas
  <2>. HIDE DEF T, first
  <2>8. Says(n, T)
    BY <1>1, <2>0, <2>1, <2>4, <2>5, <2>6, <2>7 DEF Says
  <2>. QED
    BY <2>8 DEF T
<1>. QED
  BY <1>1, <1>2 DEF n

\* An addition that is not kept: its id is given out all the same.
MetaRefused(m, id) == [m EXCEPT !.last = id, !.maxdel = id, !.added = @ + 1]

LEMMA RefusedRecord ==
    ASSUME StreamAssumption, NEW m \in Metas, NEW S \in SUBSET Ids, NEW id \in Ids, id > m.last,
           NEW n, n = MetaRefused(m, id)
    PROVE  /\ n \in Metas /\ n.last = id /\ n.added = m.added + 1
           /\ n.groups = m.groups /\ n.lapsed = m.lapsed
           /\ Says(m, S) => Says(n, S)
<1>. DEFINE added == m.added + 1
<1>1. /\ n \in Metas /\ n.last = id /\ n.added = added /\ n.groups = m.groups
      /\ n.lapsed = m.lapsed /\ n.size = m.size /\ n.first = m.first /\ n.top = m.top
  <2>1. n = [m EXCEPT !.last = id, !.maxdel = id, !.added = added]
    BY DEF MetaRefused
  <2>2. added \in Nat
    BY DEF Metas
  <2>. HIDE DEF added
  <2>. QED
    BY <2>1, <2>2 DEF Metas
<1>2. ASSUME Says(m, S) PROVE Says(n, S)
  <2>1. /\ m.last \in Nat /\ id \in Nat /\ m.top \in Nat /\ m.added \in Nat /\ m.size \in Nat
    BY IdsAre DEF Metas
  <2>2. m.top <= m.last => m.top <= id
    BY <2>1
  <2>3. m.size <= m.added => n.size <= n.added
    BY <1>1, <2>1
  <2>. QED
    BY <1>1, <1>2, <2>2, <2>3 DEF Says
<1>. QED
  BY <1>1, <1>2

LEMMA DeletedRecord ==
    ASSUME StreamAssumption, rows \subseteq Ids, NEW m \in Metas, NEW gone \in SUBSET rows,
           gone # {}, NEW n,
           n = [MetaDeleted(m, gone) EXCEPT !.maxdel = Larger(@, Highest(gone))]
    PROVE  /\ n \in Metas /\ SameGiven(n, m)
           /\ Says(m, rows) => Says(n, rows \ gone)
<1>. DEFINE size == Less(m.size, Cardinality(gone))
            left == rows \ gone
            first == IF m.first \in gone /\ left # {} THEN Lowest(left) ELSE m.first
            top == IF m.top \in gone /\ left # {} THEN Highest(left) ELSE m.top
            d == MetaDeleted(m, gone)
            maxdel == Larger(d.maxdel, Highest(gone))
<1>1. gone \in SUBSET Ids /\ left \in SUBSET Ids /\ 0 \in Ids
  BY IdsAre
<1>2. size \in Nat /\ first \in Ids /\ top \in Ids /\ Highest(gone) \in Ids
  BY <1>1, IdSet, LessIs, LowestIs, HighestIs DEF Metas
<1>3. d = IF size = 0 THEN [m EXCEPT !.size = 0, !.first = 0, !.top = 0]
          ELSE [m EXCEPT !.size = size, !.first = first, !.top = top]
  BY DEF MetaDeleted
<1>4. /\ d \in Metas /\ SameGiven(d, m)
      /\ size = 0 => d.size = 0 /\ d.first = 0 /\ d.top = 0
      /\ size # 0 => d.size = size /\ d.first = first /\ d.top = top
  <2>. HIDE DEF size, first, top, d
  <2>1. CASE size = 0
    BY <1>1, <1>3, <2>1 DEF Metas, SameGiven
  <2>2. CASE size # 0
    BY <1>2, <1>3, <2>2 DEF Metas, SameGiven
  <2>. QED
    BY <2>1, <2>2
<1>5. /\ n \in Metas /\ SameGiven(n, m)
      /\ n.size = d.size /\ n.first = d.first /\ n.top = d.top
  <2>1. maxdel \in Ids
    BY <1>2, <1>4, LargerIs DEF Metas
  <2>2. n = [d EXCEPT !.maxdel = maxdel]
    OBVIOUS
  <2>. HIDE DEF d, maxdel
  <2>. QED
    BY <1>4, <2>1, <2>2 DEF Metas, SameGiven
<1>6. ASSUME Says(m, rows) PROVE Says(n, left)
  <2>1. /\ m.size = Cardinality(rows) /\ Cardinality(gone) <= Cardinality(rows)
        /\ Cardinality(left) = Cardinality(rows) - Cardinality(gone)
        /\ Cardinality(rows) \in Nat /\ Cardinality(gone) \in Nat
        /\ Cardinality(left) = 0 <=> left = {}
        /\ m.size <= m.added /\ m.added \in Nat
    BY <1>1, <1>6, IdSet, SetMinus DEF Says, Metas
  <2>2. size = Cardinality(left)
    BY <2>1, LessIs
  <2>3. n.added = m.added /\ n.last = m.last
    BY <1>5 DEF SameGiven
  <2>4. CASE left = {}
    <3>1. size = 0
      BY <2>1, <2>2, <2>4
    <3>. HIDE DEF size, d
    <3>2. n.size = 0 /\ n.first = 0 /\ n.top = 0
      BY <1>4, <1>5, <3>1
    <3>. QED
      BY <2>1, <2>2, <2>3, <2>4, <3>1, <3>2 DEF Says
  <2>5. CASE left # {}
    <3>1. size # 0
      BY <2>1, <2>2, <2>5
    <3>2. n.size = size /\ n.first = first /\ n.top = top
      BY <1>4, <1>5, <3>1
    <3>3. rows # {} /\ m.first = Lowest(rows) /\ m.top = Highest(rows) /\ m.top <= m.last
      BY <1>6, <2>5 DEF Says
    <3>4. /\ Lowest(rows) \in rows /\ \A x \in rows : Lowest(rows) <= x
          /\ Highest(rows) \in rows /\ \A x \in rows : x <= Highest(rows)
      BY <3>3, LowestIs, HighestIs
    <3>5. first = Lowest(left)
      <4>1. ASSUME m.first \notin gone PROVE m.first = Lowest(left)
        <5>1. m.first \in left /\ \A x \in left : m.first <= x
          BY <3>3, <3>4, <4>1
        <5>. QED
          BY <1>1, <2>5, <5>1, LowestIs
      <4>. QED
        BY <2>5, <4>1
    <3>6. top = Highest(left)
      <4>1. ASSUME m.top \notin gone PROVE m.top = Highest(left)
        <5>1. m.top \in left /\ \A x \in left : x <= m.top
          BY <3>3, <3>4, <4>1
        <5>. QED
          BY <1>1, <2>5, <5>1, HighestIs
      <4>. QED
        BY <2>5, <4>1
    <3>7. Highest(left) <= m.last
      <4>1. /\ Highest(left) \in left /\ Highest(left) \in Nat /\ m.top \in Nat /\ m.last \in Nat
        BY <1>1, <2>5, HighestIs, IdsAre DEF Metas
      <4>2. Highest(left) <= m.top
        BY <3>3, <3>4, <4>1
      <4>. QED
        BY <3>3, <4>1, <4>2
    <3>8. n.size <= n.added
      BY <2>1, <2>2, <2>3, <3>2
    <3>. HIDE DEF size, first, top, left
    <3>. QED
      BY <2>2, <2>3, <2>5, <3>2, <3>5, <3>6, <3>7, <3>8 DEF Says
  <2>. QED
    BY <2>4, <2>5
<1>. QED
  BY <1>5, <1>6

----------------------------------------------------------------------------
(* The invariant, in parts.                                                *)

Typed == TypeOK /\ due \in [Groups -> SUBSET Ids]

Present == {g \in Groups : group[g] # Absent}

RecordInv ==
    "residue" \notin noted =>
        IF meta = Absent THEN rows = {} /\ Present = {}
        ELSE Says(meta, rows) /\ meta.groups = Cardinality(Present)

\* Whoever a pending entry belongs to has a record.
Owning(g) ==
    /\ group[g] = Absent => Pending(g) = {} /\ \A c \in Consumers : consumer[g][c] = Absent
    /\ \A i \in Pending(g) : consumer[g][pel[g][i].owner] # Absent

Counting(g) ==
    group[g] # Absent =>
        /\ group[g].pending = Cardinality(Pending(g))
        /\ group[g].consumers = Cardinality({c \in Consumers : consumer[g][c] # Absent})
        /\ \A c \in Consumers : consumer[g][c] # Absent => consumer[g][c] = Cardinality(Owned(g, c))

\* The entries after the last one given.
Rest(g) == {i \in rows : i > group[g].delivered}

Giving(g) ==
    group[g] # Absent =>
        /\ meta # Absent /\ group[g].delivered <= meta.last
        /\ due[g] = Rest(g)

Lagging(g) ==
    group[g] # Absent => meta # Absent /\ group[g].read + Cardinality(Rest(g)) <= meta.added

Miscounts == {"again", "shared", "uncounted", "residue"}
Misplaced == {"ahead", "residue"}
Unread == {"again", "ahead", "set", "residue"}

OwnInv == \A g \in Groups : Owning(g)
CountInv == noted \cap Miscounts = {} => \A g \in Groups : Counting(g)
GiveInv == noted \cap Misplaced = {} => \A g \in Groups : Giving(g)
LagInv == noted \cap Unread = {} => \A g \in Groups : Lagging(g)

LEMMA TypesAt ==
    ASSUME StreamAssumption, Typed
    PROVE  /\ now \in 1 .. MaxNow /\ rows \in SUBSET Ids /\ meta \in Metas \cup {Absent}
           /\ Absent \notin Metas /\ Absent \notin GroupMetas /\ Absent \notin Nat
           /\ Absent \notin PelEntries
           /\ Live <=> meta # Absent /\ ~meta.lapsed
           /\ Live => meta \in Metas
           /\ \A g \in Groups : /\ group[g] \in GroupMetas \cup {Absent} /\ due[g] \in SUBSET Ids
                                /\ consumer[g] \in [Consumers -> Nat \cup {Absent}]
                                /\ pel[g] \in [Ids -> PelEntries \cup {Absent}]
BY DEF Typed, TypeOK, StreamAssumption, Live

----------------------------------------------------------------------------
(* What writes entries.                                                    *)

\* The rows of a stream that is there change, by one new entry at most; no
\* group is written.
EntriesStep ==
    /\ Live
    /\ meta' \in Metas /\ meta'.groups = meta.groups /\ meta'.last >= meta.last
    /\ \/ rows' \subseteq rows /\ meta'.added >= meta.added
       \/ \E id \in Ids : /\ id > meta.last /\ id <= meta'.last
                          /\ rows' \subseteq rows \cup {id} /\ meta'.added >= meta.added + 1
    /\ Says(meta, rows) => Says(meta', rows')
    /\ due' = [g \in Groups |-> IF group[g] = Absent THEN {}
                                ELSE (due[g] \cap rows') \cup (rows' \ rows)]
    /\ UNCHANGED <<now, group, consumer, pel, noted>>

LEMMA AddToStep ==
    ASSUME StreamAssumption, Typed, Live, NEW t \in Trims, NEW id \in Ids, id > meta.last,
           AddTo(id, t), UNCHANGED now
    PROVE  EntriesStep
<1>. DEFINE room == MakingRoom(t)
            gone == IF t.by = "none" THEN {} ELSE Trimmed(meta, room)
            m == MetaTrimmed(meta, gone)
            refused == \/ t.by = "minid" /\ id < t.n
                       \/ t.by = "maxlen" /\ t.n = 0
            n == MetaRefused(m, id)
            left == rows \ gone
<1>1. /\ meta' = IF refused THEN n ELSE MetaAdded(m, id)
      /\ rows' = IF refused THEN left ELSE left \cup {id}
      /\ due' = [g \in Groups |-> IF group[g] = Absent THEN {}
                                  ELSE (due[g] \cap rows') \cup (rows' \ rows)]
      /\ UNCHANGED <<now, group, consumer, pel, noted>>
  BY Zenon DEF AddTo, Rows, MetaRefused
<1>2. rows \in SUBSET Ids /\ meta \in Metas
  BY TypesAt
<1>3. LowerEnd(gone, rows)
  <2>1. t \in TrimOptions
    BY DEF StreamAssumption, TrimOptions
  <2>2. room \in TrimOptions
    <3>1. Less(t.n, 1) \in Nat
      BY <2>1, LessIs DEF TrimOptions
    <3>2. [t EXCEPT !.n = Less(@, 1)] \in TrimOptions
      BY <2>1, <3>1 DEF TrimOptions
    <3>. QED
      BY <2>1, <3>2 DEF MakingRoom
  <2>3. LowerEnd(Trimmed(meta, room), rows)
    BY <1>2, <2>2, TrimmedLower
  <2>. HIDE DEF room
  <2>. QED
    BY <2>3 DEF LowerEnd
<1>4. gone \in SUBSET rows
  BY <1>3 DEF LowerEnd
<1>. HIDE DEF gone
<1>5. m \in Metas /\ SameGiven(m, meta) /\ (Says(meta, rows) => Says(m, left))
  BY <1>2, <1>3, <1>4, TrimmedRecord
<1>. HIDE DEF m
<1>6. id > m.last /\ left \in SUBSET Ids
  BY <1>2, <1>5 DEF SameGiven
<1>7. meta.last \in Nat /\ id \in Nat /\ meta.added \in Nat
  BY <1>2, IdsAre DEF Metas
<1>8. id >= meta.last /\ id <= id
  BY <1>7
<1>9. CASE refused
  <2>1. /\ n \in Metas /\ n.last = id /\ n.added = m.added + 1 /\ n.groups = m.groups
        /\ Says(m, left) => Says(n, left)
    BY <1>5, <1>6, RefusedRecord
  <2>. HIDE DEF n, refused
  <2>2. meta' = n /\ rows' = left
    BY <1>1, <1>9
  <2>3. rows' \subseteq rows \cup {id} /\ meta'.added >= meta.added + 1
    BY <1>5, <1>7, <2>1, <2>2 DEF SameGiven
  <2>. QED
    BY <1>1, <1>5, <1>8, <2>1, <2>2, <2>3 DEF EntriesStep, SameGiven
<1>10. CASE ~refused
  <2>. DEFINE a == MetaAdded(m, id)
  <2>1. /\ a \in Metas /\ a.last = id /\ a.added = m.added + 1 /\ a.groups = m.groups
        /\ Says(m, left) => Says(a, left \cup {id})
    BY <1>5, <1>6, AddedRecord
  <2>. HIDE DEF a, refused
  <2>2. meta' = a /\ rows' = left \cup {id}
    BY <1>1, <1>10 DEF a
  <2>3. rows' \subseteq rows \cup {id} /\ meta'.added >= meta.added + 1
    BY <1>5, <1>7, <2>1, <2>2 DEF SameGiven
  <2>. QED
    BY <1>1, <1>5, <1>8, <2>1, <2>2, <2>3 DEF EntriesStep, SameGiven
<1>. QED
  BY <1>9, <1>10

LEMMA XTrimStep ==
    ASSUME StreamAssumption, Typed, NEW t \in Trims, XTrim(t)
    PROVE  EntriesStep
<1>. DEFINE gone == Trimmed(meta, t)
            m == MetaTrimmed(meta, gone)
<1>1. /\ Live /\ meta' = m /\ rows' = rows \ gone
      /\ due' = [g \in Groups |-> IF group[g] = Absent THEN {}
                                  ELSE (due[g] \cap rows') \cup (rows' \ rows)]
      /\ UNCHANGED <<now, group, consumer, pel, noted>>
  BY DEF XTrim, Rows
<1>2. rows \in SUBSET Ids /\ meta \in Metas /\ t \in TrimOptions
  BY <1>1, TypesAt DEF StreamAssumption, TrimOptions
<1>3. LowerEnd(gone, rows)
  BY <1>2, TrimmedLower
<1>4. gone \in SUBSET rows
  BY <1>3 DEF LowerEnd
<1>. HIDE DEF gone
<1>5. m \in Metas /\ SameGiven(m, meta) /\ (Says(meta, rows) => Says(m, rows \ gone))
  BY <1>2, <1>3, <1>4, TrimmedRecord
<1>. HIDE DEF m
<1>6. meta.last \in Nat /\ meta.added \in Nat
  BY <1>2, IdsAre DEF Metas
<1>7. meta'.last >= meta.last /\ meta'.added >= meta.added /\ rows' \subseteq rows
  BY <1>1, <1>5, <1>6 DEF SameGiven
<1>. QED
  BY <1>1, <1>5, <1>7 DEF EntriesStep, SameGiven

LEMMA XDelStep ==
    ASSUME StreamAssumption, Typed, NEW ids \in SUBSET rows, XDel(ids)
    PROVE  EntriesStep
<1>. DEFINE gone == ids \cap rows
            n == [MetaDeleted(meta, gone) EXCEPT !.maxdel = Larger(@, Highest(gone))]
<1>1. /\ Live /\ gone # {} /\ meta' = n /\ rows' = rows \ gone
      /\ due' = [g \in Groups |-> IF group[g] = Absent THEN {}
                                  ELSE (due[g] \cap rows') \cup (rows' \ rows)]
      /\ UNCHANGED <<now, group, consumer, pel, noted>>
  BY DEF XDel, Rows
<1>2. rows \in SUBSET Ids /\ meta \in Metas /\ gone \in SUBSET rows
  BY <1>1, TypesAt
<1>. HIDE DEF gone
<1>3. n \in Metas /\ SameGiven(n, meta) /\ (Says(meta, rows) => Says(n, rows \ gone))
  BY <1>1, <1>2, DeletedRecord
<1>. HIDE DEF n
<1>4. meta.last \in Nat /\ meta.added \in Nat
  BY <1>2, IdsAre DEF Metas
<1>5. meta'.last >= meta.last /\ meta'.added >= meta.added /\ rows' \subseteq rows
  BY <1>1, <1>3, <1>4 DEF SameGiven
<1>. QED
  BY <1>1, <1>3, <1>5 DEF EntriesStep, SameGiven

\* A stream is begun or removed, with whatever was there.
FreshStep ==
    /\ meta' \in Metas \cup {Absent} /\ rows' \in SUBSET Ids
    /\ IF meta' = Absent THEN rows' = {} ELSE Says(meta', rows') /\ meta'.groups = 0
    /\ NoGroups
    /\ UNCHANGED now

LEMMA NewRecord ==
    ASSUME StreamAssumption
    PROVE  /\ NewMeta \in Metas /\ NewMeta.last = 0 /\ NewMeta.groups = 0 /\ NewMeta.added = 0
           /\ NewMeta.first = 0 /\ NewMeta.top = 0 /\ NewMeta.size = 0 /\ ~NewMeta.lapsed
           /\ Says(NewMeta, {})
BY IdsAre, FS_EmptySet DEF NewMeta, Metas, Says

LEMMA AddNewStep ==
    ASSUME StreamAssumption, NEW t \in Trims, NEW id \in Ids, id > 0, AddNew(id, t), UNCHANGED now
    PROVE  FreshStep
<1>. DEFINE refused == \/ t.by = "minid" /\ id < t.n
                       \/ t.by = "maxlen" /\ t.n = 0
            n == [NewMeta EXCEPT !.last = id, !.maxdel = id, !.added = 1]
            a == MetaAdded(NewMeta, id)
<1>1. /\ meta' = IF refused THEN n ELSE a
      /\ rows' = IF refused THEN {} ELSE {id}
      /\ NoGroups
  BY DEF AddNew
<1>2. CASE refused
  <2>1. n = MetaRefused(NewMeta, id)
    <3>1. NewMeta.added + 1 = 1
      BY NewRecord
    <3>2. MetaRefused(NewMeta, id)
             = [NewMeta EXCEPT !.last = id, !.maxdel = id, !.added = NewMeta.added + 1]
      BY DEF MetaRefused, NewMeta
    <3>. QED
      BY Zenon, <3>1, <3>2
  <2>2. n \in Metas /\ n.groups = 0 /\ Says(n, {})
    BY <2>1, NewRecord, RefusedRecord
  <2>. HIDE DEF n, refused
  <2>. QED
    BY <1>1, <1>2, <2>2 DEF FreshStep, StreamAssumption
<1>3. CASE ~refused
  <2>1. a \in Metas /\ a.groups = 0 /\ Says(a, {} \cup {id})
    BY NewRecord, AddedRecord
  <2>2. {} \cup {id} = {id} /\ {id} \in SUBSET Ids
    OBVIOUS
  <2>. HIDE DEF a, refused
  <2>. QED
    BY <1>1, <1>3, <2>1, <2>2 DEF FreshStep, StreamAssumption
<1>. QED
  BY <1>2, <1>3

LEMMA XAddStep ==
    ASSUME StreamAssumption, Typed, NEW s \in Strategies, NEW t \in Trims, NEW b \in BOOLEAN,
           XAdd(s, t, b)
    PROVE  EntriesStep \/ FreshStep
<1>1. CASE Live
  <2>1. meta.last \in Ids
    BY <1>1, TypesAt DEF Metas
  <2>2. PICK id \in GenerateId(s, meta.last) : AddTo(id, t)
    BY <1>1 DEF XAdd
  <2>3. id \in Ids /\ id > meta.last
    BY <2>1, Generated, TypesAt
  <2>4. UNCHANGED now
    BY DEF XAdd
  <2>. QED
    BY <1>1, <2>2, <2>3, <2>4, AddToStep
<1>2. CASE ~Live
  <2>1. 0 \in Ids
    BY IdsAre
  <2>2. PICK id \in GenerateId(s, 0) : AddNew(id, t)
    BY <1>2 DEF XAdd
  <2>3. id \in Ids /\ id > 0
    BY <2>1, Generated, TypesAt
  <2>4. UNCHANGED now
    BY DEF XAdd
  <2>. QED
    BY <2>2, <2>3, <2>4, AddNewStep
<1>. QED
  BY <1>1, <1>2

Inv == Typed /\ RecordInv /\ OwnInv /\ CountInv /\ GiveInv /\ LagInv

LEMMA FreshKeeps ==
    ASSUME StreamAssumption, Inv, FreshStep
    PROVE  Inv'
<1>1. \A g \in Groups : /\ group'[g] = Absent /\ due'[g] = {}
                        /\ consumer'[g] = [c \in Consumers |-> Absent]
                        /\ pel'[g] = [i \in Ids |-> Absent]
  BY DEF FreshStep, NoGroups
<1>2. Typed'
  BY DEF Inv, Typed, TypeOK, FreshStep, NoGroups
<1>3. RecordInv'
  <2>1. Present' = {} /\ Cardinality({}) = 0
    BY <1>1, FS_EmptySet DEF Present
  <2>. QED
    BY <2>1 DEF RecordInv, FreshStep
<1>4. OwnInv'
  <2>. SUFFICES ASSUME NEW g \in Groups PROVE Owning(g)'
    BY DEF OwnInv
  <2>1. Pending(g)' = {}
    BY <1>1 DEF Pending
  <2>2. \A c \in Consumers : consumer'[g][c] = Absent
    BY <1>1
  <2>. QED
    BY <2>1, <2>2 DEF Owning
<1>5. \A g \in Groups : Counting(g)' /\ Giving(g)' /\ Lagging(g)'
  BY <1>1 DEF Counting, Giving, Lagging
<1>. QED
  BY <1>2, <1>3, <1>4, <1>5 DEF Inv, CountInv, GiveInv, LagInv

LEMMA EntriesKeep ==
    ASSUME StreamAssumption, Inv, EntriesStep
    PROVE  Inv'
<1>0. /\ Live /\ rows \in SUBSET Ids /\ meta \in Metas /\ meta # Absent /\ meta' # Absent
      /\ rows' \in SUBSET Ids /\ meta.last \in Nat /\ meta'.last \in Nat
      /\ meta.added \in Nat /\ meta'.added \in Nat
  <2>1. Live /\ rows \in SUBSET Ids /\ meta \in Metas /\ meta' \in Metas /\ Absent \notin Metas
    BY TypesAt DEF EntriesStep, Inv
  <2>2. rows' \in SUBSET Ids
    BY <2>1 DEF EntriesStep
  <2>. QED
    BY <2>1, <2>2, IdsAre DEF Metas
<1>1. \A g \in Groups : /\ group'[g] = group[g] /\ consumer'[g] = consumer[g] /\ pel'[g] = pel[g]
                        /\ group[g] # Absent => due'[g] = (due[g] \cap rows') \cup (rows' \ rows)
  BY DEF EntriesStep
<1>2. Typed'
  <2>1. due' \in [Groups -> SUBSET Ids]
    BY <1>0, TypesAt DEF EntriesStep, Inv
  <2>2. TypeOK'
    BY <1>0 DEF Inv, Typed, TypeOK, EntriesStep
  <2>. QED
    BY <2>1, <2>2 DEF Typed
<1>3. RecordInv'
  <2>1. Present' = Present
    BY DEF Present, EntriesStep
  <2>. QED
    BY <1>0, <2>1 DEF RecordInv, EntriesStep, Inv
<1>4. \A g \in Groups : /\ Pending(g)' = Pending(g)
                        /\ \A c \in Consumers : Owned(g, c)' = Owned(g, c)
  BY DEF Pending, Owned, EntriesStep
<1>5. OwnInv'
  BY <1>1, <1>4 DEF Inv, OwnInv, Owning
<1>6. CountInv'
  BY <1>1, <1>4 DEF Inv, CountInv, Counting, EntriesStep
<1>7. noted' = noted
  BY DEF EntriesStep
<1>8. ASSUME NEW g \in Groups, group[g] # Absent
      PROVE  group[g].delivered \in Nat /\ group[g].read \in Int /\ group[g] \in GroupMetas
  BY <1>8, TypesAt, IdsAre DEF Inv, GroupMetas
<1>9. ASSUME NEW g \in Groups, group[g] # Absent, group[g].delivered <= meta.last
      PROVE  /\ \A i \in rows' \ rows : i > group[g].delivered
             /\ Rest(g)' \subseteq Rest(g) \cup (rows' \ rows)
             /\ Rest(g)' = (Rest(g) \cap rows') \cup (rows' \ rows)
  <2>1. \A i \in rows' \ rows : i > meta.last /\ i \in Nat
    BY <1>0, IdsAre DEF EntriesStep
  <2>2. \A i \in rows' \ rows : i > group[g].delivered
    BY <1>0, <1>8, <1>9, <2>1
  <2>3. Rest(g)' = {i \in rows' : i > group[g].delivered}
    BY <1>1 DEF Rest
  <2>. QED
    BY <2>2, <2>3 DEF Rest
<1>10. ASSUME NEW g \in Groups, Giving(g) PROVE Giving(g)'
  <2>1. CASE group[g] = Absent
    BY <1>1, <2>1 DEF Giving
  <2>2. CASE group[g] # Absent
    <3>1. group[g].delivered <= meta.last /\ due[g] = Rest(g)
      BY <1>10, <2>2 DEF Giving
    <3>2. due'[g] = Rest(g)'
      BY <1>1, <1>9, <2>2, <3>1
    <3>3. group[g].delivered <= meta'.last
      BY <1>0, <1>8, <2>2, <3>1 DEF EntriesStep
    <3>. QED
      BY <1>0, <1>1, <3>2, <3>3 DEF Giving
  <2>. QED
    BY <2>1, <2>2
<1>11. ASSUME NEW g \in Groups, Lagging(g) PROVE Lagging(g)'
  <2>1. CASE group[g] = Absent
    BY <1>1, <2>1 DEF Lagging
  <2>2. CASE group[g] # Absent
    <3>0. Rest(g) \in SUBSET Ids /\ Rest(g)' \in SUBSET Ids
      BY <1>0 DEF Rest
    <3>1. group[g].read + Cardinality(Rest(g)) <= meta.added
      BY <1>11, <2>2 DEF Lagging
    <3>2. \/ rows' \subseteq rows /\ meta'.added >= meta.added
          \/ \E id \in Ids : rows' \subseteq rows \cup {id} /\ meta'.added >= meta.added + 1
      BY DEF EntriesStep
    <3>3. Rest(g)' = {i \in rows' : i > group[g].delivered}
      BY <1>1 DEF Rest
    <3>4. group[g].read + Cardinality(Rest(g)') <= meta'.added
      <4>1. CASE rows' \subseteq rows /\ meta'.added >= meta.added
        <5>1. Rest(g)' \subseteq Rest(g)
          BY <3>3, <4>1 DEF Rest
        <5>2. Cardinality(Rest(g)') <= Cardinality(Rest(g))
          BY <3>0, <5>1, IdSet
        <5>. QED
          BY <1>0, <1>8, <2>2, <3>0, <3>1, <4>1, <5>2, IdSet
      <4>2. CASE \E id \in Ids : rows' \subseteq rows \cup {id} /\ meta'.added >= meta.added + 1
        <5>0. PICK id \in Ids : rows' \subseteq rows \cup {id} /\ meta'.added >= meta.added + 1
          BY <4>2
        <5>1. Rest(g)' \subseteq Rest(g) \cup {id}
          BY <3>3, <5>0 DEF Rest
        <5>2. /\ IsFiniteSet(Rest(g) \cup {id})
              /\ Cardinality(Rest(g) \cup {id}) <= Cardinality(Rest(g)) + 1
          BY <3>0, IdSet, FS_AddElement
        <5>3. Rest(g) \cup {id} \in SUBSET Ids
          BY <3>0
        <5>4. Cardinality(Rest(g)') <= Cardinality(Rest(g) \cup {id})
          BY <5>1, <5>3, IdSet
        <5>. QED
          BY <1>0, <1>8, <2>2, <3>0, <3>1, <5>0, <5>2, <5>3, <5>4, IdSet
      <4>. QED
        BY <3>2, <4>1, <4>2
    <3>. QED
      BY <1>0, <1>1, <3>4 DEF Lagging
  <2>. QED
    BY <2>1, <2>2
<1>. QED
  BY <1>2, <1>3, <1>5, <1>6, <1>7, <1>10, <1>11 DEF Inv, GiveInv, LagInv

\* Neither entries nor groups change: what is said of them stays.
LEMMA SameEntries ==
    ASSUME UNCHANGED <<rows, group, consumer, pel, due>>
    PROVE  /\ Present' = Present
           /\ \A g \in Groups : Rest(g)' = Rest(g) /\ (Owning(g)' <=> Owning(g))
                                /\ (Counting(g)' <=> Counting(g))
<1>1. \A g \in Groups : Pending(g)' = Pending(g) /\ \A c \in Consumers : Owned(g, c)' = Owned(g, c)
  BY DEF Pending, Owned
<1>. QED
  BY <1>1 DEF Present, Rest, Owning, Counting

LEMMA XSetIdKeeps ==
    ASSUME StreamAssumption, Inv, NEW last \in LastIds, NEW added \in {Absent, 1},
           NEW maxdel \in {Absent, 1}, XSetId(last, added, maxdel)
    PROVE  Inv'
<1>. DEFINE m == IF Live THEN meta ELSE NewMeta
            a == IF added = Absent THEN m.added ELSE added
            d == IF maxdel \in {Absent, 0} THEN m.maxdel ELSE maxdel
<1>0. /\ last \in Ids /\ last \in Nat /\ meta \in Metas \cup {Absent} /\ rows \in SUBSET Ids
      /\ Absent \notin Metas /\ Absent \notin Nat
  BY TypesAt, IdsAre DEF StreamAssumption, Inv
<1>1. m \in Metas
  BY TypesAt, NewRecord DEF Inv
<1>2. /\ meta' = [m EXCEPT !.last = last, !.added = a, !.maxdel = d]
      /\ maxdel # Absent => maxdel <= last
      /\ m.size > 0 => last >= m.last /\ (added # Absent => added >= m.size)
      /\ UNCHANGED <<now, rows, group, consumer, pel, due>>
  BY DEF XSetId
<1>3. /\ "set" \in noted' /\ noted \subseteq noted'
      /\ "residue" \notin noted' /\ ~Live => rows = {} /\ \A g \in Groups : group[g] = Absent
      /\ "ahead" \notin noted' => \A g \in Groups : group[g] # Absent => ~(last < group[g].delivered)
  BY DEF XSetId
<1>4. a \in Nat /\ d \in Ids
  <2>1. maxdel \notin {Absent, 0} => maxdel \in Ids
    BY <1>0, <1>2, IdsAre
  <2>. QED
    BY <1>1, <2>1 DEF Metas
<1>5. /\ meta' \in Metas /\ meta' # Absent /\ meta'.size = m.size /\ meta'.first = m.first
      /\ meta'.top = m.top /\ meta'.groups = m.groups /\ meta'.last = last /\ meta'.added = a
  <2>. HIDE DEF m, a, d
  <2>. QED
    BY <1>0, <1>1, <1>2, <1>4 DEF Metas
<1>6. /\ Present' = Present
      /\ \A g \in Groups : Rest(g)' = Rest(g) /\ (Owning(g)' <=> Owning(g))
                           /\ (Counting(g)' <=> Counting(g))
  BY <1>2, SameEntries
<1>7. Typed'
  BY <1>2, <1>5 DEF Inv, Typed, TypeOK
<1>8. ASSUME "residue" \notin noted' PROVE Says(m, rows) /\ m.groups = Cardinality(Present)
  <2>1. CASE Live
    BY <1>3, <1>8, <2>1, TypesAt DEF Inv, RecordInv
  <2>2. CASE ~Live
    <3>1. rows = {} /\ Present = {} /\ Cardinality({}) = 0
      BY <1>3, <1>8, <2>2, FS_EmptySet DEF Present
    <3>. QED
      BY <2>2, <3>1, NewRecord
  <2>. QED
    BY <2>1, <2>2
<1>9. ASSUME "residue" \notin noted' PROVE Says(meta', rows)
  <2>1. Says(m, rows) /\ m.size \in Nat /\ m.last \in Nat /\ m.top \in Nat /\ m.added \in Nat
    BY <1>1, <1>8, <1>9, IdsAre DEF Metas
  <2>2. m.size = 0 \/ (last >= m.last /\ (added # Absent => added >= m.size))
    BY <1>2, <2>1
  <2>3. m.size <= a
    BY <1>4, <2>1, <2>2 DEF Says
  <2>. HIDE DEF a
  <2>. HIDE DEF m
  <2>4. ASSUME rows # {} PROVE m.top <= last
    <3>1. m.size # 0 /\ m.top <= m.last
      BY <1>0, <2>1, <2>4, IdSet DEF Says
    <3>. QED
      BY <1>0, <2>1, <2>2, <3>1
  <2>. QED
    BY <1>5, <2>1, <2>3, <2>4 DEF Says
<1>10. RecordInv'
  BY <1>2, <1>5, <1>6, <1>8, <1>9 DEF RecordInv
<1>11. GiveInv'
  <2>. SUFFICES ASSUME noted' \cap Misplaced = {}, NEW g \in Groups, group'[g] # Absent
                PROVE  Giving(g)'
    BY DEF GiveInv, Giving
  <2>1. Giving(g) /\ "ahead" \notin noted'
    BY <1>3 DEF Inv, GiveInv, Misplaced
  <2>2. group[g] # Absent /\ group[g].delivered \in Nat
    BY <1>2, TypesAt, IdsAre DEF Inv, GroupMetas
  <2>3. group[g].delivered <= meta'.last
    BY <1>0, <1>3, <1>5, <2>1, <2>2
  <2>. QED
    BY <1>2, <1>5, <1>6, <2>1, <2>2, <2>3 DEF Giving
<1>12. LagInv'
  BY <1>3 DEF LagInv, Unread
<1>13. OwnInv' /\ CountInv'
  BY <1>3, <1>6 DEF Inv, OwnInv, CountInv
<1>. QED
  BY <1>7, <1>10, <1>11, <1>12, <1>13 DEF Inv

\* Time passes, or the stream's expiry does.
LEMMA TimeKeeps ==
    ASSUME StreamAssumption, Inv, Tick \/ Lapse
    PROVE  Inv'
<1>1. UNCHANGED <<rows, group, consumer, pel, due, noted>>
  BY DEF Tick, Lapse
<1>2. /\ now' \in 1 .. MaxNow /\ meta' \in Metas \cup {Absent} /\ (meta' = Absent <=> meta = Absent)
      /\ meta # Absent => /\ meta'.size = meta.size /\ meta'.first = meta.first
                          /\ meta'.top = meta.top /\ meta'.last = meta.last
                          /\ meta'.added = meta.added /\ meta'.groups = meta.groups
  <2>1. CASE Tick
    BY <2>1, TypesAt DEF Tick, Inv, StreamAssumption
  <2>2. CASE Lapse
    BY <2>2, TypesAt DEF Lapse, Inv, Metas
  <2>. QED
    BY <2>1, <2>2
<1>3. /\ Present' = Present
      /\ \A g \in Groups : Rest(g)' = Rest(g) /\ (Owning(g)' <=> Owning(g))
                           /\ (Counting(g)' <=> Counting(g))
  BY <1>1, SameEntries
<1>4. Typed'
  BY <1>1, <1>2 DEF Inv, Typed, TypeOK
<1>5. RecordInv'
  BY <1>1, <1>2, <1>3 DEF Inv, RecordInv, Says
<1>6. GiveInv' /\ LagInv'
  BY <1>1, <1>2, <1>3 DEF Inv, GiveInv, LagInv, Giving, Lagging
<1>7. OwnInv' /\ CountInv'
  BY <1>1, <1>3 DEF Inv, OwnInv, CountInv
<1>. QED
  BY <1>4, <1>5, <1>6, <1>7 DEF Inv

LEMMA EraseStep ==
    ASSUME Erase
    PROVE  FreshStep
BY DEF Erase, FreshStep

----------------------------------------------------------------------------
(* What writes one group: its record gr, its consumers' counts con, its    *)
(* pending list pl and what it has yet to be given, d.                     *)

Held(pl) == {i \in Ids : pl[i] # Absent}
HeldBy(pl, c) == {i \in Held(pl) : pl[i].owner = c}
Joiners(con) == {c \in Consumers : con[c] # Absent}
Tallies == [Consumers -> Nat \cup {Absent}]
Lists == [Ids -> PelEntries \cup {Absent}]

OwnersIn(con, pl) == \A c \in Consumers : HeldBy(pl, c) # {} => con[c] # Absent

CountsOf(gr, con, pl) ==
    /\ gr.pending = Cardinality(Held(pl))
    /\ gr.consumers = Cardinality(Joiners(con))
    /\ \A c \in Consumers : con[c] # Absent => con[c] = Cardinality(HeldBy(pl, c))

RestOf(gr) == {i \in rows : i > gr.delivered}
PlaceOf(gr, d) == meta # Absent /\ gr.delivered <= meta.last /\ d = RestOf(gr)
LagOf(gr) == meta # Absent /\ gr.read + Cardinality(RestOf(gr)) <= meta.added

Writes(g, gr, con, pl, d) ==
    /\ group' = [group EXCEPT ![g] = gr]
    /\ consumer' = [consumer EXCEPT ![g] = con]
    /\ pel' = [pel EXCEPT ![g] = pl]
    /\ due' = [due EXCEPT ![g] = d]

LEMMA HeldIs ==
    ASSUME StreamAssumption, NEW pl \in Lists
    PROVE  /\ Held(pl) \in SUBSET Ids
           /\ \A c \in Consumers : HeldBy(pl, c) \in SUBSET Held(pl) /\ HeldBy(pl, c) \in SUBSET Ids
           /\ \A i \in Held(pl) : pl[i] \in PelEntries /\ pl[i].owner \in Consumers
                                  /\ i \in HeldBy(pl, pl[i].owner)
BY DEF Lists, Held, HeldBy, PelEntries

LEMMA GroupAt ==
    ASSUME StreamAssumption, Typed, NEW g \in Groups
    PROVE  /\ Pending(g) = Held(pel[g]) /\ \A c \in Consumers : Owned(g, c) = HeldBy(pel[g], c)
           /\ consumer[g] \in Tallies /\ pel[g] \in Lists /\ due[g] \in SUBSET Ids
           /\ Owning(g) <=> /\ OwnersIn(consumer[g], pel[g])
                            /\ group[g] = Absent => Joiners(consumer[g]) = {} /\ Held(pel[g]) = {}
           /\ group[g] # Absent =>
                 /\ group[g] \in GroupMetas
                 /\ Counting(g) <=> CountsOf(group[g], consumer[g], pel[g])
                 /\ Giving(g) <=> PlaceOf(group[g], due[g])
                 /\ Lagging(g) <=> LagOf(group[g])
<1>1. /\ Pending(g) = Held(pel[g]) /\ \A c \in Consumers : Owned(g, c) = HeldBy(pel[g], c)
  BY DEF Pending, Owned, Held, HeldBy
<1>2. consumer[g] \in Tallies /\ pel[g] \in Lists /\ due[g] \in SUBSET Ids
  BY DEF Typed, TypeOK, Tallies, Lists
<1>3. Owning(g) <=> /\ OwnersIn(consumer[g], pel[g])
                    /\ group[g] = Absent => Joiners(consumer[g]) = {} /\ Held(pel[g]) = {}
  <2>1. (\A i \in Held(pel[g]) : consumer[g][pel[g][i].owner] # Absent)
           <=> OwnersIn(consumer[g], pel[g])
    BY <1>2, HeldIs DEF OwnersIn, HeldBy
  <2>2. (\A c \in Consumers : consumer[g][c] = Absent) <=> Joiners(consumer[g]) = {}
    BY DEF Joiners
  <2>. QED
    BY <1>1, <2>1, <2>2 DEF Owning
<1>4. ASSUME group[g] # Absent
      PROVE  /\ group[g] \in GroupMetas
             /\ Counting(g) <=> CountsOf(group[g], consumer[g], pel[g])
             /\ Giving(g) <=> PlaceOf(group[g], due[g])
             /\ Lagging(g) <=> LagOf(group[g])
  BY <1>1, <1>4, TypesAt DEF Counting, CountsOf, Joiners, Giving, PlaceOf, Lagging, LagOf, Rest, RestOf
<1>. QED
  BY <1>1, <1>2, <1>3, <1>4

\* All four written, the rest of the group's values follow.
LEMMA Written ==
    ASSUME StreamAssumption, Typed, NEW g \in Groups, NEW gr \in GroupMetas \cup {Absent},
           NEW con \in Tallies, NEW pl \in Lists, NEW d \in SUBSET Ids, Writes(g, gr, con, pl, d),
           now' \in 1 .. MaxNow, meta' \in Metas \cup {Absent}, UNCHANGED rows
    PROVE  /\ Typed'
           /\ \A h \in Groups : h # g =>
                 /\ Owning(h)' <=> Owning(h)
                 /\ Counting(h)' <=> Counting(h)
                 /\ group'[h] = group[h] /\ due'[h] = due[h] /\ Rest(h)' = Rest(h)
           /\ group'[g] = gr /\ due'[g] = d /\ Rest(g)' = {i \in rows : i > gr.delivered}
           /\ Owning(g)' <=> /\ OwnersIn(con, pl)
                             /\ gr = Absent => Joiners(con) = {} /\ Held(pl) = {}
           /\ Counting(g)' <=> (gr # Absent => CountsOf(gr, con, pl))
<1>1. \A h \in Groups : h # g => /\ group'[h] = group[h] /\ consumer'[h] = consumer[h]
                                 /\ pel'[h] = pel[h] /\ due'[h] = due[h]
  BY DEF Writes, Typed, TypeOK
<1>2. group'[g] = gr /\ consumer'[g] = con /\ pel'[g] = pl /\ due'[g] = d
  BY DEF Writes, Typed, TypeOK
<1>3. Typed'
  <2>1. /\ group' \in [Groups -> GroupMetas \cup {Absent}] /\ consumer' \in [Groups -> Tallies]
        /\ pel' \in [Groups -> Lists] /\ due' \in [Groups -> SUBSET Ids]
    BY DEF Writes, Typed, TypeOK, Tallies, Lists
  <2>. QED
    BY <2>1 DEF Typed, TypeOK, Tallies, Lists
<1>4. \A h \in Groups : h # g => /\ Pending(h)' = Pending(h)
                                 /\ \A c \in Consumers : Owned(h, c)' = Owned(h, c)
  BY <1>1 DEF Pending, Owned
<1>5. \A h \in Groups : h # g => /\ Owning(h)' <=> Owning(h)
                                 /\ Counting(h)' <=> Counting(h)
                                 /\ Rest(h)' = Rest(h)
  BY <1>1, <1>4 DEF Owning, Counting, Rest
<1>6. Pending(g)' = Held(pl) /\ \A c \in Consumers : Owned(g, c)' = HeldBy(pl, c)
  BY <1>2 DEF Pending, Owned, Held, HeldBy
<1>7. Owning(g)' <=> /\ OwnersIn(con, pl)
                     /\ gr = Absent => Joiners(con) = {} /\ Held(pl) = {}
  <2>1. (\A i \in Held(pl) : con[pl[i].owner] # Absent) <=> OwnersIn(con, pl)
    BY HeldIs DEF OwnersIn, HeldBy
  <2>2. (\A c \in Consumers : con[c] = Absent) <=> Joiners(con) = {}
    BY DEF Joiners
  <2>. QED
    BY <1>2, <1>6, <2>1, <2>2 DEF Owning
<1>8. Counting(g)' <=> (gr # Absent => CountsOf(gr, con, pl))
  BY <1>2, <1>6 DEF Counting, CountsOf, Joiners
<1>9. Rest(g)' = {i \in rows : i > gr.delivered}
  BY <1>2 DEF Rest
<1>. QED
  BY <1>1, <1>2, <1>3, <1>5, <1>7, <1>8, <1>9

\* The invariant after a step that writes one group that is there, and stays.
LEMMA GroupKeeps ==
    ASSUME StreamAssumption, Inv, NEW g \in Groups, group[g] # Absent,
           NEW gr \in GroupMetas, NEW con \in Tallies, NEW pl \in Lists, NEW d \in SUBSET Ids,
           Writes(g, gr, con, pl, d), UNCHANGED <<now, meta, rows>>, noted \subseteq noted',
           "residue" \in noted' => "residue" \in noted,
           OwnersIn(con, pl),
           noted' \cap Miscounts = {} => CountsOf(gr, con, pl),
           noted' \cap Misplaced = {} => PlaceOf(gr, d),
           noted' \cap Unread = {} => LagOf(gr)
    PROVE  Inv'
<1>0. gr # Absent /\ Typed /\ now \in 1 .. MaxNow /\ meta \in Metas \cup {Absent}
  BY TypesAt DEF Inv
<1>1. /\ Typed'
      /\ \A h \in Groups : h # g =>
            /\ Owning(h)' <=> Owning(h)
            /\ Counting(h)' <=> Counting(h)
            /\ group'[h] = group[h] /\ due'[h] = due[h] /\ Rest(h)' = Rest(h)
      /\ group'[g] = gr /\ due'[g] = d /\ Rest(g)' = {i \in rows : i > gr.delivered}
      /\ Owning(g)' <=> /\ OwnersIn(con, pl)
                        /\ gr = Absent => Joiners(con) = {} /\ Held(pl) = {}
      /\ Counting(g)' <=> (gr # Absent => CountsOf(gr, con, pl))
  BY <1>0, Written
<1>2. RecordInv'
  <2>1. Present' = Present
    BY <1>0, <1>1 DEF Present
  <2>. QED
    BY <2>1 DEF Inv, RecordInv
<1>3. OwnInv'
  BY <1>0, <1>1 DEF Inv, OwnInv
<1>4. CountInv'
  BY <1>0, <1>1 DEF Inv, CountInv
<1>5. GiveInv'
  <2>. SUFFICES ASSUME noted' \cap Misplaced = {}, NEW h \in Groups PROVE Giving(h)'
    BY DEF GiveInv
  <2>1. CASE h = g
    BY <1>1, <2>1 DEF PlaceOf, RestOf, Giving
  <2>2. CASE h # g
    <3>1. Giving(h)
      BY DEF Inv, GiveInv
    <3>. QED
      BY <1>1, <2>2, <3>1 DEF Giving
  <2>. QED
    BY <2>1, <2>2
<1>6. LagInv'
  <2>. SUFFICES ASSUME noted' \cap Unread = {}, NEW h \in Groups PROVE Lagging(h)'
    BY DEF LagInv
  <2>1. CASE h = g
    BY <1>1, <2>1 DEF LagOf, RestOf, Lagging
  <2>2. CASE h # g
    <3>1. Lagging(h)
      BY DEF Inv, LagInv
    <3>. QED
      BY <1>1, <2>2, <3>1 DEF Lagging
  <2>. QED
    BY <2>1, <2>2
<1>. QED
  BY <1>1, <1>2, <1>3, <1>4, <1>5, <1>6 DEF Inv

\* What the invariant says of a group, in those values.
LEMMA InvAt ==
    ASSUME StreamAssumption, Inv, NEW g \in Groups, group[g] # Absent
    PROVE  /\ group[g] \in GroupMetas /\ consumer[g] \in Tallies /\ pel[g] \in Lists
           /\ due[g] \in SUBSET Ids /\ OwnersIn(consumer[g], pel[g])
           /\ noted \cap Miscounts = {} => CountsOf(group[g], consumer[g], pel[g])
           /\ noted \cap Misplaced = {} => PlaceOf(group[g], due[g])
           /\ noted \cap Unread = {} => LagOf(group[g])
BY GroupAt DEF Inv, OwnInv, CountInv, GiveInv, LagInv

\* ... when it also stays where it is in the stream.
LEMMA StayKeeps ==
    ASSUME StreamAssumption, Inv, NEW g \in Groups, group[g] # Absent,
           NEW gr \in GroupMetas, NEW con \in Tallies, NEW pl \in Lists,
           Writes(g, gr, con, pl, due[g]), UNCHANGED <<now, meta, rows>>, noted \subseteq noted',
           "residue" \in noted' => "residue" \in noted,
           gr.delivered = group[g].delivered, gr.read = group[g].read,
           OwnersIn(con, pl),
           noted' \cap Miscounts = {} => CountsOf(gr, con, pl)
    PROVE  Inv'
<1>1. due[g] \in SUBSET Ids
  BY InvAt
<1>2. noted' \cap Misplaced = {} => PlaceOf(gr, due[g])
  BY InvAt DEF PlaceOf, RestOf
<1>3. noted' \cap Unread = {} => LagOf(gr)
  BY InvAt DEF LagOf, RestOf
<1>. QED
  BY <1>1, <1>2, <1>3, GroupKeeps

----------------------------------------------------------------------------
(* Pending lists and counts.                                               *)

\* Entries S pass to c.
Passed(pl, S, c, at) == [i \in Ids |-> IF i \in S THEN [owner |-> c, time |-> at] ELSE pl[i]]
\* Entries S are dropped.
Dropped(pl, S) == [i \in Ids |-> IF i \in S THEN Absent ELSE pl[i]]

\* The list q is pl after entries S passed to c.
PassedTo(pl, S, c, q) ==
    /\ q \in Lists
    /\ Held(q) = Held(pl) \cup S
    /\ HeldBy(q, c) = HeldBy(pl, c) \cup S
    /\ \A o \in Consumers : o # c => HeldBy(q, o) = HeldBy(pl, o) \ S

LEMMA PassedIs ==
    ASSUME StreamAssumption, NEW pl \in Lists, NEW S \in SUBSET Ids, NEW c \in Consumers,
           NEW at \in 0 .. MaxNow
    PROVE  PassedTo(pl, S, c, Passed(pl, S, c, at))
<1>. DEFINE q == Passed(pl, S, c, at)
            e == [owner |-> c, time |-> at]
<1>1. e \in PelEntries /\ e.owner = c /\ e # Absent
  BY DEF PelEntries, StreamAssumption
<1>. HIDE DEF e
<1>2. q = [i \in Ids |-> IF i \in S THEN e ELSE pl[i]]
  BY DEF Passed, e
<1>. HIDE DEF q
<1>3. q \in Lists /\ \A i \in Ids : q[i] = IF i \in S THEN e ELSE pl[i]
  BY <1>1, <1>2 DEF Lists
<1>4. Held(q) = Held(pl) \cup S
  BY <1>1, <1>3 DEF Held
<1>5. \A o \in Consumers, i \in Ids :
         i \in HeldBy(q, o) <=> IF i \in S THEN o = c ELSE i \in HeldBy(pl, o)
  BY <1>1, <1>3, <1>4 DEF HeldBy, Held
<1>6. \A o \in Consumers : HeldBy(q, o) \subseteq Ids /\ HeldBy(pl, o) \subseteq Ids
  BY DEF HeldBy, Held
<1>7. HeldBy(q, c) = HeldBy(pl, c) \cup S
  BY <1>5, <1>6
<1>8. \A o \in Consumers : o # c => HeldBy(q, o) = HeldBy(pl, o) \ S
  BY <1>5, <1>6
<1>. QED
  BY <1>3, <1>4, <1>7, <1>8 DEF q, PassedTo

LEMMA DroppedIs ==
    ASSUME StreamAssumption, NEW pl \in Lists, NEW S \in SUBSET Ids
    PROVE  /\ Dropped(pl, S) \in Lists
           /\ Held(Dropped(pl, S)) = Held(pl) \ S
           /\ \A o \in Consumers : HeldBy(Dropped(pl, S), o) = HeldBy(pl, o) \ S
<1>. DEFINE q == Dropped(pl, S)
<1>3. q \in Lists /\ \A i \in Ids : q[i] = IF i \in S THEN Absent ELSE pl[i]
  BY DEF Lists, Dropped
<1>. HIDE DEF q
<1>4. Held(q) = Held(pl) \ S
  BY <1>3 DEF Held
<1>5. \A o \in Consumers : HeldBy(q, o) = HeldBy(pl, o) \ S
  BY <1>3, <1>4 DEF HeldBy, Held
<1>. QED
  BY <1>3, <1>4, <1>5 DEF q

LEMMA TallyIs ==
    ASSUME StreamAssumption, NEW con \in Tallies
    PROVE  /\ IsFiniteSet(Joiners(con)) /\ Cardinality(Joiners(con)) \in Nat
           /\ \A c \in Consumers : con[c] # Absent => con[c] \in Nat
<1>1. IsFiniteSet(Consumers) /\ Joiners(con) \in SUBSET Consumers
  BY DEF StreamAssumption, Joiners
<1>. QED
  BY <1>1, FS_Subset, FS_CardinalityType DEF Tallies

\* A consumer that has a record now and the others as they were.
LEMMA JoinedTally ==
    ASSUME StreamAssumption, NEW con \in Tallies, NEW new \in Tallies, NEW c \in Consumers,
           new[c] # Absent, \A o \in Consumers \ {c} : new[o] = Absent <=> con[o] = Absent
    PROVE  Cardinality(Joiners(new))
              = Cardinality(Joiners(con)) + (IF con[c] = Absent THEN 1 ELSE 0)
<1>1. Joiners(new) = Joiners(con) \cup {c} /\ (c \in Joiners(con) <=> con[c] # Absent)
  BY DEF Joiners
<1>2. Cardinality(Joiners(con) \cup {c})
         = IF c \in Joiners(con) THEN Cardinality(Joiners(con)) ELSE Cardinality(Joiners(con)) + 1
  BY TallyIs, FS_AddElement
<1>. QED
  BY <1>1, <1>2, TallyIs

LEMMA DisjointUnion ==
    ASSUME StreamAssumption, NEW S \in SUBSET Ids, NEW T \in SUBSET Ids, S \cap T = {}
    PROVE  Cardinality(S \cup T) = Cardinality(S) + Cardinality(T)
<1>1. Cardinality(S \cap T) = 0
  BY FS_EmptySet
<1>. QED
  BY <1>1, IdSet, FS_Union

----------------------------------------------------------------------------
(* The commands of groups and consumers.                                   *)

LEMMA WritesSome ==
    ASSUME Typed, NEW g \in Groups
    PROVE  /\ group = [group EXCEPT ![g] = group[g]]
           /\ consumer = [consumer EXCEPT ![g] = consumer[g]]
           /\ pel = [pel EXCEPT ![g] = pel[g]]
           /\ due = [due EXCEPT ![g] = due[g]]
BY DEF Typed, TypeOK

Places == Positions \cup {IF Live THEN meta.top ELSE 0}

LEMMA PlacesIn ==
    ASSUME StreamAssumption, Typed, NEW at \in Places
    PROVE  at \in Ids
BY TypesAt, IdsAre DEF Places, StreamAssumption, Metas

LEMMA XGroupSetIdKeeps ==
    ASSUME StreamAssumption, Inv, NEW g \in Groups, NEW at \in Places, XGroupSetId(g, at, Absent)
    PROVE  Inv'
<1>. DEFINE gr == [group[g] EXCEPT !.delivered = at]
            d == {i \in rows : i > at}
<1>0. Typed /\ Live /\ group[g] # Absent /\ meta # Absent /\ at \in Ids
  BY TypesAt, PlacesIn DEF Inv, XGroupSetId
<1>1. /\ group[g] \in GroupMetas /\ consumer[g] \in Tallies /\ pel[g] \in Lists
      /\ OwnersIn(consumer[g], pel[g])
      /\ noted \cap Miscounts = {} => CountsOf(group[g], consumer[g], pel[g])
  BY <1>0, InvAt
<1>2. /\ group' = [group EXCEPT ![g] = [group[g] EXCEPT !.delivered = at, !.read = @]]
      /\ due' = [due EXCEPT ![g] = d]
      /\ noted' = noted \cup {"set"} \cup Ahead(at)
      /\ UNCHANGED <<now, meta, rows, consumer, pel>>
  BY DEF XGroupSetId
<1>3. /\ gr \in GroupMetas /\ gr.delivered = at /\ gr.pending = group[g].pending
      /\ gr.consumers = group[g].consumers
      /\ gr = [group[g] EXCEPT !.delivered = at, !.read = @]
  BY <1>0, <1>1 DEF GroupMetas
<1>4. Writes(g, gr, consumer[g], pel[g], d)
  BY <1>0, <1>2, <1>3, WritesSome DEF Writes
<1>5. d = RestOf(gr)
  BY <1>3 DEF RestOf
<1>6. d \in SUBSET Ids
  BY <1>0, TypesAt
<1>. HIDE DEF gr, d
<1>7. noted' \cap Miscounts = {} => CountsOf(gr, consumer[g], pel[g])
  BY <1>1, <1>2, <1>3 DEF CountsOf
<1>8. noted' \cap Misplaced = {} => PlaceOf(gr, d)
  BY <1>0, <1>2, <1>3, <1>5 DEF PlaceOf, Misplaced, Ahead
<1>9. noted' \cap Unread # {}
  BY <1>2 DEF Unread
<1>10. noted \subseteq noted' /\ ("residue" \in noted' => "residue" \in noted)
  BY <1>2 DEF Ahead
<1>. QED
  BY <1>0, <1>1, <1>2, <1>3, <1>4, <1>6, <1>7, <1>8, <1>9, <1>10, GroupKeeps

LEMMA XGroupCreateConsumerKeeps ==
    ASSUME StreamAssumption, Inv, NEW g \in Groups, NEW c \in Consumers, XGroupCreateConsumer(g, c)
    PROVE  Inv'
<1>. DEFINE more == group[g].consumers + 1
            gr == [group[g] EXCEPT !.consumers = more]
            con == [consumer[g] EXCEPT ![c] = 0]
<1>0. Typed /\ group[g] # Absent /\ consumer[g][c] = Absent
  BY DEF Inv, XGroupCreateConsumer
<1>1. /\ group[g] \in GroupMetas /\ consumer[g] \in Tallies /\ pel[g] \in Lists
      /\ OwnersIn(consumer[g], pel[g])
      /\ noted \cap Miscounts = {} => CountsOf(group[g], consumer[g], pel[g])
  BY <1>0, InvAt
<1>2. /\ group' = [group EXCEPT ![g] = gr] /\ consumer' = [consumer EXCEPT ![g] = con]
      /\ UNCHANGED <<now, meta, rows, pel, due, noted>>
  BY DEF XGroupCreateConsumer
<1>3. more \in Nat
  BY <1>1 DEF GroupMetas
<1>4. /\ gr \in GroupMetas /\ gr.delivered = group[g].delivered /\ gr.read = group[g].read
      /\ gr.pending = group[g].pending /\ gr.consumers = more
  <2>. HIDE DEF more
  <2>. QED
    BY <1>1, <1>3 DEF GroupMetas
<1>5. /\ con \in Tallies /\ con[c] = 0 /\ con[c] # Absent
      /\ \A o \in Consumers \ {c} : con[o] = consumer[g][o]
  BY <1>1 DEF Tallies, StreamAssumption
<1>6. Writes(g, gr, con, pel[g], due[g])
  BY <1>0, <1>2, WritesSome DEF Writes
<1>. HIDE DEF gr, con
<1>7. HeldBy(pel[g], c) = {}
  BY <1>0, <1>1 DEF OwnersIn
<1>8. OwnersIn(con, pel[g])
  BY <1>1, <1>5 DEF OwnersIn
<1>9. ASSUME noted \cap Miscounts = {} PROVE CountsOf(gr, con, pel[g])
  <2>1. CountsOf(group[g], consumer[g], pel[g])
    BY <1>1, <1>9
  <2>2. Cardinality(Joiners(con)) = Cardinality(Joiners(consumer[g])) + 1
    BY <1>0, <1>1, <1>5, JoinedTally
  <2>3. gr.consumers = Cardinality(Joiners(con))
    BY <1>4, <2>1, <2>2 DEF CountsOf
  <2>4. \A o \in Consumers : con[o] # Absent => con[o] = Cardinality(HeldBy(pel[g], o))
    BY <1>5, <1>7, <2>1, FS_EmptySet DEF CountsOf
  <2>. QED
    BY <1>4, <2>1, <2>3, <2>4 DEF CountsOf
<1>. QED
  BY <1>0, <1>1, <1>2, <1>4, <1>5, <1>6, <1>8, <1>9, StayKeeps

LEMMA XGroupDelConsumerKeeps ==
    ASSUME StreamAssumption, Inv, NEW g \in Groups, NEW c \in Consumers, XGroupDelConsumer(g, c)
    PROVE  Inv'
<1>. DEFINE own == HeldBy(pel[g], c)
            fewer == Less(group[g].consumers, 1)
            rest == Less(group[g].pending, consumer[g][c])
            gr == [group[g] EXCEPT !.consumers = fewer, !.pending = rest]
            con == [consumer[g] EXCEPT ![c] = Absent]
            pl == Dropped(pel[g], own)
<1>0. Typed /\ group[g] # Absent /\ consumer[g][c] # Absent
  BY DEF Inv, XGroupDelConsumer
<1>1. /\ group[g] \in GroupMetas /\ consumer[g] \in Tallies /\ pel[g] \in Lists
      /\ OwnersIn(consumer[g], pel[g])
      /\ noted \cap Miscounts = {} => CountsOf(group[g], consumer[g], pel[g])
  BY <1>0, InvAt
<1>2. Owned(g, c) = own
  BY <1>0, GroupAt
<1>3. /\ group' = [group EXCEPT ![g] = gr] /\ consumer' = [consumer EXCEPT ![g] = con]
      /\ pel' = [pel EXCEPT ![g] = pl]
      /\ UNCHANGED <<now, meta, rows, due, noted>>
  BY <1>2 DEF XGroupDelConsumer, Dropped
<1>4. fewer \in Nat /\ rest \in Nat
  BY <1>0, <1>1, LessIs, TallyIs DEF GroupMetas
<1>5. /\ gr \in GroupMetas /\ gr.delivered = group[g].delivered /\ gr.read = group[g].read
      /\ gr.pending = rest /\ gr.consumers = fewer
  <2>. HIDE DEF fewer, rest
  <2>. QED
    BY <1>1, <1>4 DEF GroupMetas
<1>6. /\ con \in Tallies /\ con[c] = Absent /\ \A o \in Consumers \ {c} : con[o] = consumer[g][o]
  BY <1>1 DEF Tallies
<1>7. Writes(g, gr, con, pl, due[g])
  BY <1>0, <1>3, WritesSome DEF Writes
<1>8. /\ own \in SUBSET Held(pel[g]) /\ own \in SUBSET Ids /\ Held(pel[g]) \in SUBSET Ids
      /\ \A i \in Held(pel[g]) : pel[g][i].owner \in Consumers
  BY <1>1, HeldIs
<1>9. /\ pl \in Lists /\ Held(pl) = Held(pel[g]) \ own
      /\ \A o \in Consumers : HeldBy(pl, o) = HeldBy(pel[g], o) \ own
  BY <1>1, <1>8, DroppedIs
<1>10. \A o \in Consumers : HeldBy(pl, o) = IF o = c THEN {} ELSE HeldBy(pel[g], o)
  <2>1. \A o \in Consumers : o # c => HeldBy(pel[g], o) \cap own = {}
    BY DEF HeldBy
  <2>. HIDE DEF pl
  <2>2. HeldBy(pl, c) = {}
    BY <1>9
  <2>3. \A o \in Consumers : o # c => HeldBy(pl, o) = HeldBy(pel[g], o)
    BY <1>9, <2>1
  <2>. QED
    BY <2>2, <2>3
<1>. HIDE DEF gr, con, pl
<1>11. OwnersIn(con, pl)
  BY <1>1, <1>6, <1>10 DEF OwnersIn
<1>12. ASSUME noted \cap Miscounts = {} PROVE CountsOf(gr, con, pl)
  <2>1. CountsOf(group[g], consumer[g], pel[g])
    BY <1>1, <1>12
  <2>2. Cardinality(Joiners(consumer[g])) = Cardinality(Joiners(con)) + 1
    <3>1. \A o \in Consumers \ {c} : consumer[g][o] = Absent <=> con[o] = Absent
      BY <1>6
    <3>. QED
      BY <1>0, <1>1, <1>6, <3>1, JoinedTally
  <2>3. gr.consumers = Cardinality(Joiners(con))
    <3>1. group[g].consumers = Cardinality(Joiners(con)) + 1 /\ Cardinality(Joiners(con)) \in Nat
      BY <1>6, <2>1, <2>2, TallyIs DEF CountsOf
    <3>. QED
      BY <1>5, <3>1 DEF Less
  <2>4. gr.pending = Cardinality(Held(pl))
    <3>1. group[g].pending = Cardinality(Held(pel[g])) /\ consumer[g][c] = Cardinality(own)
      BY <1>0, <2>1 DEF CountsOf
    <3>2. /\ Cardinality(Held(pl)) = Cardinality(Held(pel[g])) - Cardinality(own)
          /\ Cardinality(own) <= Cardinality(Held(pel[g]))
          /\ Cardinality(own) \in Nat /\ Cardinality(Held(pel[g])) \in Nat
      BY <1>8, <1>9, SetMinus, IdSet
    <3>. QED
      BY <1>5, <3>1, <3>2 DEF Less
  <2>5. \A o \in Consumers : con[o] # Absent => con[o] = Cardinality(HeldBy(pl, o))
    BY <1>6, <1>10, <2>1 DEF CountsOf
  <2>. QED
    BY <2>3, <2>4, <2>5 DEF CountsOf
<1>. QED
  BY <1>0, <1>1, <1>3, <1>5, <1>6, <1>7, <1>9, <1>11, <1>12, StayKeeps

LEMMA XAckKeeps ==
    ASSUME StreamAssumption, Inv, NEW g \in Groups, NEW ids \in SUBSET Pending(g), XAck(g, ids)
    PROVE  Inv'
<1>. DEFINE acked == ids \cap Held(pel[g])
            mine(o) == acked \cap HeldBy(pel[g], o)
            rest == Less(group[g].pending, Cardinality(acked))
            gr == [group[g] EXCEPT !.pending = rest]
            con == [o \in Consumers |-> IF consumer[g][o] = Absent THEN Absent
                                        ELSE Less(consumer[g][o], Cardinality(mine(o)))]
            pl == Dropped(pel[g], acked)
<1>0. Typed /\ group[g] # Absent
  BY DEF Inv, XAck
<1>1. /\ group[g] \in GroupMetas /\ consumer[g] \in Tallies /\ pel[g] \in Lists
      /\ OwnersIn(consumer[g], pel[g])
      /\ noted \cap Miscounts = {} => CountsOf(group[g], consumer[g], pel[g])
  BY <1>0, InvAt
<1>2. Pending(g) = Held(pel[g]) /\ \A o \in Consumers : Owned(g, o) = HeldBy(pel[g], o)
  BY <1>0, GroupAt
<1>3. /\ group' = [group EXCEPT ![g] = gr]
      /\ consumer' = [consumer EXCEPT ![g] = con]
      /\ pel' = [pel EXCEPT ![g] = pl]
      /\ UNCHANGED <<now, meta, rows, due, noted>>
  <2>1. con = [o \in Consumers |-> IF consumer[g][o] = Absent THEN Absent
                  ELSE Less(consumer[g][o], Cardinality(acked \cap Owned(g, o)))]
    BY <1>2
  <2>. HIDE DEF con
  <2>. QED
    BY <1>2, <2>1 DEF XAck, Dropped
<1>4. /\ acked \in SUBSET Held(pel[g]) /\ acked \in SUBSET Ids /\ Held(pel[g]) \in SUBSET Ids
      /\ \A o \in Consumers : mine(o) \in SUBSET HeldBy(pel[g], o) /\ mine(o) \in SUBSET Ids
                              /\ HeldBy(pel[g], o) \in SUBSET Ids
  BY <1>1, HeldIs
<1>5. /\ Cardinality(acked) \in Nat /\ Cardinality(acked) <= Cardinality(Held(pel[g]))
      /\ Cardinality(Held(pel[g])) \in Nat
      /\ \A o \in Consumers : /\ Cardinality(mine(o)) \in Nat
                              /\ Cardinality(HeldBy(pel[g], o)) \in Nat
                              /\ Cardinality(mine(o)) <= Cardinality(HeldBy(pel[g], o))
  <2>1. ASSUME NEW o \in Consumers
        PROVE  /\ Cardinality(mine(o)) \in Nat
               /\ Cardinality(HeldBy(pel[g], o)) \in Nat
               /\ Cardinality(mine(o)) <= Cardinality(HeldBy(pel[g], o))
    <3>1. mine(o) \in SUBSET HeldBy(pel[g], o) /\ HeldBy(pel[g], o) \in SUBSET Ids
      BY <1>4
    <3>. HIDE DEF mine
    <3>. QED
      BY <3>1, IdSet
  <2>. QED
    BY <1>4, <2>1, IdSet
<1>6. rest \in Nat
  BY <1>1, <1>5, LessIs DEF GroupMetas
<1>7. /\ gr \in GroupMetas /\ gr.delivered = group[g].delivered /\ gr.read = group[g].read
      /\ gr.pending = rest /\ gr.consumers = group[g].consumers
  <2>. HIDE DEF rest
  <2>. QED
    BY <1>1, <1>6 DEF GroupMetas
<1>8. /\ con \in Tallies
      /\ \A o \in Consumers : con[o] = Absent <=> consumer[g][o] = Absent
      /\ \A o \in Consumers : con[o] # Absent => con[o] = Less(consumer[g][o], Cardinality(mine(o)))
  <2>1. ASSUME NEW o \in Consumers, consumer[g][o] # Absent
        PROVE  Less(consumer[g][o], Cardinality(mine(o))) \in Nat
    BY <1>1, <1>5, <2>1, LessIs, TallyIs
  <2>2. Absent \notin Nat
    BY <1>0, TypesAt
  <2>. HIDE DEF mine
  <2>. QED
    BY <2>1, <2>2 DEF Tallies
<1>9. Writes(g, gr, con, pl, due[g])
  BY <1>0, <1>3, WritesSome DEF Writes
<1>10. /\ pl \in Lists /\ Held(pl) = Held(pel[g]) \ acked
       /\ \A o \in Consumers : HeldBy(pl, o) = HeldBy(pel[g], o) \ acked
  BY <1>1, <1>4, DroppedIs
<1>. HIDE DEF gr, con, pl
<1>11. OwnersIn(con, pl)
  BY <1>1, <1>8, <1>10 DEF OwnersIn
<1>12. ASSUME noted \cap Miscounts = {} PROVE CountsOf(gr, con, pl)
  <2>1. CountsOf(group[g], consumer[g], pel[g])
    BY <1>1, <1>12
  <2>2. gr.pending = Cardinality(Held(pl))
    <3>1. group[g].pending = Cardinality(Held(pel[g]))
      BY <2>1 DEF CountsOf
    <3>2. Cardinality(Held(pl)) = Cardinality(Held(pel[g])) - Cardinality(acked)
      BY <1>4, <1>10, SetMinus
    <3>. QED
      BY <1>5, <1>7, <3>1, <3>2 DEF Less
  <2>3. gr.consumers = Cardinality(Joiners(con))
    BY <1>7, <1>8, <2>1 DEF CountsOf, Joiners
  <2>4. ASSUME NEW o \in Consumers, con[o] # Absent PROVE con[o] = Cardinality(HeldBy(pl, o))
    <3>1. HeldBy(pl, o) = HeldBy(pel[g], o) \ mine(o)
      BY <1>10
    <3>2. Cardinality(HeldBy(pl, o)) = Cardinality(HeldBy(pel[g], o)) - Cardinality(mine(o))
      <4>1. mine(o) \in SUBSET HeldBy(pel[g], o) /\ HeldBy(pel[g], o) \in SUBSET Ids
        BY <1>4
      <4>. HIDE DEF mine
      <4>. QED
        BY <3>1, <4>1, SetMinus
    <3>3. consumer[g][o] = Cardinality(HeldBy(pel[g], o))
      BY <1>8, <2>1, <2>4 DEF CountsOf
    <3>. QED
      BY <1>5, <1>8, <2>4, <3>2, <3>3 DEF Less
  <2>. QED
    BY <2>2, <2>3, <2>4 DEF CountsOf
<1>. QED
  BY <1>0, <1>1, <1>3, <1>7, <1>8, <1>9, <1>10, <1>11, <1>12, StayKeeps

LEMMA JoinedIs ==
    ASSUME StreamAssumption, Inv, NEW g \in Groups, group[g] # Absent, NEW c \in Consumers
    PROVE  /\ Joined(g, c) \in GroupMetas
           /\ Joined(g, c).consumers
                 = group[g].consumers + (IF consumer[g][c] = Absent THEN 1 ELSE 0)
           /\ Joined(g, c).pending = group[g].pending /\ Joined(g, c).read = group[g].read
           /\ Joined(g, c).delivered = group[g].delivered
           /\ PendingOf(g, c) \in Nat
           /\ PendingOf(g, c) = IF consumer[g][c] = Absent THEN 0 ELSE consumer[g][c]
<1>. DEFINE n == group[g].consumers + (IF consumer[g][c] = Absent THEN 1 ELSE 0)
<1>1. group[g] \in GroupMetas /\ consumer[g] \in Tallies
  BY InvAt
<1>2. n \in Nat
  BY <1>1 DEF GroupMetas
<1>3. Joined(g, c) = [group[g] EXCEPT !.consumers = n]
  BY DEF Joined
<1>4. PendingOf(g, c) \in Nat
  BY <1>1, TallyIs DEF PendingOf
<1>. HIDE DEF n
<1>5. /\ Joined(g, c) \in GroupMetas /\ Joined(g, c).consumers = n
      /\ Joined(g, c).pending = group[g].pending /\ Joined(g, c).read = group[g].read
      /\ Joined(g, c).delivered = group[g].delivered
  BY <1>1, <1>2, <1>3 DEF GroupMetas
<1>. QED
  BY <1>4, <1>5 DEF n, PendingOf

\* The counts of a group that a consumer has joined: what it counts of itself
\* is what it owns, whether it had a record or not.
LEMMA JoinedCounts ==
    ASSUME StreamAssumption, Inv, NEW g \in Groups, group[g] # Absent, NEW c \in Consumers,
           CountsOf(group[g], consumer[g], pel[g])
    PROVE  PendingOf(g, c) = Cardinality(HeldBy(pel[g], c))
<1>1. consumer[g] \in Tallies /\ OwnersIn(consumer[g], pel[g])
  BY InvAt
<1>2. CASE consumer[g][c] = Absent
  <2>1. HeldBy(pel[g], c) = {}
    BY <1>1, <1>2 DEF OwnersIn
  <2>. QED
    BY <1>2, <2>1, FS_EmptySet DEF PendingOf
<1>3. CASE consumer[g][c] # Absent
  BY <1>3 DEF CountsOf, PendingOf
<1>. QED
  BY <1>2, <1>3

LEMMA ReadOwnKeeps ==
    ASSUME StreamAssumption, Inv, NEW g \in Groups, NEW c \in Consumers, NEW from, NEW count,
           ReadOwn(g, c, from, count)
    PROVE  Inv'
<1>. DEFINE S == FirstOf({i \in Owned(g, c) \cap rows : i >= from}, count)
            gr == Joined(g, c)
            con == [consumer[g] EXCEPT ![c] = PendingOf(g, c)]
            pl == Passed(pel[g], S, c, now)
<1>0. Typed /\ group[g] # Absent /\ now \in 0 .. MaxNow /\ Absent \notin Nat
  BY TypesAt DEF Inv, ReadOwn, StreamAssumption
<1>1. /\ group[g] \in GroupMetas /\ consumer[g] \in Tallies /\ pel[g] \in Lists
      /\ OwnersIn(consumer[g], pel[g])
      /\ noted \cap Miscounts = {} => CountsOf(group[g], consumer[g], pel[g])
  BY <1>0, InvAt
<1>2. Owned(g, c) = HeldBy(pel[g], c)
  BY <1>0, GroupAt
<1>3. /\ group' = [group EXCEPT ![g] = gr] /\ consumer' = [consumer EXCEPT ![g] = con]
      /\ pel' = [pel EXCEPT ![g] = pl]
      /\ UNCHANGED <<now, meta, rows, due, noted>>
  BY DEF ReadOwn, Deliver, Passed
<1>4. S \in SUBSET HeldBy(pel[g], c) /\ S \in SUBSET Ids
  BY <1>1, <1>2, HeldIs DEF FirstOf
<1>5. /\ gr \in GroupMetas /\ gr.delivered = group[g].delivered /\ gr.read = group[g].read
      /\ gr.pending = group[g].pending /\ PendingOf(g, c) \in Nat
      /\ gr.consumers = group[g].consumers + (IF consumer[g][c] = Absent THEN 1 ELSE 0)
  BY <1>0, JoinedIs
<1>6. /\ con \in Tallies /\ con[c] = PendingOf(g, c) /\ con[c] # Absent
      /\ \A o \in Consumers \ {c} : con[o] = consumer[g][o]
  BY <1>0, <1>1, <1>5 DEF Tallies
<1>7. Writes(g, gr, con, pl, due[g])
  BY <1>0, <1>3, WritesSome DEF Writes
<1>. HIDE DEF S
<1>8. /\ pl \in Lists /\ Held(pl) = Held(pel[g]) \cup S
      /\ HeldBy(pl, c) = HeldBy(pel[g], c) \cup S
      /\ \A o \in Consumers : o # c => HeldBy(pl, o) = HeldBy(pel[g], o) \ S
  <2>1. PassedTo(pel[g], S, c, pl)
    BY <1>0, <1>1, <1>4, PassedIs
  <2>. HIDE DEF pl
  <2>. QED
    BY <2>1 DEF PassedTo
<1>. HIDE DEF gr, con, pl
<1>9. /\ Held(pl) = Held(pel[g])
      /\ \A o \in Consumers : HeldBy(pl, o) = HeldBy(pel[g], o)
  <2>1. S \subseteq Held(pel[g]) /\ HeldBy(pel[g], c) \cup S = HeldBy(pel[g], c)
    BY <1>4 DEF HeldBy
  <2>2. \A o \in Consumers : o # c => HeldBy(pel[g], o) \ S = HeldBy(pel[g], o)
    BY <1>4 DEF HeldBy
  <2>. QED
    BY <1>8, <2>1, <2>2
<1>10. OwnersIn(con, pl)
  BY <1>1, <1>6, <1>9 DEF OwnersIn
<1>11. ASSUME noted \cap Miscounts = {} PROVE CountsOf(gr, con, pl)
  <2>1. CountsOf(group[g], consumer[g], pel[g])
    BY <1>1, <1>11
  <2>2. PendingOf(g, c) = Cardinality(HeldBy(pel[g], c))
    BY <1>0, <2>1, JoinedCounts
  <2>3. gr.consumers = Cardinality(Joiners(con))
    BY <1>1, <1>5, <1>6, <2>1, JoinedTally DEF CountsOf
  <2>4. \A o \in Consumers : con[o] # Absent => con[o] = Cardinality(HeldBy(pl, o))
    BY <1>6, <1>9, <2>1, <2>2 DEF CountsOf
  <2>. QED
    BY <1>5, <1>9, <2>1, <2>3, <2>4 DEF CountsOf
<1>. QED
  BY <1>0, <1>1, <1>3, <1>5, <1>6, <1>7, <1>8, <1>10, <1>11, StayKeeps

\* A reader of ">" is given the lower end of what lies after the last entry
\* given.
LEMMA RangedRest ==
    ASSUME StreamAssumption, Typed, Live, NEW g \in Groups, group[g] # Absent, NEW count \in Counts
    PROVE  LowerEnd(Ranged(group[g].delivered, Top, count, FALSE, TRUE, FALSE), RestOf(group[g]))
<1>. DEFINE start == group[g].delivered
            within == {i \in rows : start < i /\ i <= Top}
<1>1. rows \in SUBSET Ids /\ start \in Ids /\ count \in Nat /\ meta \in Metas
  BY TypesAt DEF StreamAssumption, GroupMetas
<1>2. within = RestOf(group[g])
  <2>1. \A i \in rows : i <= Top /\ i \in Nat /\ start \in Nat
    BY <1>1, IdsAre
  <2>. QED
    BY <2>1 DEF RestOf
<1>3. within \in SUBSET Ids
  BY <1>1
<1>4. Ranged(start, Top, count, FALSE, TRUE, FALSE) \in {{}, FirstOf(within, count)}
  <2>1. Ranged(start, Top, count, FALSE, TRUE, FALSE)
          = IF ~Live \/ count = 0 \/ Top < start THEN {}
            ELSE IF meta.size = 0 \/ start > meta.top \/ Top < meta.first THEN {}
            ELSE IF start = Top THEN {} ELSE FirstOf(within, count)
    BY DEF Ranged
  <2>. QED
    BY <2>1
<1>5. LowerEnd({}, within) /\ LowerEnd(FirstOf(within, count), within)
  <2>1. LowerEnd({}, within) /\ LowerEnd(within, within)
    BY DEF LowerEnd
  <2>. QED
    BY <1>1, <1>3, <2>1, LowerEndFirsts
<1>. QED
  BY <1>2, <1>4, <1>5

LEMMA ReadNewKeeps ==
    ASSUME StreamAssumption, Inv, NEW g \in Groups, NEW c \in Consumers, NEW count \in Counts,
           NEW noack \in BOOLEAN, ReadNew(g, c, count, noack)
    PROVE  Inv'
<1>. DEFINE S == Ranged(group[g].delivered, Top, count, FALSE, TRUE, FALSE)
            listed == IF noack THEN {} ELSE S
            n == Cardinality(listed)
            read == group[g].read + n
            pending == group[g].pending + n
            at == IF S = {} THEN group[g].delivered ELSE Highest(S)
            gr == [Joined(g, c) EXCEPT !.read = read, !.pending = pending, !.delivered = at]
            con == [consumer[g] EXCEPT ![c] = PendingOf(g, c) + n]
            pl == Passed(pel[g], listed, c, now)
            d == due[g] \ S
<1>0. /\ Typed /\ Live /\ group[g] # Absent /\ now \in 0 .. MaxNow /\ Absent \notin Nat
      /\ rows \in SUBSET Ids /\ meta \in Metas /\ meta # Absent
  BY TypesAt DEF Inv, ReadNew, StreamAssumption
<1>1. /\ group[g] \in GroupMetas /\ consumer[g] \in Tallies /\ pel[g] \in Lists
      /\ OwnersIn(consumer[g], pel[g]) /\ due[g] \in SUBSET Ids
      /\ noted \cap Miscounts = {} => CountsOf(group[g], consumer[g], pel[g])
      /\ noted \cap Misplaced = {} => PlaceOf(group[g], due[g])
      /\ noted \cap Unread = {} => LagOf(group[g])
  BY <1>0, InvAt
<1>2. Pending(g) = Held(pel[g])
  BY <1>0, GroupAt
<1>3. LowerEnd(S, RestOf(group[g]))
  BY <1>0, RangedRest
<1>4. /\ Joined(g, c) \in GroupMetas
      /\ Joined(g, c).consumers = group[g].consumers + (IF consumer[g][c] = Absent THEN 1 ELSE 0)
      /\ Joined(g, c).pending = group[g].pending /\ Joined(g, c).read = group[g].read
      /\ Joined(g, c).delivered = group[g].delivered
      /\ PendingOf(g, c) \in Nat
  BY <1>0, JoinedIs
<1>5. /\ group' = [group EXCEPT ![g] = gr] /\ consumer' = [consumer EXCEPT ![g] = con]
      /\ pel' = [pel EXCEPT ![g] = pl] /\ due' = [due EXCEPT ![g] = d]
      /\ noted' = noted \cup (IF listed \cap Pending(g) = {} THEN {} ELSE {"again"})
      /\ UNCHANGED <<now, meta, rows>>
  <2>1. gr = [Joined(g, c) EXCEPT !.read = @ + n, !.pending = @ + n,
                                  !.delivered = IF S = {} THEN @ ELSE Highest(S)]
    BY <1>4
  <2>. HIDE DEF gr
  <2>. QED
    BY <2>1 DEF ReadNew, Deliver, Passed
<1>6. RestOf(group[g]) \in SUBSET rows /\ S \in SUBSET RestOf(group[g])
  BY <1>3 DEF RestOf, LowerEnd
<1>. HIDE DEF S
<1>7. listed \in SUBSET S /\ S \in SUBSET Ids /\ listed \in SUBSET Ids
  BY <1>0, <1>6
<1>8. n \in Nat /\ n <= Cardinality(S) /\ Cardinality(S) \in Nat
  BY <1>7, IdSet
<1>9. at \in Ids /\ (S # {} => at \in S /\ \A x \in S : x <= at)
  BY <1>1, <1>7, HighestIs DEF GroupMetas
<1>. HIDE DEF listed, at
<1>10. read \in Int /\ pending \in Nat
  BY <1>1, <1>8 DEF GroupMetas
<1>11. /\ gr \in GroupMetas /\ gr.delivered = at /\ gr.read = read /\ gr.pending = pending
       /\ gr.consumers = Joined(g, c).consumers
  <2>. HIDE DEF read, pending, n
  <2>. QED
    BY <1>4, <1>9, <1>10 DEF GroupMetas
<1>12. PendingOf(g, c) + n \in Nat
  BY <1>4, <1>8
<1>13. /\ con \in Tallies /\ con[c] = PendingOf(g, c) + n /\ con[c] # Absent
       /\ \A o \in Consumers \ {c} : con[o] = consumer[g][o]
  <2>. HIDE DEF n
  <2>. QED
    BY <1>0, <1>1, <1>12 DEF Tallies
<1>14. Writes(g, gr, con, pl, d)
  BY <1>5 DEF Writes
<1>15. /\ pl \in Lists /\ Held(pl) = Held(pel[g]) \cup listed
       /\ HeldBy(pl, c) = HeldBy(pel[g], c) \cup listed
       /\ \A o \in Consumers : o # c => HeldBy(pl, o) = HeldBy(pel[g], o) \ listed
  <2>1. pel[g] \in Lists /\ listed \in SUBSET Ids /\ now \in 0 .. MaxNow
    BY <1>0, <1>1, <1>7
  <2>2. PassedTo(pel[g], listed, c, pl)
    BY <2>1, PassedIs
  <2>. HIDE DEF pl
  <2>. QED
    BY <2>2 DEF PassedTo
<1>16. d \in SUBSET Ids
  BY <1>1
<1>. HIDE DEF gr, con, pl
<1>17. OwnersIn(con, pl)
  BY <1>1, <1>13, <1>15 DEF OwnersIn
<1>18. ASSUME noted' \cap Miscounts = {} PROVE CountsOf(gr, con, pl)
  <2>1. CountsOf(group[g], consumer[g], pel[g]) /\ listed \cap Held(pel[g]) = {}
    BY <1>1, <1>2, <1>5, <1>18 DEF Miscounts
  <2>2. PendingOf(g, c) = Cardinality(HeldBy(pel[g], c))
    BY <1>0, <2>1, JoinedCounts
  <2>3. gr.consumers = Cardinality(Joiners(con))
    BY <1>1, <1>4, <1>11, <1>13, <2>1, JoinedTally DEF CountsOf
  <2>4. /\ Held(pel[g]) \in SUBSET Ids
        /\ \A o \in Consumers : /\ HeldBy(pel[g], o) \in SUBSET Ids
                                /\ HeldBy(pel[g], o) \cap listed = {}
    BY <1>1, <2>1, HeldIs
  <2>5. Cardinality(Held(pl)) = Cardinality(Held(pel[g])) + n
    BY <1>7, <1>15, <2>1, <2>4, DisjointUnion
  <2>6. Cardinality(HeldBy(pl, c)) = Cardinality(HeldBy(pel[g], c)) + n
    BY <1>7, <1>15, <2>4, DisjointUnion
  <2>. HIDE DEF n
  <2>7. \A o \in Consumers : o # c => HeldBy(pl, o) = HeldBy(pel[g], o)
    BY <1>15, <2>4
  <2>8. \A o \in Consumers : con[o] # Absent => con[o] = Cardinality(HeldBy(pl, o))
    BY <1>13, <2>1, <2>2, <2>6, <2>7 DEF CountsOf
  <2>9. gr.pending = Cardinality(Held(pl))
    BY <1>11, <2>1, <2>5 DEF CountsOf
  <2>. QED
    BY <2>3, <2>8, <2>9 DEF CountsOf
<1>19. RestOf(gr) = RestOf(group[g]) \ S
  <2>0. \A i \in rows : i \in Nat /\ at \in Nat /\ group[g].delivered \in Nat
    BY <1>0, <1>1, <1>9, IdsAre DEF GroupMetas
  <2>1. CASE S = {}
    BY <1>11, <2>1 DEF RestOf, at
  <2>2. CASE S # {}
    <3>1. at \in RestOf(group[g]) /\ at > group[g].delivered
      BY <1>6, <1>9, <2>2 DEF RestOf
    <3>2. ASSUME NEW i \in rows, i > at PROVE i \in RestOf(group[g]) \ S
      BY <1>9, <2>0, <2>2, <3>1, <3>2 DEF RestOf
    <3>3. ASSUME NEW i \in RestOf(group[g]) \ S PROVE i > at
      <4>1. ~(i <= at)
        BY <1>3, <1>9, <2>2, <3>3 DEF LowerEnd, S
      <4>. QED
        BY <1>6, <2>0, <3>3, <4>1
    <3>. QED
      BY <1>6, <1>11, <3>2, <3>3 DEF RestOf
  <2>. QED
    BY <2>1, <2>2
<1>20. ASSUME noted' \cap Misplaced = {} PROVE PlaceOf(gr, d)
  <2>1. PlaceOf(group[g], due[g]) /\ "residue" \notin noted
    BY <1>1, <1>5, <1>20 DEF Misplaced
  <2>2. d = RestOf(gr)
    BY <1>19, <2>1 DEF PlaceOf
  <2>3. at <= meta.last
    <3>1. CASE S = {}
      BY <2>1, <3>1 DEF PlaceOf, at
    <3>2. CASE S # {}
      <4>1. Says(meta, rows) /\ at \in rows
        BY <1>0, <1>6, <1>9, <2>1, <3>2 DEF Inv, RecordInv
      <4>2. rows # {} /\ meta.top = Highest(rows) /\ meta.top <= meta.last
        BY <4>1 DEF Says
      <4>3. at <= Highest(rows) /\ Highest(rows) \in Ids
        BY <1>0, <4>1, HighestIs
      <4>4. at \in Nat /\ Highest(rows) \in Nat /\ meta.last \in Nat
        BY <1>0, <1>9, <4>3, IdsAre DEF Metas
      <4>. QED
        BY <4>2, <4>3, <4>4
    <3>. QED
      BY <3>1, <3>2
  <2>. QED
    BY <1>0, <1>11, <2>2, <2>3 DEF PlaceOf
<1>21. ASSUME noted' \cap Unread = {} PROVE LagOf(gr)
  <2>1. group[g].read + Cardinality(RestOf(group[g])) <= meta.added /\ group[g].read \in Int
    BY <1>1, <1>5, <1>21 DEF LagOf, GroupMetas
  <2>2. RestOf(group[g]) \in SUBSET Ids
    BY <1>0, <1>6
  <2>3. /\ Cardinality(RestOf(gr)) = Cardinality(RestOf(group[g])) - Cardinality(S)
        /\ Cardinality(RestOf(group[g])) \in Nat /\ meta.added \in Nat
    BY <1>0, <1>6, <1>19, <2>2, IdSet, SetMinus DEF Metas
  <2>4. gr.read = group[g].read + n
    BY <1>11
  <2>. HIDE DEF n
  <2>5. gr.read + Cardinality(RestOf(gr)) <= meta.added
    BY <1>8, <2>1, <2>3, <2>4
  <2>. QED
    BY <1>0, <2>5 DEF LagOf
<1>22. noted \subseteq noted' /\ ("residue" \in noted' => "residue" \in noted)
  BY <1>5
<1>. HIDE DEF d
<1>. QED
  BY <1>0, <1>5, <1>11, <1>13, <1>14, <1>15, <1>16, <1>17, <1>18, <1>20, <1>21, <1>22, GroupKeeps

LEMMA XClaimKeeps ==
    ASSUME StreamAssumption, Inv, NEW g \in Groups, NEW c \in Consumers,
           NEW ids \in SUBSET (Pending(g) \cup rows), NEW least, NEW idle \in {0, 1},
           NEW force, NEW lastid \in {Absent} \cup Positions,
           XClaim(g, c, ids, least, force, idle, lastid)
    PROVE  Inv'
<1>. DEFINE taken == {i \in ids \cap rows : (i \in Pending(g) \/ force) /\ IdleFor(g, i, least)}
            forced == taken \ Held(pel[g])
            own(o) == HeldBy(pel[g], o)
            robbed == {o \in Consumers \ {c} : taken \cap own(o) # {}}
            moved == lastid # Absent /\ lastid > group[g].delivered
            pending == group[g].pending + Cardinality(forced)
            at == IF moved THEN lastid ELSE group[g].delivered
            gr == [Joined(g, c) EXCEPT !.pending = pending, !.delivered = at]
            more == PendingOf(g, c) + Cardinality(taken \ own(c))
            con == [o \in Consumers |->
                      IF o = c THEN more
                      ELSE IF o \in robbed /\ consumer[g][o] # Absent THEN Less(consumer[g][o], 1)
                      ELSE consumer[g][o]]
            pl == Passed(pel[g], taken, c, now - idle)
            d == IF moved THEN {i \in due[g] : i > lastid} ELSE due[g]
<1>0. /\ Typed /\ Live /\ group[g] # Absent /\ now - idle \in 0 .. MaxNow /\ Absent \notin Nat
      /\ rows \in SUBSET Ids /\ meta \in Metas /\ meta # Absent
  BY TypesAt DEF Inv, XClaim, StreamAssumption
<1>1. /\ group[g] \in GroupMetas /\ consumer[g] \in Tallies /\ pel[g] \in Lists
      /\ OwnersIn(consumer[g], pel[g]) /\ due[g] \in SUBSET Ids
      /\ noted \cap Miscounts = {} => CountsOf(group[g], consumer[g], pel[g])
      /\ noted \cap Misplaced = {} => PlaceOf(group[g], due[g])
      /\ noted \cap Unread = {} => LagOf(group[g])
  BY <1>0, InvAt
<1>2. Pending(g) = Held(pel[g]) /\ \A o \in Consumers : Owned(g, o) = own(o)
  BY <1>0, GroupAt
<1>3. /\ Joined(g, c) \in GroupMetas
      /\ Joined(g, c).consumers = group[g].consumers + (IF consumer[g][c] = Absent THEN 1 ELSE 0)
      /\ Joined(g, c).pending = group[g].pending /\ Joined(g, c).read = group[g].read
      /\ Joined(g, c).delivered = group[g].delivered
      /\ PendingOf(g, c) \in Nat
  BY <1>0, JoinedIs
<1>4. /\ taken \in SUBSET Ids /\ forced \in SUBSET Ids /\ taken \ own(c) \in SUBSET Ids
      /\ Held(pel[g]) \in SUBSET Ids
      /\ \A o \in Consumers : own(o) \in SUBSET Held(pel[g]) /\ own(o) \in SUBSET Ids
  BY <1>0, <1>1, HeldIs
<1>. DEFINE marks == (IF moved THEN Ahead(lastid) \cup {"set"} ELSE {})
                     \cup (IF \E o \in robbed : Cardinality(taken \cap own(o)) > 1
                           THEN {"shared"} ELSE {})
<1>5. /\ group' = [group EXCEPT ![g] = gr] /\ consumer' = [consumer EXCEPT ![g] = con]
      /\ pel' = [pel EXCEPT ![g] = pl]
      /\ due' = IF moved THEN [due EXCEPT ![g] = {i \in @ : i > lastid}] ELSE due
      /\ noted' = noted \cup marks
      /\ UNCHANGED <<now, meta, rows>>
  <2>1. robbed = {o \in Consumers \ {c} : taken \cap Owned(g, o) # {}}
    BY <1>2
  <2>2. gr = [Joined(g, c) EXCEPT !.pending = @ + Cardinality(taken \ Pending(g)),
                                  !.delivered = IF moved THEN lastid ELSE @]
    BY <1>2, <1>3
  <2>3. con = [o \in Consumers |->
                 IF o = c THEN PendingOf(g, c) + Cardinality(taken \ Owned(g, c))
                 ELSE IF o \in robbed /\ consumer[g][o] # Absent THEN Less(consumer[g][o], 1)
                 ELSE consumer[g][o]]
    BY <1>2
  <2>4. marks = (IF moved THEN Ahead(lastid) \cup {"set"} ELSE {})
                \cup (IF \E o \in robbed : Cardinality(taken \cap Owned(g, o)) > 1
                      THEN {"shared"} ELSE {})
    BY <1>2
  <2>. HIDE DEF gr, con, robbed, marks
  <2>. QED
    BY <2>1, <2>2, <2>3, <2>4 DEF XClaim, Deliver, Passed
<1>. HIDE DEF taken, moved, robbed
<1>6. pending \in Nat /\ more \in Nat /\ at \in Ids
  <2>1. Cardinality(forced) \in Nat /\ Cardinality(taken \ own(c)) \in Nat
    BY <1>4, IdSet
  <2>2. moved => lastid \in Ids
    BY DEF moved, StreamAssumption
  <2>. QED
    BY <1>1, <1>3, <2>1, <2>2 DEF GroupMetas
<1>7. /\ gr \in GroupMetas /\ gr.pending = pending /\ gr.delivered = at
      /\ gr.consumers = Joined(g, c).consumers /\ gr.read = group[g].read
  <2>. HIDE DEF pending, at
  <2>. QED
    BY <1>3, <1>6 DEF GroupMetas
<1>8. /\ con \in Tallies /\ con[c] = more /\ con[c] # Absent
      /\ \A o \in Consumers \ {c} :
            con[o] = IF o \in robbed /\ consumer[g][o] # Absent THEN Less(consumer[g][o], 1)
                     ELSE consumer[g][o]
      /\ \A o \in Consumers \ {c} : con[o] = Absent <=> consumer[g][o] = Absent
  <2>1. ASSUME NEW o \in Consumers, consumer[g][o] # Absent PROVE Less(consumer[g][o], 1) \in Nat
    BY <1>1, <2>1, LessIs, TallyIs
  <2>. HIDE DEF more
  <2>. QED
    BY <1>0, <1>1, <1>6, <2>1 DEF Tallies
<1>9. d \in SUBSET Ids /\ due' = [due EXCEPT ![g] = d]
  BY <1>0, <1>1, <1>5, WritesSome
<1>10. Writes(g, gr, con, pl, d)
  BY <1>5, <1>9 DEF Writes
<1>11. PassedTo(pel[g], taken, c, pl)
  BY <1>0, <1>1, <1>4, PassedIs
<1>. HIDE DEF gr, con, pl, d
<1>12. /\ pl \in Lists /\ Held(pl) = Held(pel[g]) \cup taken
       /\ HeldBy(pl, c) = own(c) \cup taken
       /\ \A o \in Consumers : o # c => HeldBy(pl, o) = own(o) \ taken
  BY <1>11 DEF PassedTo
<1>13. OwnersIn(con, pl)
  BY <1>1, <1>8, <1>12 DEF OwnersIn
<1>14. ASSUME noted' \cap Miscounts = {} PROVE CountsOf(gr, con, pl)
  <2>1. CountsOf(group[g], consumer[g], pel[g])
    BY <1>1, <1>5, <1>14
  <2>2. \A o \in robbed : ~(Cardinality(taken \cap own(o)) > 1)
    BY <1>5, <1>14 DEF Miscounts
  <2>3. PendingOf(g, c) = Cardinality(own(c))
    BY <1>0, <2>1, JoinedCounts
  <2>4. gr.consumers = Cardinality(Joiners(con))
    BY <1>1, <1>3, <1>7, <1>8, <2>1, JoinedTally DEF CountsOf
  <2>5. gr.pending = Cardinality(Held(pl))
    <3>1. Held(pl) = Held(pel[g]) \cup forced /\ Held(pel[g]) \cap forced = {}
      BY <1>12
    <3>2. Cardinality(Held(pl)) = Cardinality(Held(pel[g])) + Cardinality(forced)
      BY <1>4, <3>1, DisjointUnion
    <3>. QED
      BY <1>7, <2>1, <3>2 DEF CountsOf
  <2>6. con[c] = Cardinality(HeldBy(pl, c))
    <3>1. HeldBy(pl, c) = own(c) \cup (taken \ own(c)) /\ own(c) \cap (taken \ own(c)) = {}
      BY <1>12
    <3>2. own(c) \in SUBSET Ids
      BY <1>4
    <3>3. Cardinality(HeldBy(pl, c)) = Cardinality(own(c)) + Cardinality(taken \ own(c))
      BY <1>4, <3>1, <3>2, DisjointUnion
    <3>. QED
      BY <1>8, <2>3, <3>3
  <2>7. ASSUME NEW o \in Consumers \ {c}, con[o] # Absent PROVE con[o] = Cardinality(HeldBy(pl, o))
    <3>0. consumer[g][o] # Absent /\ own(o) \in SUBSET Ids /\ HeldBy(pl, o) = own(o) \ taken
      BY <1>4, <1>8, <1>12, <2>7
    <3>1. consumer[g][o] = Cardinality(own(o))
      BY <2>1, <3>0 DEF CountsOf
    <3>2. CASE o \in robbed
      <4>. DEFINE lost == taken \cap own(o)
      <4>1. lost # {} /\ ~(Cardinality(lost) > 1) /\ lost \in SUBSET own(o) /\ lost \in SUBSET Ids
        BY <1>4, <2>2, <3>2 DEF robbed
      <4>2. HeldBy(pl, o) = own(o) \ lost
        BY <3>0
      <4>. HIDE DEF lost
      <4>3. /\ Cardinality(lost) = 1 /\ Cardinality(own(o)) \in Nat
            /\ Cardinality(HeldBy(pl, o)) = Cardinality(own(o)) - 1
            /\ Cardinality(lost) <= Cardinality(own(o))
        <5>1. Cardinality(lost) \in Nat /\ Cardinality(lost) # 0
          BY <4>1, IdSet
        <5>2. Cardinality(lost) = 1
          BY <4>1, <5>1
        <5>. QED
          BY <3>0, <4>1, <4>2, <5>2, SetMinus, IdSet
      <4>4. con[o] = Less(consumer[g][o], 1)
        BY <1>8, <3>0, <3>2
      <4>. QED
        BY <3>1, <4>3, <4>4 DEF Less
    <3>3. CASE o \notin robbed
      <4>1. HeldBy(pl, o) = own(o)
        BY <3>0, <3>3 DEF robbed
      <4>. QED
        BY <1>8, <3>1, <3>3, <4>1
    <3>. QED
      BY <3>2, <3>3
  <2>. QED
    BY <2>4, <2>5, <2>6, <2>7 DEF CountsOf
<1>15. ASSUME noted' \cap Misplaced = {} PROVE PlaceOf(gr, d)
  <2>1. group[g].delivered <= meta.last /\ due[g] = RestOf(group[g])
    BY <1>1, <1>5, <1>15 DEF PlaceOf
  <2>2. CASE ~moved
    BY <1>0, <1>7, <2>1, <2>2 DEF PlaceOf, RestOf, d
  <2>3. CASE moved
    <3>1. lastid <= meta.last
      BY <1>0, <1>5, <1>15, <2>3 DEF Misplaced, Ahead
    <3>2. lastid > group[g].delivered /\ lastid \in Nat /\ group[g].delivered \in Nat
      BY <1>1, <1>6, <2>3, IdsAre DEF moved, GroupMetas
    <3>3. \A i \in rows : i > lastid => i > group[g].delivered
      <4>1. \A i \in rows : i \in Nat
        BY <1>0, IdsAre
      <4>. QED
        BY <3>2, <4>1
    <3>4. d = RestOf(gr)
      BY <1>7, <2>1, <2>3, <3>3 DEF RestOf, d
    <3>. QED
      BY <1>0, <1>7, <2>3, <3>1, <3>4 DEF PlaceOf
  <2>. QED
    BY <2>2, <2>3
<1>16. ASSUME noted' \cap Unread = {} PROVE LagOf(gr)
  <2>1. ~moved
    BY <1>5, <1>16 DEF Unread
  <2>2. LagOf(group[g])
    BY <1>1, <1>5, <1>16
  <2>. QED
    BY <1>7, <2>1, <2>2 DEF LagOf, RestOf
<1>17. noted \subseteq noted' /\ ("residue" \in noted' => "residue" \in noted)
  BY <1>5 DEF Ahead
<1>. QED
  BY <1>0, <1>5, <1>7, <1>8, <1>9, <1>10, <1>12, <1>13, <1>14, <1>15, <1>16, <1>17, GroupKeeps

LEMMA XAutoClaimKeeps ==
    ASSUME StreamAssumption, Inv, NEW g \in Groups, NEW c \in Consumers, NEW from, NEW least,
           NEW count, NEW attempts, XAutoClaim(g, c, from, least, count, attempts)
    PROVE  Inv'
<1>. DEFINE idle == {i \in Walked(g, from, least, count, attempts) : IdleFor(g, i, least)}
            dropped == idle \ rows
            own(o) == HeldBy(pel[g], o)
            claimed == (idle \cap rows) \ own(c)
            lost(o) == (claimed \cup dropped) \cap own(o)
            fewer == Less(group[g].pending, Cardinality(dropped))
            gr == IF dropped = {} THEN group[g] ELSE [Joined(g, c) EXCEPT !.pending = fewer]
            more == Less(PendingOf(g, c) + Cardinality(claimed), Cardinality(dropped \cap own(c)))
            con == [o \in Consumers |-> IF o = c THEN more
                      ELSE IF consumer[g][o] = Absent THEN Absent
                      ELSE Less(consumer[g][o], Cardinality(lost(o)))]
            given == Passed(pel[g], claimed, c, now)
            pl == Dropped(given, dropped)
<1>0. /\ Typed /\ Live /\ group[g] # Absent /\ now \in 0 .. MaxNow /\ Absent \notin Nat
      /\ rows \in SUBSET Ids
  BY TypesAt DEF Inv, XAutoClaim, StreamAssumption
<1>1. /\ group[g] \in GroupMetas /\ consumer[g] \in Tallies /\ pel[g] \in Lists
      /\ OwnersIn(consumer[g], pel[g])
      /\ noted \cap Miscounts = {} => CountsOf(group[g], consumer[g], pel[g])
  BY <1>0, InvAt
<1>2. Pending(g) = Held(pel[g]) /\ \A o \in Consumers : Owned(g, o) = own(o)
  BY <1>0, GroupAt
<1>3. /\ Joined(g, c) \in GroupMetas
      /\ Joined(g, c).consumers = group[g].consumers + (IF consumer[g][c] = Absent THEN 1 ELSE 0)
      /\ Joined(g, c).pending = group[g].pending /\ Joined(g, c).read = group[g].read
      /\ Joined(g, c).delivered = group[g].delivered
      /\ PendingOf(g, c) \in Nat
  BY <1>0, JoinedIs
<1>4. /\ Held(pel[g]) \in SUBSET Ids
      /\ \A o \in Consumers : own(o) \in SUBSET Held(pel[g]) /\ own(o) \in SUBSET Ids
  BY <1>1, HeldIs
<1>5. /\ claimed \in SUBSET Held(pel[g]) /\ dropped \in SUBSET Held(pel[g])
      /\ claimed \in SUBSET Ids /\ dropped \in SUBSET Ids
      /\ claimed \cap dropped = {} /\ claimed \cap own(c) = {}
  <2>1. idle \in SUBSET Held(pel[g])
    BY <1>2 DEF Walked
  <2>. HIDE DEF idle
  <2>. QED
    BY <1>4, <2>1
<1>6. /\ group' = [group EXCEPT ![g] = gr] /\ consumer' = [consumer EXCEPT ![g] = con]
      /\ pel' = [pel EXCEPT ![g] = pl]
      /\ noted' = noted \cup (IF dropped = {} /\ consumer[g][c] = Absent THEN {"uncounted"} ELSE {})
      /\ UNCHANGED <<now, meta, rows, due>>
  <2>1. claimed = (idle \cap rows) \ Owned(g, c)
    BY <1>2
  <2>2. con = [o \in Consumers |->
                 IF o = c THEN Less(PendingOf(g, c) + Cardinality(claimed),
                                    Cardinality(dropped \cap Owned(g, c)))
                 ELSE IF consumer[g][o] = Absent THEN Absent
                 ELSE Less(consumer[g][o], Cardinality((claimed \cup dropped) \cap Owned(g, o)))]
    BY <1>2
  <2>3. gr = IF dropped = {} THEN group[g]
             ELSE [Joined(g, c) EXCEPT !.pending = Less(@, Cardinality(dropped))]
    BY <1>3
  <2>. HIDE DEF claimed, con, gr
  <2>4. /\ group' = IF dropped = {} THEN group
                    ELSE [group EXCEPT ![g] =
                            [Joined(g, c) EXCEPT !.pending = Less(@, Cardinality(dropped))]]
        /\ consumer' = [consumer EXCEPT ![g] = con]
        /\ pel' = [Deliver(g, claimed, c, now) EXCEPT ![g] =
                     [i \in Ids |-> IF i \in dropped THEN Absent ELSE @[i]]]
        /\ noted' = noted \cup (IF dropped = {} /\ consumer[g][c] = Absent
                                THEN {"uncounted"} ELSE {})
        /\ UNCHANGED <<now, meta, rows, due>>
    BY <2>1, <2>2 DEF XAutoClaim
  <2>5. group' = [group EXCEPT ![g] = gr]
    BY <1>0, <2>3, <2>4, WritesSome
  <2>6. pel' = [pel EXCEPT ![g] = pl]
    <3>. HIDE DEF dropped
    <3>1. Deliver(g, claimed, c, now) = [pel EXCEPT ![g] = given]
      BY DEF Deliver, Passed
    <3>. HIDE DEF given
    <3>2. pel' = [[pel EXCEPT ![g] = given] EXCEPT ![g] =
                     [i \in Ids |-> IF i \in dropped THEN Absent ELSE given[i]]]
      BY <1>0, <2>4, <3>1 DEF Typed, TypeOK
    <3>. QED
      BY <3>2 DEF Dropped
  <2>. QED
    BY <2>4, <2>5, <2>6
<1>. HIDE DEF idle, dropped, claimed
<1>7. /\ Cardinality(claimed) \in Nat /\ Cardinality(dropped) \in Nat
      /\ Cardinality(dropped \cap own(c)) \in Nat
      /\ \A o \in Consumers : Cardinality(lost(o)) \in Nat
  <2>1. dropped \cap own(c) \in SUBSET Ids /\ \A o \in Consumers : lost(o) \in SUBSET Ids
    BY <1>4, <1>5
  <2>. HIDE DEF lost
  <2>. QED
    BY <1>5, <2>1, IdSet
<1>8. fewer \in Nat /\ more \in Nat
  <2>1. group[g].pending \in Nat /\ PendingOf(g, c) + Cardinality(claimed) \in Nat
    BY <1>1, <1>3, <1>7 DEF GroupMetas
  <2>. QED
    BY <1>7, <2>1, LessIs
<1>9. /\ gr \in GroupMetas /\ gr.delivered = group[g].delivered /\ gr.read = group[g].read
      /\ dropped = {} => gr = group[g]
      /\ dropped # {} => gr.pending = fewer /\ gr.consumers = Joined(g, c).consumers
  <2>. HIDE DEF fewer
  <2>1. CASE dropped = {}
    BY <1>1, <2>1
  <2>2. CASE dropped # {}
    BY <1>3, <1>8, <2>2 DEF GroupMetas
  <2>. QED
    BY <2>1, <2>2
<1>10. /\ con \in Tallies /\ con[c] = more /\ con[c] # Absent
       /\ \A o \in Consumers \ {c} :
             con[o] = IF consumer[g][o] = Absent THEN Absent
                      ELSE Less(consumer[g][o], Cardinality(lost(o)))
       /\ \A o \in Consumers \ {c} : con[o] = Absent <=> consumer[g][o] = Absent
  <2>1. ASSUME NEW o \in Consumers, consumer[g][o] # Absent
        PROVE  Less(consumer[g][o], Cardinality(lost(o))) \in Nat
    BY <1>1, <1>7, <2>1, LessIs, TallyIs
  <2>. HIDE DEF more, lost
  <2>. QED
    BY <1>0, <1>8, <2>1 DEF Tallies
<1>11. Writes(g, gr, con, pl, due[g])
  BY <1>0, <1>6, WritesSome DEF Writes
<1>12. /\ pl \in Lists /\ Held(pl) = Held(pel[g]) \ dropped
       /\ HeldBy(pl, c) = (own(c) \cup claimed) \ dropped
       /\ \A o \in Consumers : o # c => HeldBy(pl, o) = own(o) \ lost(o)
  <2>1. PassedTo(pel[g], claimed, c, given)
    BY <1>0, <1>1, <1>5, PassedIs
  <2>. HIDE DEF given
  <2>2. /\ given \in Lists /\ Held(given) = Held(pel[g]) \cup claimed
        /\ HeldBy(given, c) = own(c) \cup claimed
        /\ \A o \in Consumers : o # c => HeldBy(given, o) = own(o) \ claimed
    BY <2>1 DEF PassedTo
  <2>3. /\ pl \in Lists /\ Held(pl) = Held(given) \ dropped
        /\ \A o \in Consumers : HeldBy(pl, o) = HeldBy(given, o) \ dropped
    BY <1>5, <2>2, DroppedIs
  <2>. HIDE DEF pl
  <2>4. Held(pl) = Held(pel[g]) \ dropped
    BY <1>5, <2>2, <2>3
  <2>5. \A o \in Consumers : o # c => HeldBy(pl, o) = own(o) \ lost(o)
    BY <2>2, <2>3
  <2>. QED
    BY <2>2, <2>3, <2>4, <2>5
<1>. HIDE DEF gr, con, pl
<1>13. OwnersIn(con, pl)
  <2>1. \A o \in Consumers \ {c} : HeldBy(pl, o) # {} => con[o] # Absent
    BY <1>1, <1>10, <1>12 DEF OwnersIn
  <2>. QED
    BY <1>10, <2>1 DEF OwnersIn
<1>14. ASSUME noted' \cap Miscounts = {} PROVE CountsOf(gr, con, pl)
  <2>1. CountsOf(group[g], consumer[g], pel[g]) /\ ~(dropped = {} /\ consumer[g][c] = Absent)
    BY <1>1, <1>6, <1>14 DEF Miscounts
  <2>2. PendingOf(g, c) = Cardinality(own(c))
    BY <1>0, <2>1, JoinedCounts
  <2>3. Cardinality(Joiners(con))
           = Cardinality(Joiners(consumer[g])) + (IF consumer[g][c] = Absent THEN 1 ELSE 0)
    BY <1>1, <1>10, JoinedTally
  <2>4. gr.consumers = Cardinality(Joiners(con))
    <3>0. Cardinality(Joiners(consumer[g])) \in Nat
      BY <1>1, TallyIs
    <3>1. CASE dropped = {}
      BY <1>9, <2>1, <2>3, <3>0, <3>1 DEF CountsOf
    <3>2. CASE dropped # {}
      BY <1>3, <1>9, <2>1, <2>3, <3>2 DEF CountsOf
    <3>. QED
      BY <3>1, <3>2
  <2>5. gr.pending = Cardinality(Held(pl))
    <3>0. group[g].pending = Cardinality(Held(pel[g]))
      BY <2>1 DEF CountsOf
    <3>1. CASE dropped = {}
      BY <1>9, <1>12, <3>0, <3>1
    <3>2. CASE dropped # {}
      <4>1. /\ Cardinality(Held(pl)) = Cardinality(Held(pel[g])) - Cardinality(dropped)
            /\ Cardinality(dropped) <= Cardinality(Held(pel[g]))
            /\ Cardinality(Held(pel[g])) \in Nat
        BY <1>4, <1>5, <1>12, SetMinus, IdSet
      <4>. QED
        BY <1>7, <1>9, <3>0, <3>2, <4>1 DEF Less
    <3>. QED
      BY <3>1, <3>2
  <2>6. con[c] = Cardinality(HeldBy(pl, c))
    <3>. DEFINE all == own(c) \cup claimed
                gone == dropped \cap own(c)
    <3>1. all \in SUBSET Ids /\ own(c) \in SUBSET Ids /\ gone \in SUBSET all /\ gone \in SUBSET Ids
      BY <1>4, <1>5
    <3>2. HeldBy(pl, c) = all \ gone
      BY <1>5, <1>12
    <3>3. Cardinality(all) = Cardinality(own(c)) + Cardinality(claimed)
      BY <1>5, <3>1, DisjointUnion
    <3>4. more = Less(Cardinality(all), Cardinality(gone))
      BY <2>2, <3>3
    <3>. HIDE DEF all, gone
    <3>5. /\ Cardinality(all \ gone) = Cardinality(all) - Cardinality(gone)
          /\ Cardinality(gone) <= Cardinality(all)
          /\ Cardinality(all) \in Nat /\ Cardinality(gone) \in Nat
      BY <3>1, SetMinus, IdSet
    <3>6. Less(Cardinality(all), Cardinality(gone)) = Cardinality(all) - Cardinality(gone)
      BY <3>5, LessIs
    <3>. HIDE DEF more
    <3>. QED
      BY <1>10, <3>2, <3>4, <3>5, <3>6
  <2>7. ASSUME NEW o \in Consumers \ {c}, con[o] # Absent PROVE con[o] = Cardinality(HeldBy(pl, o))
    <3>1. /\ consumer[g][o] # Absent /\ HeldBy(pl, o) = own(o) \ lost(o)
          /\ con[o] = Less(consumer[g][o], Cardinality(lost(o)))
      BY <1>10, <1>12, <2>7
    <3>2. consumer[g][o] = Cardinality(own(o))
      BY <2>1, <3>1 DEF CountsOf
    <3>3. lost(o) \in SUBSET own(o) /\ own(o) \in SUBSET Ids /\ lost(o) \in SUBSET Ids
      BY <1>4
    <3>. HIDE DEF lost
    <3>4. /\ Cardinality(own(o) \ lost(o)) = Cardinality(own(o)) - Cardinality(lost(o))
          /\ Cardinality(lost(o)) <= Cardinality(own(o))
          /\ Cardinality(own(o)) \in Nat /\ Cardinality(lost(o)) \in Nat
      BY <3>3, SetMinus, IdSet
    <3>5. Less(Cardinality(own(o)), Cardinality(lost(o))) = Cardinality(own(o)) - Cardinality(lost(o))
      BY <3>4, LessIs
    <3>. QED
      BY <3>1, <3>2, <3>4, <3>5
  <2>. QED
    BY <2>4, <2>5, <2>6, <2>7 DEF CountsOf
<1>15. noted \subseteq noted' /\ ("residue" \in noted' => "residue" \in noted)
  BY <1>6
<1>. QED
  BY <1>0, <1>6, <1>9, <1>10, <1>11, <1>12, <1>13, <1>14, <1>15, StayKeeps

\* A group is made: beside the others of a stream that is there, or as the
\* first of a new stream.
LEMMA XGroupCreateKeeps ==
    ASSUME StreamAssumption, Inv, NEW g \in Groups, NEW at \in Places, NEW read \in {-1, 0},
           XGroupCreate(g, at, read)
    PROVE  Inv'
<1>. DEFINE gr == NewGroup(at, read)
<1>0. Typed /\ group[g] = Absent /\ at \in Ids /\ at \in Nat /\ UNCHANGED now
  BY PlacesIn, IdsAre DEF Inv, XGroupCreate
<1>1. /\ gr \in GroupMetas /\ gr # Absent /\ gr.pending = 0 /\ gr.consumers = 0
      /\ gr.delivered = at /\ gr.read = read
  <2>1. gr \in GroupMetas /\ Absent \notin GroupMetas
    BY <1>0, TypesAt DEF NewGroup, GroupMetas
  <2>. QED
    BY <2>1 DEF NewGroup
<1>. HIDE DEF gr
<1>2. CASE Live
  <2>. DEFINE d == {i \in rows : i > at}
              n == meta.groups + 1
  <2>1. /\ meta' = [meta EXCEPT !.groups = n]
        /\ group' = [group EXCEPT ![g] = gr] /\ due' = [due EXCEPT ![g] = d]
        /\ noted' = noted \cup Ahead(at)
        /\ UNCHANGED <<rows, consumer, pel>>
    BY <1>2 DEF XGroupCreate, gr
  <2>2. meta \in Metas /\ meta # Absent /\ rows \in SUBSET Ids /\ n \in Nat /\ Absent \notin Metas
    BY <1>0, <1>2, TypesAt DEF Metas
  <2>3. /\ meta' \in Metas /\ meta' # Absent /\ meta'.groups = n /\ meta'.size = meta.size
        /\ meta'.first = meta.first /\ meta'.top = meta.top /\ meta'.last = meta.last
        /\ meta'.added = meta.added
    <3>. HIDE DEF n
    <3>. QED
      BY <2>1, <2>2 DEF Metas
  <2>4. Writes(g, gr, consumer[g], pel[g], d)
    BY <1>0, <2>1, WritesSome DEF Writes
  <2>5. /\ consumer[g] \in Tallies /\ pel[g] \in Lists /\ d \in SUBSET Ids
        /\ OwnersIn(consumer[g], pel[g]) /\ Joiners(consumer[g]) = {} /\ Held(pel[g]) = {}
    BY <1>0, <2>2, GroupAt DEF Inv, OwnInv
  <2>. HIDE DEF d
  <2>6. /\ Typed'
        /\ \A h \in Groups : h # g =>
              /\ Owning(h)' <=> Owning(h)
              /\ Counting(h)' <=> Counting(h)
              /\ group'[h] = group[h] /\ due'[h] = due[h] /\ Rest(h)' = Rest(h)
        /\ group'[g] = gr /\ due'[g] = d /\ Rest(g)' = {i \in rows : i > gr.delivered}
        /\ Owning(g)' <=> /\ OwnersIn(consumer[g], pel[g])
                          /\ gr = Absent => Joiners(consumer[g]) = {} /\ Held(pel[g]) = {}
        /\ Counting(g)' <=> (gr # Absent => CountsOf(gr, consumer[g], pel[g]))
    <3>1. /\ gr \in GroupMetas \cup {Absent} /\ now' \in 1 .. MaxNow
          /\ meta' \in Metas \cup {Absent} /\ UNCHANGED rows
      BY <1>0, <1>1, <2>1, <2>3, TypesAt
    <3>. QED
      BY <1>0, <2>4, <2>5, <3>1, Written
  <2>7. Rest(g)' = d /\ noted \subseteq noted' /\ ("residue" \in noted' <=> "residue" \in noted)
    BY <1>1, <2>1, <2>6 DEF d, Ahead
  <2>8. OwnInv'
    BY <1>1, <2>5, <2>6 DEF Inv, OwnInv
  <2>9. CountInv'
    <3>1. CountsOf(gr, consumer[g], pel[g])
      <4>1. \A c \in Consumers : consumer[g][c] = Absent
        BY <2>5 DEF Joiners
      <4>. QED
        BY <1>1, <2>5, <4>1, FS_EmptySet DEF CountsOf
    <3>. QED
      BY <2>6, <2>7, <3>1 DEF Inv, CountInv
  <2>10. RecordInv'
    <3>. SUFFICES ASSUME "residue" \notin noted' PROVE Says(meta', rows) /\ n = Cardinality(Present')
      BY <2>1, <2>3 DEF RecordInv
    <3>1. Says(meta, rows) /\ meta.groups = Cardinality(Present)
      BY <2>2, <2>7 DEF Inv, RecordInv
    <3>2. Present' = Present \cup {g} /\ g \notin Present
      BY <1>0, <1>1, <2>6 DEF Present
    <3>3. IsFiniteSet(Present) /\ Cardinality(Present) \in Nat
      BY FS_Subset, FS_CardinalityType DEF Present, StreamAssumption
    <3>4. Cardinality(Present') = Cardinality(Present) + 1
      BY <3>2, <3>3, FS_AddElement
    <3>5. Says(meta', rows)
      BY <2>3, <3>1 DEF Says
    <3>. QED
      BY <3>1, <3>4, <3>5
  <2>11. GiveInv'
    <3>. SUFFICES ASSUME noted' \cap Misplaced = {}, NEW h \in Groups PROVE Giving(h)'
      BY DEF GiveInv
    <3>1. CASE h = g
      <4>1. at <= meta.last
        BY <1>2, <2>1 DEF Misplaced, Ahead
      <4>. QED
        BY <1>1, <2>3, <2>6, <2>7, <3>1, <4>1 DEF Giving
    <3>2. CASE h # g
      <4>1. Giving(h)
        BY <2>7 DEF Inv, GiveInv
      <4>. QED
        BY <2>3, <2>6, <3>2, <4>1 DEF Giving
    <3>. QED
      BY <3>1, <3>2
  <2>12. LagInv'
    <3>. SUFFICES ASSUME noted' \cap Unread = {}, NEW h \in Groups PROVE Lagging(h)'
      BY DEF LagInv
    <3>1. CASE h = g
      <4>1. Says(meta, rows)
        BY <2>1, <2>2 DEF Inv, RecordInv, Unread
      <4>2. /\ Cardinality(d) <= Cardinality(rows) /\ Cardinality(d) \in Nat
            /\ Cardinality(rows) \in Nat /\ meta.added \in Nat
        BY <2>2, IdSet DEF d, Metas
      <4>3. read + Cardinality(d) <= meta.added
        BY <4>1, <4>2 DEF Says
      <4>. QED
        BY <1>1, <2>3, <2>6, <2>7, <3>1, <4>3 DEF Lagging
    <3>2. CASE h # g
      <4>1. Lagging(h)
        BY <2>7 DEF Inv, LagInv
      <4>. QED
        BY <2>3, <2>6, <3>2, <4>1 DEF Lagging
    <3>. QED
      BY <3>1, <3>2
  <2>. QED
    BY <2>6, <2>8, <2>9, <2>10, <2>11, <2>12 DEF Inv
<1>3. CASE ~Live
  <2>1. /\ meta' = [NewMeta EXCEPT !.groups = 1] /\ rows' = {}
        /\ group' = [h \in Groups |-> IF h = g THEN gr ELSE Absent]
        /\ consumer' = [h \in Groups |-> [c \in Consumers |-> Absent]]
        /\ pel' = [h \in Groups |-> [i \in Ids |-> Absent]]
        /\ due' = [h \in Groups |-> {}]
        /\ noted' = IF at > 0 THEN {"ahead"} ELSE {}
    BY <1>3 DEF XGroupCreate, gr
  <2>2. /\ meta' \in Metas /\ meta' # Absent /\ meta'.groups = 1 /\ meta'.last = 0
        /\ meta'.added = 0 /\ Says(meta', {})
    <3>1. /\ NewMeta \in Metas /\ NewMeta.last = 0 /\ NewMeta.added = 0 /\ Says(NewMeta, {})
          /\ Absent \notin Metas
      BY <1>0, NewRecord, TypesAt
    <3>2. /\ meta' \in Metas /\ meta'.groups = 1 /\ meta'.last = NewMeta.last
          /\ meta'.added = NewMeta.added /\ meta'.size = NewMeta.size
          /\ meta'.first = NewMeta.first /\ meta'.top = NewMeta.top
      BY <2>1, <3>1 DEF Metas
    <3>3. Says(meta', {})
      BY <3>1, <3>2 DEF Says
    <3>. QED
      BY <3>1, <3>2, <3>3
  <2>3. Typed'
    BY <1>0, <1>1, <2>1, <2>2 DEF Typed, TypeOK
  <2>4. /\ \A h \in Groups : /\ Pending(h)' = {} /\ Rest(h)' = {}
                             /\ \A c \in Consumers : consumer'[h][c] = Absent
        /\ group'[g] = gr /\ \A h \in Groups : h # g => group'[h] = Absent
    BY <2>1 DEF Pending, Rest
  <2>5. Cardinality({}) = 0
    BY FS_EmptySet
  <2>6. OwnInv'
    BY <2>4 DEF OwnInv, Owning
  <2>7. \A h \in Groups : Counting(h)'
    BY <1>1, <2>4, <2>5 DEF Counting
  <2>8. RecordInv'
    <3>1. Present' = {g}
      BY <1>1, <2>4 DEF Present
    <3>. QED
      BY <2>1, <2>2, <3>1, FS_Singleton DEF RecordInv
  <2>9. GiveInv'
    <3>. SUFFICES ASSUME noted' \cap Misplaced = {}, NEW h \in Groups, group'[h] # Absent
                  PROVE  Giving(h)'
      BY DEF GiveInv, Giving
    <3>1. h = g /\ at = 0
      BY <1>0, <2>1, <2>4 DEF Misplaced
    <3>. QED
      BY <1>1, <2>1, <2>2, <2>4, <3>1 DEF Giving
  <2>10. \A h \in Groups : Lagging(h)'
    BY <1>1, <2>2, <2>4, <2>5 DEF Lagging
  <2>. QED
    BY <2>3, <2>6, <2>7, <2>8, <2>9, <2>10 DEF Inv, CountInv, LagInv
<1>. QED
  BY <1>2, <1>3

LEMMA XGroupDestroyKeeps ==
    ASSUME StreamAssumption, Inv, NEW g \in Groups, XGroupDestroy(g)
    PROVE  Inv'
<1>. DEFINE con == [c \in Consumers |-> Absent]
            pl == [i \in Ids |-> Absent]
            n == Less(meta.groups, 1)
<1>0. /\ Typed /\ Live /\ group[g] # Absent /\ meta \in Metas /\ meta # Absent
      /\ Absent \notin Metas
  BY TypesAt DEF Inv, XGroupDestroy
<1>1. /\ meta' = [meta EXCEPT !.groups = n]
      /\ group' = [group EXCEPT ![g] = Absent] /\ consumer' = [consumer EXCEPT ![g] = con]
      /\ pel' = [pel EXCEPT ![g] = pl] /\ due' = [due EXCEPT ![g] = {}]
      /\ UNCHANGED <<now, rows, noted>>
  BY DEF XGroupDestroy
<1>2. n \in Nat
  BY <1>0, LessIs DEF Metas
<1>3. /\ meta' \in Metas /\ meta' # Absent /\ meta'.groups = n /\ meta'.size = meta.size
      /\ meta'.first = meta.first /\ meta'.top = meta.top /\ meta'.last = meta.last
      /\ meta'.added = meta.added
  <2>. HIDE DEF n
  <2>. QED
    BY <1>0, <1>1, <1>2 DEF Metas
<1>4. /\ con \in Tallies /\ pl \in Lists /\ Joiners(con) = {} /\ Held(pl) = {}
      /\ \A c \in Consumers : HeldBy(pl, c) = {}
  BY DEF Tallies, Lists, Joiners, Held, HeldBy
<1>5. Writes(g, Absent, con, pl, {})
  BY <1>1 DEF Writes
<1>6. OwnersIn(con, pl)
  BY <1>4 DEF OwnersIn
<1>. HIDE DEF con, pl
<1>7. /\ Typed'
      /\ \A h \in Groups : h # g =>
            /\ Owning(h)' <=> Owning(h)
            /\ Counting(h)' <=> Counting(h)
            /\ group'[h] = group[h] /\ due'[h] = due[h] /\ Rest(h)' = Rest(h)
      /\ group'[g] = Absent
      /\ Owning(g)' <=> /\ OwnersIn(con, pl)
                        /\ Absent = Absent => Joiners(con) = {} /\ Held(pl) = {}
      /\ Counting(g)' <=> (Absent # Absent => CountsOf(Absent, con, pl))
  <2>1. /\ Absent \in GroupMetas \cup {Absent} /\ now' \in 1 .. MaxNow
        /\ meta' \in Metas \cup {Absent} /\ UNCHANGED rows /\ {} \in SUBSET Ids
    BY <1>0, <1>1, <1>3, TypesAt
  <2>. QED
    BY <1>0, <1>4, <1>5, <2>1, Written
<1>8. OwnInv'
  BY <1>4, <1>6, <1>7 DEF Inv, OwnInv
<1>9. CountInv'
  BY <1>1, <1>7 DEF Inv, CountInv
<1>10. RecordInv'
  <2>. SUFFICES ASSUME "residue" \notin noted PROVE Says(meta', rows) /\ n = Cardinality(Present')
    BY <1>1, <1>3 DEF RecordInv
  <2>1. Says(meta, rows) /\ meta.groups = Cardinality(Present)
    BY <1>0 DEF Inv, RecordInv
  <2>2. Present' = Present \ {g} /\ g \in Present
    BY <1>0, <1>7 DEF Present
  <2>3. IsFiniteSet(Present) /\ Cardinality(Present) \in Nat
    BY FS_Subset, FS_CardinalityType DEF Present, StreamAssumption
  <2>4. /\ Cardinality(Present') = Cardinality(Present) - 1 /\ Cardinality(Present') \in Nat
    BY <2>2, <2>3, FS_RemoveElement, FS_CardinalityType
  <2>5. Says(meta', rows)
    BY <1>3, <2>1 DEF Says
  <2>. QED
    BY <2>1, <2>3, <2>4, <2>5 DEF Less
<1>11. GiveInv'
  <2>. SUFFICES ASSUME noted \cap Misplaced = {}, NEW h \in Groups, h # g PROVE Giving(h)'
    BY <1>1, <1>7 DEF GiveInv, Giving
  <2>1. Giving(h)
    BY DEF Inv, GiveInv
  <2>. QED
    BY <1>3, <1>7, <2>1 DEF Giving
<1>12. LagInv'
  <2>. SUFFICES ASSUME noted \cap Unread = {}, NEW h \in Groups, h # g PROVE Lagging(h)'
    BY <1>1, <1>7 DEF LagInv, Lagging
  <2>1. Lagging(h)
    BY DEF Inv, LagInv
  <2>. QED
    BY <1>3, <1>7, <2>1 DEF Lagging
<1>. QED
  BY <1>7, <1>8, <1>9, <1>10, <1>11, <1>12 DEF Inv

----------------------------------------------------------------------------
(* The invariant, and what it gives.                                       *)

LEMMA NextKeeps ==
    ASSUME StreamAssumption, Inv, Next
    PROVE  Inv'
<1>. USE DEF Inv
<1>1. CASE \E s \in Strategies, t \in Trims, b \in BOOLEAN : XAdd(s, t, b)
  BY <1>1, XAddStep, EntriesKeep, FreshKeeps
<1>2. CASE \E t \in Trims : XTrim(t)
  BY <1>2, XTrimStep, EntriesKeep
<1>3. CASE \E ids \in SUBSET rows : XDel(ids)
  BY <1>3, XDelStep, EntriesKeep
<1>4. CASE \E last \in LastIds, added \in {Absent, 1}, maxdel \in {Absent, 1} :
              XSetId(last, added, maxdel)
  BY <1>4, XSetIdKeeps
<1>5. CASE Tick \/ Lapse
  BY <1>5, TimeKeeps
<1>6. CASE Erase
  BY <1>6, EraseStep, FreshKeeps
<1>7. ASSUME NEW g \in Groups, ForGroup(g) PROVE Inv'
  <2>1. CASE \E at \in Places : XGroupCreate(g, at, -1) \/ XGroupCreate(g, at, 0)
    BY <2>1, XGroupCreateKeeps
  <2>2. CASE XGroupDestroy(g)
    BY <2>2, XGroupDestroyKeeps
  <2>3. CASE \E at \in Places : XGroupSetId(g, at, Absent)
    BY <2>3, XGroupSetIdKeeps
  <2>4. CASE \E ids \in SUBSET Pending(g) : XAck(g, ids)
    BY <2>4, XAckKeeps
  <2>5. ASSUME NEW c \in Consumers,
               \/ XGroupCreateConsumer(g, c)
               \/ XGroupDelConsumer(g, c)
               \/ \E count \in Counts, noack \in BOOLEAN : ReadNew(g, c, count, noack)
               \/ \E from \in {0, 1}, count \in Counts : ReadOwn(g, c, from, count)
               \/ Claims(g, c)
        PROVE  Inv'
    <3>1. CASE XGroupCreateConsumer(g, c)
      BY <3>1, XGroupCreateConsumerKeeps
    <3>2. CASE XGroupDelConsumer(g, c)
      BY <3>2, XGroupDelConsumerKeeps
    <3>3. CASE \E count \in Counts, noack \in BOOLEAN : ReadNew(g, c, count, noack)
      BY <3>3, ReadNewKeeps
    <3>4. CASE \E from \in {0, 1}, count \in Counts : ReadOwn(g, c, from, count)
      BY <3>4, ReadOwnKeeps
    <3>5. CASE Claims(g, c)
      <4>1. CASE \E ids \in SUBSET (Pending(g) \cup rows) \ {{}}, least, idle \in {0, 1},
                    force \in BOOLEAN, lastid \in {Absent} \cup Positions :
                    XClaim(g, c, ids, least, force, idle, lastid)
        <5>1. PICK ids \in SUBSET (Pending(g) \cup rows) \ {{}}, least \in {0, 1}, idle \in {0, 1},
                   force \in BOOLEAN, lastid \in {Absent} \cup Positions :
                   XClaim(g, c, ids, least, force, idle, lastid)
          BY <4>1
        <5>2. ids \in SUBSET (Pending(g) \cup rows)
          OBVIOUS
        <5>. QED
          BY  <5>1, <5>2, XClaimKeeps
      <4>2. CASE \E from \in Pending(g), least \in {0, 1}, count \in Counts, attempts \in {1, 2} :
                    XAutoClaim(g, c, from, least, count, attempts)
        BY <4>2, XAutoClaimKeeps
      <4>. QED
        BY <3>5, <4>1, <4>2 DEF Claims
    <3>. QED
      BY <2>5, <3>1, <3>2, <3>3, <3>4, <3>5
  <2>. QED
    BY <1>7, <2>1, <2>2, <2>3, <2>4, <2>5 DEF ForGroup, Places
<1>. QED
  BY <1>1, <1>2, <1>3, <1>4, <1>5, <1>6, <1>7 DEF Next

LEMMA InitHolds ==
    ASSUME StreamAssumption, Init
    PROVE  Inv
<1>1. Typed
  BY DEF Init, Typed, TypeOK, StreamAssumption
<1>2. \A g \in Groups : group[g] = Absent /\ Pending(g) = {}
                        /\ \A c \in Consumers : consumer[g][c] = Absent
  BY DEF Init, Pending
<1>3. OwnInv
  BY <1>2 DEF OwnInv, Owning
<1>4. RecordInv
  BY <1>2 DEF Init, RecordInv, Present
<1>5. CountInv /\ GiveInv /\ LagInv
  BY <1>2 DEF CountInv, GiveInv, LagInv, Counting, Giving, Lagging
<1>. QED
  BY <1>1, <1>3, <1>4, <1>5 DEF Inv

LEMMA Stuttering ==
    ASSUME Inv, UNCHANGED vars
    PROVE  Inv'
<1>1. UNCHANGED <<now, meta, rows, group, consumer, pel, due, noted>>
  BY DEF vars
<1>2. /\ Present' = Present
      /\ \A g \in Groups : Rest(g)' = Rest(g) /\ (Owning(g)' <=> Owning(g))
                           /\ (Counting(g)' <=> Counting(g))
  BY <1>1, SameEntries
<1>3. Typed'
  BY <1>1 DEF Inv, Typed, TypeOK
<1>4. RecordInv'
  BY <1>1, <1>2 DEF Inv, RecordInv, Says
<1>5. OwnInv' /\ CountInv' /\ GiveInv' /\ LagInv'
  BY <1>1, <1>2 DEF Inv, OwnInv, CountInv, GiveInv, LagInv, Giving, Lagging
<1>. QED
  BY <1>3, <1>4, <1>5 DEF Inv

LEMMA Invariance ==
    ASSUME StreamAssumption
    PROVE  Spec => []Inv
<1>1. Init => Inv
  BY InitHolds
<1>2. Inv /\ [Next]_vars => Inv'
  BY NextKeeps, Stuttering
<1>. QED
  BY <1>1, <1>2, PTL DEF Spec

(* The variables of StreamStore have their types: ids stay within bounds   *)
(* through generate_id, and no count falls below zero or meets a record    *)
(* that is not there.                                                      *)
THEOREM TypeCorrect ==
    ASSUME StreamAssumption
    PROVE  Spec => []TypeOK
<1>1. Inv => TypeOK
  BY DEF Inv, Typed
<1>. QED
  BY <1>1, Invariance, PTL

(* The record's size, first and last entry and number of groups are those  *)
(* of the rows after any sequence of XADD, XTRIM, XDEL, XSETID and group   *)
(* commands (stream_add, trim_stream_internal, stream_del,                 *)
(* stream_group_create) -- unless XSETID began on what an expired stream   *)
(* left.                                                                   *)
THEOREM RecordsExact ==
    ASSUME StreamAssumption
    PROVE  Spec => []BoundsExact
<1>1. Inv => BoundsExact
  BY DEF Inv, RecordInv, BoundsExact, Says, Present
<1>. QED
  BY <1>1, Invariance, PTL

(* A pending entry belongs to a consumer that has a record, of a group     *)
(* that is there (stream_group_del_consumer, stream_claim,                 *)
(* stream_autoclaim).                                                      *)
THEOREM OwnersFound ==
    ASSUME StreamAssumption
    PROVE  Spec => []OwnersExist
<1>1. Inv => OwnersExist
  BY DEF Inv, OwnInv, Owning, OwnersExist
<1>. QED
  BY <1>1, Invariance, PTL

(* The counts of groups and consumers are those of the pending list        *)
(* (stream_readgroup, stream_ack, stream_claim, stream_autoclaim,          *)
(* stream_group_del_consumer) but for the three ways the code has of       *)
(* losing count and for a stream begun over an expired one.                *)
THEOREM CountsExact ==
    ASSUME StreamAssumption
    PROVE  Spec => []PendingExact
<1>1. Inv => PendingExact
  BY DEF Inv, CountInv, Counting, PendingExact, Miscounts
<1>. QED
  BY <1>1, Invariance, PTL

(* What a group has yet to be given is what lies after the last entry it   *)
(* was given: reading ">" neither skips an entry nor gives one twice       *)
(* (stream_readgroup, generate_id), however entries come and go.           *)
THEOREM ReadersServed ==
    ASSUME StreamAssumption
    PROVE  Spec => []DueExact
<1>1. Inv => DueExact
  BY DEF Inv, GiveInv, Giving, Rest, DueExact, Misplaced
<1>. QED
  BY <1>1, Invariance, PTL

LEMMA DistanceIs ==
    ASSUME StreamAssumption, NEW m \in Metas, rows \in SUBSET Ids, Says(m, rows), NEW id \in Ids,
           Distance(m, id) # -1
    PROVE  Less(m.added, Distance(m, id)) >= Cardinality({i \in rows : i > id})
<1>. DEFINE after == {i \in rows : i > id}
<1>0. /\ m.size \in Nat /\ m.added \in Nat /\ m.top \in Nat /\ m.first \in Nat /\ id \in Nat
      /\ m.size <= m.added /\ m.size = Cardinality(rows) /\ \A i \in rows : i \in Nat
  BY IdsAre DEF Says, Metas
<1>1. /\ after \in SUBSET rows /\ after \in SUBSET Ids /\ Cardinality(after) \in Nat
      /\ Cardinality(after) <= m.size
  BY <1>0, IdSet
<1>2. after = {} => Cardinality(after) = 0
  BY FS_EmptySet
<1>3. rows = {} => m.first = 0 /\ m.top = 0
  BY DEF Says
<1>4. rows # {} => /\ m.first \in rows /\ \A x \in rows : m.first <= x
                   /\ m.top \in rows /\ \A x \in rows : x <= m.top
  BY LowestIs, HighestIs DEF Says
<1>5. m.size = 0 => rows = {}
  BY <1>0, IdSet
<1>6. CASE m.added = 0
  <2>1. Distance(m, id) = 0 /\ Cardinality(after) = 0
    BY <1>0, <1>1, <1>6 DEF Distance
  <2>. QED
    BY <1>0, <1>6, <2>1 DEF Less
<1>7. CASE m.added # 0 /\ ((m.size = 0 /\ id < m.top) \/ id = m.top)
  <2>1. Distance(m, id) = m.added
    BY <1>7 DEF Distance
  <2>2. after = {}
    <3>1. id = m.top
      BY <1>0, <1>3, <1>5, <1>7
    <3>2. \A x \in rows : ~(x > id)
      BY <1>0, <1>4, <3>1
    <3>. QED
      BY <3>2
  <2>. QED
    BY <1>0, <1>2, <2>1, <2>2 DEF Less
<1>8. CASE m.added # 0 /\ ~((m.size = 0 /\ id < m.top) \/ id = m.top)
  <2>1. /\ ~(id > m.top) /\ ~(id > m.first)
        /\ Distance(m, id) = Less(m.added, m.size) + (IF id = m.first THEN 1 ELSE 0)
    BY <1>8 DEF Distance
  <2>2. id < m.top /\ rows # {} /\ Less(m.added, m.size) = m.added - m.size
    BY <1>0, <1>3, <1>8, <2>1 DEF Less
  <2>3. CASE id = m.first
    <3>1. m.first \in rows /\ after \subseteq rows \ {m.first}
      BY <1>0, <1>4, <2>2, <2>3
    <3>2. Cardinality(rows \ {m.first}) = m.size - 1
      <4>1. IsFiniteSet(rows)
        BY IdSet
      <4>2. Cardinality(rows \ {m.first}) = Cardinality(rows) - 1
        BY <3>1, <4>1, FS_RemoveElement
      <4>. QED
        BY <1>0, <4>2
    <3>3. Cardinality(after) <= m.size - 1
      <4>1. rows \ {m.first} \in SUBSET Ids
        OBVIOUS
      <4>. HIDE DEF after
      <4>. QED
        BY <3>1, <3>2, <4>1, IdSet
    <3>4. Distance(m, id) = m.added - m.size + 1
      BY <2>1, <2>2, <2>3
    <3>5. Less(m.added, Distance(m, id)) >= m.size - 1
      BY <1>0, <3>4 DEF Less
    <3>6. Less(m.added, Distance(m, id)) >= Cardinality(after)
      <4>1. Less(m.added, Distance(m, id)) \in Int
        BY <1>0, <3>4 DEF Less
      <4>. HIDE DEF after
      <4>. QED
        BY <1>0, <1>1, <3>3, <3>5, <4>1
    <3>. QED
      BY <3>6
  <2>4. CASE id # m.first
    <3>1. Distance(m, id) = m.added - m.size
      BY <1>0, <2>1, <2>2, <2>4
    <3>2. Less(m.added, Distance(m, id)) = m.size
      BY <1>0, <3>1 DEF Less
    <3>3. Less(m.added, Distance(m, id)) >= Cardinality(after)
      <4>. HIDE DEF after
      <4>. QED
        BY <1>0, <1>1, <3>2
    <3>. QED
      BY <3>3
  <2>. QED
    BY <2>3, <2>4
<1>. QED
  BY <1>6, <1>7, <1>8

(* The lag XINFO GROUPS shows of a group that was always read and never    *)
(* set is no less than what it has yet to be given (check_lag_valid,       *)
(* stream_estimate_distance_from_first_ever_entry).                        *)
THEOREM LagBounds ==
    ASSUME StreamAssumption
    PROVE  Spec => []LagCovers
<1>1. ASSUME Inv PROVE LagCovers
  <2>. SUFFICES ASSUME Live, noted \cap Unread = {}, NEW g \in Groups, group[g] # Absent,
                       Lag(meta, group[g]) # Absent
                PROVE  Lag(meta, group[g]) >= Cardinality(Rest(g))
    BY DEF LagCovers, Unread, Rest
  <2>1. /\ meta \in Metas /\ meta # Absent /\ rows \in SUBSET Ids /\ group[g] \in GroupMetas
        /\ meta.added \in Nat /\ group[g].read \in Int /\ group[g].delivered \in Ids
    BY <1>1, TypesAt DEF Inv, Metas, GroupMetas
  <2>2. Says(meta, rows)
    BY <1>1, <2>1 DEF Inv, RecordInv, Unread
  <2>3. group[g].read + Cardinality(Rest(g)) <= meta.added
    BY <1>1 DEF Inv, LagInv, Lagging
  <2>4. Rest(g) \in SUBSET rows /\ Cardinality(Rest(g)) \in Nat
        /\ Cardinality(Rest(g)) <= Cardinality(rows)
    BY <2>1, IdSet DEF Rest
  <2>5. CASE meta.added = 0
    <3>1. Cardinality(Rest(g)) = 0
      BY <2>1, <2>2, <2>4, <2>5, IdSet DEF Says
    <3>. QED
      BY <2>5, <3>1 DEF Lag
  <2>6. CASE meta.added # 0 /\ group[g].read # -1 /\ ~HasTombstones(meta, group[g].delivered)
    <3>1. Lag(meta, group[g]) = Less(meta.added, group[g].read)
      BY <2>6 DEF Lag
    <3>. QED
      BY <2>1, <2>3, <2>4, <3>1 DEF Less
  <2>7. CASE meta.added # 0 /\ ~(group[g].read # -1 /\ ~HasTombstones(meta, group[g].delivered))
    <3>1. /\ Distance(meta, group[g].delivered) # -1
          /\ Lag(meta, group[g]) = Less(meta.added, Distance(meta, group[g].delivered))
      BY <2>7 DEF Lag
    <3>. QED
      BY <2>1, <2>2, <3>1, DistanceIs DEF Rest
  <2>. QED
    BY <2>5, <2>6, <2>7
<1>. QED
  BY <1>1, Invariance, PTL

----------------------------------------------------------------------------
(* Reading.                                                                *)

Span(a, b, ex) == {i \in rows : IF ex THEN a < i /\ i < b ELSE a <= i /\ i <= b}
LastOf(S, n) == {i \in S : Cardinality({x \in S : x > i}) < n}

\* A record that says what the rows say, and what it says of them in order.
LEMMA EndsAre ==
    ASSUME StreamAssumption, rows \in SUBSET Ids, meta \in Metas, Says(meta, rows)
    PROVE  /\ meta.size = Cardinality(rows) /\ meta.size \in Nat /\ (meta.size = 0 <=> rows = {})
           /\ meta.first \in Nat /\ meta.top \in Nat
           /\ rows = {} => meta.first = 0 /\ meta.top = 0
           /\ rows # {} => meta.first \in rows /\ meta.top \in rows
           /\ \A i \in rows : i \in Nat /\ meta.first <= i /\ i <= meta.top
<1>1. meta.size = Cardinality(rows) /\ meta.size \in Nat /\ (meta.size = 0 <=> rows = {})
  BY IdSet DEF Says
<1>2. meta.first \in Nat /\ meta.top \in Nat /\ \A i \in rows : i \in Nat
  BY IdsAre DEF Metas
<1>3. rows = {} => meta.first = 0 /\ meta.top = 0
  BY DEF Says
<1>4. rows # {} => /\ meta.first \in rows /\ \A x \in rows : meta.first <= x
                   /\ meta.top \in rows /\ \A x \in rows : x <= meta.top
  BY LowestIs, HighestIs DEF Says
<1>. QED
  BY <1>1, <1>2, <1>3, <1>4

\* The first or last n of no more than one entry, or of none.
LEMMA FewOf ==
    ASSUME StreamAssumption, NEW S \in SUBSET Ids, NEW n \in Nat
    PROVE  /\ n = 0 \/ S = {} => FirstOf(S, n) = {} /\ LastOf(S, n) = {}
           /\ n # 0 /\ (\E a \in Ids : S \subseteq {a}) => FirstOf(S, n) = S /\ LastOf(S, n) = S
<1>1. \A m \in S : /\ {x \in S : x < m} \in SUBSET Ids /\ {x \in S : x > m} \in SUBSET Ids
                   /\ ~(m < m) /\ ~(m > m)
  BY IdsAre
<1>2. \A m \in S : /\ Cardinality({x \in S : x < m}) \in Nat
                   /\ Cardinality({x \in S : x > m}) \in Nat
  BY <1>1, IdSet
<1>3. ASSUME n = 0 \/ S = {} PROVE FirstOf(S, n) = {} /\ LastOf(S, n) = {}
  <2>1. \A m \in S : /\ ~(Cardinality({x \in S : x < m}) < n)
                    /\ ~(Cardinality({x \in S : x > m}) < n)
    <3>1. CASE S = {}
      BY <3>1
    <3>2. CASE n = 0
      <4>1. \A k \in Nat : ~(k < n)
        BY <3>2
      <4>. QED
        BY <1>2, <4>1
    <3>. QED
      BY <1>3, <3>1, <3>2
  <2>2. FirstOf(S, n) = {}
    BY <2>1 DEF FirstOf
  <2>3. LastOf(S, n) = {}
    BY <2>1 DEF LastOf
  <2>. QED
    BY <2>2, <2>3
<1>4. ASSUME n # 0, NEW a \in Ids, S \subseteq {a} PROVE FirstOf(S, n) = S /\ LastOf(S, n) = S
  <2>1. \A m \in S : {x \in S : x < m} = {} /\ {x \in S : x > m} = {}
    BY <1>1, <1>4
  <2>2. Cardinality({}) = 0 /\ 0 < n
    BY <1>4, FS_EmptySet
  <2>. QED
    BY <2>1, <2>2 DEF FirstOf, LastOf
<1>. QED
  BY <1>3, <1>4

LEMMA RangedExact ==
    ASSUME StreamAssumption, rows \in SUBSET Ids, meta \in Metas, Says(meta, rows), Live,
           NEW a \in Ids, NEW b \in Ids, NEW ex \in BOOLEAN, NEW count \in Nat
    PROVE  /\ Ranged(a, b, count, FALSE, ex, ex) = FirstOf(Span(a, b, ex), count)
           /\ Ranged(b, a, count, TRUE, ex, ex) = LastOf(Span(a, b, ex), count)
<1>. DEFINE S == Span(a, b, ex)
            none == meta.size = 0 \/ a > meta.top \/ b < meta.first
<1>0. /\ S \in SUBSET Ids /\ a \in Nat /\ b \in Nat /\ \A i \in rows : i \in Nat
  BY IdsAre DEF Span
<1>1. Ranged(a, b, count, FALSE, ex, ex)
        = IF count = 0 \/ b < a THEN {}
          ELSE IF none THEN {}
          ELSE IF a = b THEN IF ex THEN {} ELSE rows \cap {a}
          ELSE FirstOf(S, count)
  <2>1. {i \in rows : /\ IF ex THEN a < i ELSE a <= i
                      /\ IF ex THEN i < b ELSE i <= b} = S
    BY DEF Span
  <2>. HIDE DEF S
  <2>. QED
    BY <2>1 DEF Ranged
<1>2. Ranged(b, a, count, TRUE, ex, ex)
        = IF count = 0 \/ b < a THEN {}
          ELSE IF none THEN {}
          ELSE IF a = b THEN IF ex THEN {} ELSE rows \cap {a}
          ELSE LastOf(S, count)
  <2>1. {i \in rows : /\ IF ex THEN i < b ELSE i <= b
                      /\ IF ex THEN a < i ELSE a <= i} = S
    BY DEF Span
  <2>. HIDE DEF S
  <2>2. Ranged(b, a, count, TRUE, ex, ex)
          = IF ~Live \/ count = 0 \/ b < a THEN {}
            ELSE IF meta.size = 0 \/ (b < meta.first \/ a > meta.top) THEN {}
            ELSE IF b = a THEN IF ex \/ ex THEN {} ELSE rows \cap {b}
            ELSE {i \in S : Cardinality({x \in S : x > i}) < count}
    BY <2>1 DEF Ranged
  <2>. QED
    BY <2>2 DEF LastOf
<1>3. b < a \/ none => S = {}
  <2>1. \A i \in S : i \in rows /\ i \in Nat /\ a <= i /\ i <= b
    BY <1>0 DEF Span
  <2>2. /\ meta.size = 0 => rows = {}
        /\ meta.top \in Nat /\ meta.first \in Nat
        /\ \A i \in rows : meta.first <= i /\ i <= meta.top
    BY EndsAre
  <2>3. ASSUME NEW i \in S PROVE ~(b < a \/ none)
    <3>. HIDE DEF S
    <3>. QED
      BY <1>0, <2>1, <2>2
  <2>. HIDE DEF S, none
  <2>. QED
    BY <2>3
<1>4. ASSUME a = b PROVE S = IF ex THEN {} ELSE rows \cap {a}
  <2>1. \A i \in rows : ~(a < i /\ i < b) /\ ((a <= i /\ i <= b) <=> i = a)
    BY <1>0, <1>4
  <2>2. CASE ex = TRUE
    <3>1. S = {i \in rows : a < i /\ i < b}
      BY <2>2 DEF Span
    <3>. QED
      BY <2>1, <2>2, <3>1
  <2>3. CASE ex = FALSE
    <3>1. S = {i \in rows : a <= i /\ i <= b}
      BY <2>3 DEF Span
    <3>. QED
      BY <2>1, <2>3, <3>1
  <2>. QED
    BY <2>2, <2>3
<1>. HIDE DEF S, none
<1>5. CASE count = 0 \/ b < a \/ none
  <2>1. FirstOf(S, count) = {} /\ LastOf(S, count) = {}
    BY <1>0, <1>3, <1>5, FewOf
  <2>. QED
    BY <1>1, <1>2, <1>5, <2>1 DEF S
<1>6. CASE ~(count = 0 \/ b < a \/ none) /\ a = b
  <2>1. S \subseteq {a}
    BY <1>4, <1>6
  <2>2. FirstOf(S, count) = S /\ LastOf(S, count) = S
    BY <1>0, <1>6, <2>1, FewOf
  <2>3. Ranged(a, b, count, FALSE, ex, ex) = S /\ Ranged(b, a, count, TRUE, ex, ex) = S
    BY <1>1, <1>2, <1>4, <1>6
  <2>. QED
    BY <2>2, <2>3 DEF S
<1>7. CASE ~(count = 0 \/ b < a \/ none) /\ a # b
  BY <1>1, <1>2, <1>7 DEF S
<1>. QED
  BY <1>5, <1>6, <1>7

LEMMA CountedExact ==
    ASSUME StreamAssumption, rows \in SUBSET Ids, meta \in Metas, Says(meta, rows), NEW a \in Ids
    PROVE  /\ Counted(a, TRUE) = Cardinality({i \in rows : i < a})
           /\ Counted(a, FALSE) = Cardinality({i \in rows : i > a})
<1>. DEFINE lower == {i \in rows : i < a}
            upper == {i \in rows : i > a}
<1>0. /\ meta.size = Cardinality(rows) /\ meta.size \in Nat /\ (meta.size = 0 <=> rows = {})
      /\ meta.first \in Nat /\ meta.top \in Nat /\ a \in Nat
      /\ rows = {} => meta.first = 0 /\ meta.top = 0
      /\ rows # {} => meta.first \in rows /\ meta.top \in rows
      /\ \A i \in rows : i \in Nat /\ meta.first <= i /\ i <= meta.top
  BY EndsAre, IdsAre
<1>1. Cardinality({}) = 0 /\ IsFiniteSet(rows)
  BY FS_EmptySet, IdSet
<1>2. /\ a > meta.top => lower = rows /\ upper = {}
      /\ a < meta.first => lower = {} /\ upper = rows
      /\ a = meta.top => lower = rows \ {a}
      /\ a = meta.first => upper = rows \ {a}
  <2>1. ASSUME a > meta.top PROVE lower = rows /\ upper = {}
    <3>1. \A i \in rows : i < a /\ ~(i > a)
      BY <1>0, <2>1
    <3>. QED
      BY <3>1
  <2>2. ASSUME a < meta.first PROVE lower = {} /\ upper = rows
    <3>1. \A i \in rows : i > a /\ ~(i < a)
      BY <1>0, <2>2
    <3>. QED
      BY <3>1
  <2>3. ASSUME a = meta.top PROVE lower = rows \ {a}
    <3>1. \A i \in rows : i < a <=> i # a
      BY <1>0, <2>3
    <3>. QED
      BY <3>1
  <2>4. ASSUME a = meta.first PROVE upper = rows \ {a}
    <3>1. \A i \in rows : i > a <=> i # a
      BY <1>0, <2>4
    <3>. QED
      BY <3>1
  <2>. HIDE DEF lower, upper
  <2>. QED
    BY <2>1, <2>2, <2>3, <2>4
<1>3. /\ a = meta.top => Cardinality(rows \ {a}) = Less(meta.size, 1)
      /\ a = meta.first => Cardinality(rows \ {a}) = Less(meta.size, 1)
  <2>1. CASE rows = {}
    <3>1. rows \ {a} = {} /\ meta.size = 0
      BY <1>0, <2>1
    <3>. QED
      BY <1>1, <3>1 DEF Less
  <2>2. CASE rows # {}
    <3>1. a \in rows => Cardinality(rows \ {a}) = Cardinality(rows) - 1
      BY <1>1, FS_RemoveElement
    <3>2. meta.size # 0 /\ (a = meta.top \/ a = meta.first => a \in rows)
      BY <1>0, <2>2
    <3>. QED
      BY <1>0, <3>1, <3>2 DEF Less
  <2>. QED
    BY <2>1, <2>2
<1>. HIDE DEF lower, upper
<1>4. Counted(a, TRUE) = Cardinality(lower)
  <2>1. Counted(a, TRUE) = IF a > meta.top THEN meta.size
                           ELSE IF a < meta.first THEN 0
                           ELSE IF a = meta.top THEN Less(meta.size, 1)
                           ELSE Cardinality(lower)
    BY DEF Counted, lower
  <2>. QED
    BY <1>0, <1>1, <1>2, <1>3, <2>1
<1>5. Counted(a, FALSE) = Cardinality(upper)
  <2>1. Counted(a, FALSE) = IF a > meta.top THEN 0
                            ELSE IF a < meta.first THEN meta.size
                            ELSE IF a = meta.first THEN Less(meta.size, 1)
                            ELSE Cardinality(upper)
    BY DEF Counted, upper
  <2>. QED
    BY <1>0, <1>1, <1>2, <1>3, <2>1
<1>. QED
  BY <1>4, <1>5 DEF lower, upper

(* XRANGE, XREVRANGE and XLEN up to or from an id say what the rows say,   *)
(* also where stream_range_with_options and stream_len_with_options answer *)
(* from the record alone.                                                  *)
THEOREM ReadsMatch ==
    ASSUME StreamAssumption
    PROVE  Spec => []ReadsExact
<1>1. ASSUME Inv PROVE ReadsExact
  <2>. SUFFICES ASSUME Live, "residue" \notin noted, NEW a \in Ids, NEW b \in Ids
                PROVE  /\ \A ex \in BOOLEAN, count \in Counts :
                             /\ Ranged(a, b, count, FALSE, ex, ex) = FirstOf(Span(a, b, ex), count)
                             /\ Ranged(b, a, count, TRUE, ex, ex) = LastOf(Span(a, b, ex), count)
                       /\ Counted(a, TRUE) = Cardinality({i \in rows : i < a})
                       /\ Counted(a, FALSE) = Cardinality({i \in rows : i > a})
    BY Zenon DEF ReadsExact, Span, LastOf
  <2>1. meta \in Metas /\ meta # Absent /\ rows \in SUBSET Ids /\ Counts \subseteq Nat
    BY <1>1, TypesAt DEF Inv, StreamAssumption
  <2>2. Says(meta, rows)
    BY <1>1, <2>1 DEF Inv, RecordInv
  <2>3. ASSUME NEW ex \in BOOLEAN, NEW count \in Counts
        PROVE  /\ Ranged(a, b, count, FALSE, ex, ex) = FirstOf(Span(a, b, ex), count)
               /\ Ranged(b, a, count, TRUE, ex, ex) = LastOf(Span(a, b, ex), count)
    <3>1. count \in Nat
      BY <2>1
    <3>. QED
      BY <2>1, <2>2, <3>1, RangedExact
  <2>4. /\ Counted(a, TRUE) = Cardinality({i \in rows : i < a})
        /\ Counted(a, FALSE) = Cardinality({i \in rows : i > a})
    BY <2>1, <2>2, CountedExact
  <2>. QED
    BY <2>3, <2>4
<1>. QED
  BY <1>1, Invariance, PTL
=============================================================================
