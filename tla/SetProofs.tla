------------------------------ MODULE SetProofs ------------------------------
(***************************************************************************)
(* Proofs about SetStore, SortedIntStore and ZSetStore for any keys,       *)
(* members, scores, batches of arguments and page size.  Of sets: the size *)
(* in a record is the number of rows, a client that pages through a key    *)
(* misses nothing that stays in it, and both stores implement the sets of  *)
(* RedisSets; the argument about paging rests on how the rank of a member  *)
(* among others changes with them (Ranks).  Of sorted sets: the two kinds  *)
(* of rows belong together, ranges and ranks are read right, and the store *)
(* implements RedisZSets.  Sorted integers are the instance Ints and       *)
(* sorted sets the instance Z, on the same variables.                      *)
(***************************************************************************)
EXTENDS SetStore, Ranks

LEMMA FirstOfIn ==
    ASSUME NEW S, NEW n
    PROVE  /\ FirstOf(S, n) = Firsts(S, n) /\ FirstOf(S, n) \subseteq S
           /\ \A x : x \in FirstOf(S, n) <=> x \in S /\ Cardinality(Below(S, x)) < n
BY DEF FirstOf, Firsts, Below

LEMMA FirstOfBelow ==
    ASSUME NEW S, S \subseteq Nat, IsFiniteSet(S), NEW n \in Nat,
           NEW x \in FirstOf(S, n), NEW y \in S, y <= x
    PROVE  y \in FirstOf(S, n)
<1>1. FirstOf(S, n) = Firsts(S, n)
  BY FirstOfIn
<1>. QED
  BY <1>1, FirstsBelow

LEMMA FirstOfSize ==
    ASSUME NEW S, S \subseteq Nat, IsFiniteSet(S), NEW n \in Nat
    PROVE  /\ IsFiniteSet(FirstOf(S, n)) /\ Cardinality(FirstOf(S, n)) \in 0 .. n
           /\ FirstOf(S, n) # S => Cardinality(FirstOf(S, n)) = n
<1>1. FirstOf(S, n) = Firsts(S, n)
  BY FirstOfIn
<1>. QED
  BY <1>1, FirstsSize

LEMMA TopOf ==
    ASSUME NEW S, S \subseteq Nat, IsFiniteSet(S), S # {}
    PROVE  Top(S) \in S /\ \A x \in S : x <= Top(S)
BY GreatestOf DEF Top

----------------------------------------------------------------------------
(* What a step writes at one key.                                          *)

\* A record and rows that belong together.
Fits(m, S) ==
    /\ m \in Metas \cup {Absent}
    /\ S \subseteq Members
    /\ IF m = Absent THEN S = {} ELSE m.size > 0 /\ m.size = Cardinality(S)

Sound ==
    /\ meta \in [Keys -> Metas \cup {Absent}]
    /\ row \in [Keys -> SUBSET Members]
    /\ SizeExact

\* The elements a client sees at k are S, and elsewhere what they were.
HeldAt(k, S) == \A i \in Keys : Elements(i)' = IF i = k THEN S ELSE Elements(i)

\* What both kinds assume of members and records.
RowAssumption ==
    /\ Members \subseteq Nat
    /\ IsFiniteSet(Members)
    /\ \A b \in Batches : ToSet(b) \subseteq Members
    /\ Absent \notin Metas

LEMMA SetRows ==
    ASSUME SetAssumption
    PROVE  RowAssumption
<1>1. \A b \in Batches : ToSet(b) \subseteq Members
  BY DEF SetAssumption, ToSet
<1>. QED
  BY <1>1 DEF SetAssumption, RowAssumption

LEMMA MembersFinite ==
    ASSUME RowAssumption, NEW S, S \subseteq Members
    PROVE  /\ IsFiniteSet(S) /\ Cardinality(S) \in Nat /\ S \subseteq Nat
           /\ Cardinality(S) = 0 <=> S = {}
BY FS_Subset, FS_CardinalityType, FS_EmptySet DEF RowAssumption

LEMMA SoundAt ==
    ASSUME RowAssumption, Sound, NEW k \in Keys
    PROVE  /\ Fits(meta[k], row[k]) /\ IsFiniteSet(row[k]) /\ Cardinality(row[k]) \in Nat
           /\ row[k] \subseteq Members
           /\ Elements(k) \subseteq Members /\ Size(k) = Cardinality(Elements(k))
           /\ Live(k) <=> Elements(k) # {}
           /\ Live(k) <=> meta[k] # Absent /\ ~meta[k].lapsed
           /\ Live(k) => meta[k] \in Metas /\ meta[k].size = Cardinality(row[k])
<1>1. Fits(meta[k], row[k]) /\ row[k] \subseteq Members
  BY DEF Sound, SizeExact, Fits
<1>2. IsFiniteSet(row[k]) /\ Cardinality(row[k]) \in Nat /\ (Cardinality(row[k]) = 0 <=> row[k] = {})
  BY <1>1, MembersFinite
<1>3. Live(k) <=> meta[k] # Absent /\ ~meta[k].lapsed
  BY <1>1 DEF Fits, Live
<1>4. CASE Live(k)
  BY <1>1, <1>2, <1>3, <1>4 DEF Fits, Live, Elements, Size
<1>5. CASE ~Live(k)
  BY <1>1, <1>2, <1>3, <1>5, FS_EmptySet DEF Elements, Size
<1>. QED
  BY <1>4, <1>5

\* Every step writes a record and rows that belong together, at one key.
LEMMA Written ==
    ASSUME RowAssumption, Sound, NEW k \in Keys, NEW m, NEW S, Fits(m, S),
           meta' = [meta EXCEPT ![k] = m], row' = [row EXCEPT ![k] = S]
    PROVE  Sound' /\ HeldAt(k, IF m # Absent /\ ~m.lapsed THEN S ELSE {})
<1>1. \A i \in Keys : meta'[i] = (IF i = k THEN m ELSE meta[i]) /\ row'[i] = (IF i = k THEN S ELSE row[i])
  BY DEF Sound
<1>2. Sound'
  BY <1>1 DEF Sound, SizeExact, Fits
<1>3. Live(k)' <=> m # Absent /\ ~m.lapsed
  BY <1>1 DEF Live, Fits
<1>4. \A i \in Keys : i # k => Elements(i)' = Elements(i)
  BY <1>1 DEF Live, Elements
<1>. QED
  BY <1>1, <1>2, <1>3, <1>4 DEF Elements, HeldAt

LEMMA SameCardinality ==
    ASSUME NEW S
    PROVE  Sets!Cardinality(S) = Cardinality(S)
BY Zenon DEF Cardinality, Sets!Cardinality

LEMMA PutHeld ==
    ASSUME NEW k \in Keys, NEW S, NEW r, HeldAt(k, S), ret' = r
    PROVE  Sets!Put(k, S, r)
BY DEF HeldAt, Sets!Put

LEMMA KeptHeld ==
    ASSUME Sound, NEW r, Reply(r)
    PROVE  Sound' /\ Sets!Keep(r) /\ \A k \in Keys : Elements(k)' = Elements(k)
<1>1. \A k \in Keys : Elements(k)' = Elements(k)
  BY DEF Reply, Elements, Live
<1>. QED
  BY <1>1 DEF Sets!Keep, Reply, Sound, SizeExact

LEMMA PutSame ==
    ASSUME NEW k \in Keys, NEW r, Sets!Keep(r)
    PROVE  Sets!Put(k, Elements(k), r)
BY DEF Sets!Keep, Sets!Put

\* commit_set_batch, when the record given counts the rows given.
LEMMA CommitHeld ==
    ASSUME RowAssumption, Sound, NEW k \in Keys, NEW m \in Metas, ~m.lapsed,
           NEW S, S \subseteq Members, m.size = Cardinality(S), NEW r, Commit(k, m, S, r)
    PROVE  Sound' /\ Sets!Put(k, S, r)
<1>. DEFINE n == IF m.size = 0 THEN Absent ELSE m
<1>1. Fits(n, S) /\ (n = Absent => S = {}) /\ (n # Absent => ~n.lapsed)
  <2>1. Cardinality(S) \in Nat /\ (Cardinality(S) = 0 <=> S = {})
    BY MembersFinite
  <2>2. m # Absent /\ m.size \in Nat
    BY DEF RowAssumption, Metas
  <2>3. CASE m.size = 0
    BY <2>1, <2>2, <2>3 DEF Fits
  <2>4. CASE m.size # 0
    BY <2>1, <2>2, <2>4 DEF Fits
  <2>. QED
    BY <2>3, <2>4
<1>2. meta' = [meta EXCEPT ![k] = n] /\ row' = [row EXCEPT ![k] = S] /\ ret' = r
  BY DEF Commit
<1>. HIDE DEF n
<1>3. Sound' /\ HeldAt(k, IF n # Absent /\ ~n.lapsed THEN S ELSE {})
  BY <1>1, <1>2, Written
<1>4. HeldAt(k, S)
  BY <1>1, <1>3
<1>. QED
  BY <1>2, <1>3, <1>4, PutHeld

LEMMA PreparedIs ==
    ASSUME RowAssumption, Sound, NEW k \in Keys
    PROVE  /\ Prepared(k).m \in Metas /\ ~Prepared(k).m.lapsed
           /\ Prepared(k).rows = Elements(k)
           /\ Prepared(k).m.size = Cardinality(Elements(k))
<1>1. CASE Live(k)
  BY <1>1, SoundAt DEF Prepared, Live, Elements
<1>2. CASE ~Live(k)
  BY <1>2, FS_EmptySet DEF Prepared, Metas, Elements
<1>. QED
  BY <1>1, <1>2
----------------------------------------------------------------------------
(* Each command keeps the records sound and does what the plain operation  *)
(* on sets would.                                                          *)

LEMMA GivenIs ==
    ASSUME RowAssumption, NEW b \in Batches
    PROVE  ToSet(b) \subseteq Members /\ Sets!ToSet(b) = ToSet(b)
BY DEF RowAssumption, ToSet, Sets!ToSet

LEMMA AddStep ==
    ASSUME RowAssumption, Sound, NEW k \in Keys, NEW b \in Batches, SAdd(k, b)
    PROVE  Sound' /\ Sets!SAdd(k, b)
<1>. DEFINE E == Elements(k)
            G == ToSet(b)
            new == G \ E
            m == [Prepared(k).m EXCEPT !.size = @ + Cardinality(new)]
<1>1. Prepared(k).m \in Metas /\ ~Prepared(k).m.lapsed /\ Prepared(k).rows = E
      /\ Prepared(k).m.size = Cardinality(E)
  BY PreparedIs
<1>2. G \subseteq Members /\ Sets!ToSet(b) = G /\ E \subseteq Members
  BY GivenIs, SoundAt
<1>3. /\ IsFiniteSet(E) /\ Cardinality(E) \in Nat
      /\ IsFiniteSet(new) /\ Cardinality(new) \in Nat
  BY <1>2, MembersFinite
<1>4. Sets!Put(k, E \cup G, Cardinality(new)) => Sets!SAdd(k, b)
  BY <1>2, SameCardinality DEF Sets!SAdd
<1>5. CASE new = {}
  <2>1. Reply(0)
    BY <1>1, <1>5 DEF SAdd
  <2>2. Sound' /\ Sets!Put(k, E, 0)
    BY <2>1, KeptHeld, PutSame
  <2>3. E \cup G = E /\ Cardinality(new) = 0
    BY <1>5, FS_EmptySet
  <2>. QED
    BY <1>4, <2>2, <2>3
<1>6. CASE new # {}
  <2>1. Commit(k, m, E \cup new, Cardinality(new))
    BY <1>1, <1>6 DEF SAdd
  <2>2. E \cup new = E \cup G /\ Cardinality(E \cup new) = Cardinality(E) + Cardinality(new)
    <3>1. E \cap new = {} /\ E \cup new = E \cup G
      OBVIOUS
    <3>. HIDE DEF E, new, G
    <3>2. Cardinality(E \cup new) = Cardinality(E) + Cardinality(new) - Cardinality(E \cap new)
      BY <1>3, FS_Union
    <3>3. Cardinality(E \cap new) = 0
      BY <3>1, FS_EmptySet
    <3>. QED
      BY <1>3, <3>1, <3>2, <3>3
  <2>3. m \in Metas /\ ~m.lapsed /\ m.size = Cardinality(E \cup new)
    BY <1>1, <1>3, <2>2 DEF Metas
  <2>4. E \cup new \subseteq Members
    BY <1>2
  <2>. HIDE DEF m, E, new, G
  <2>5. Sound' /\ Sets!Put(k, E \cup new, Cardinality(new))
    BY <2>1, <2>3, <2>4, CommitHeld
  <2>. QED
    BY <1>4, <2>2, <2>5
<1>. QED
  BY <1>5, <1>6

\* Removing rows, and counting them off the record.
LEMMA Removed ==
    ASSUME RowAssumption, Sound, NEW k \in Keys, Live(k), NEW S, S \subseteq row[k], NEW r,
           Commit(k, [meta[k] EXCEPT !.size = Less(@, Cardinality(S))], row[k] \ S, r)
    PROVE  Sound' /\ Sets!Put(k, Elements(k) \ S, r)
<1>. DEFINE m == [meta[k] EXCEPT !.size = Less(@, Cardinality(S))]
<1>1. /\ row[k] \subseteq Members /\ Elements(k) = row[k] /\ ~meta[k].lapsed
      /\ meta[k] \in Metas /\ meta[k].size = Cardinality(row[k])
  BY SoundAt DEF Elements
<1>2. /\ IsFiniteSet(row[k]) /\ Cardinality(row[k]) \in Nat
      /\ IsFiniteSet(S) /\ Cardinality(S) \in Nat /\ Cardinality(row[k] \ S) \in Nat
  <2>1. S \subseteq Members /\ row[k] \ S \subseteq Members
    BY <1>1
  <2>. QED
    BY <1>1, <2>1, MembersFinite
<1>3. Cardinality(row[k] \ S) = Cardinality(row[k]) - Cardinality(S)
  <2>1. row[k] \cap S = S
    OBVIOUS
  <2>. QED
    BY <1>2, <2>1, FS_Difference
<1>4. m \in Metas /\ ~m.lapsed /\ m.size = Cardinality(row[k] \ S)
  BY <1>1, <1>2, <1>3 DEF Metas, Less
<1>5. row[k] \ S \subseteq Members
  BY <1>1
<1>6. Commit(k, m, row[k] \ S, r)
  OBVIOUS
<1>. HIDE DEF m
<1>. QED
  BY <1>1, <1>4, <1>5, <1>6, CommitHeld

LEMMA RemoveStep ==
    ASSUME RowAssumption, Sound, NEW k \in Keys, NEW b \in Batches, SRem(k, b)
    PROVE  Sound' /\ Sets!SRem(k, b)
<1>. DEFINE gone == ToSet(b) \cap Elements(k)
<1>1. Sets!ToSet(b) = ToSet(b)
  BY GivenIs
<1>2. Sets!Put(k, Elements(k) \ gone, Cardinality(gone)) => Sets!SRem(k, b)
  <2>1. Elements(k) \ gone = Elements(k) \ ToSet(b)
    OBVIOUS
  <2>. QED
    BY <1>1, <2>1, SameCardinality DEF Sets!SRem
<1>3. CASE gone = {}
  <2>1. Reply(0)
    BY <1>3 DEF SRem
  <2>2. Sound' /\ Sets!Put(k, Elements(k), 0)
    BY <2>1, KeptHeld, PutSame
  <2>3. Elements(k) \ gone = Elements(k) /\ Cardinality(gone) = 0
    BY <1>3, FS_EmptySet
  <2>. QED
    BY <1>2, <2>2, <2>3
<1>4. CASE gone # {}
  <2>1. Commit(k, [meta[k] EXCEPT !.size = Less(@, Cardinality(gone))], row[k] \ gone,
               Cardinality(gone))
    BY <1>4 DEF SRem
  <2>2. Live(k) /\ gone \subseteq row[k]
    BY <1>4 DEF Elements
  <2>. HIDE DEF gone
  <2>3. Sound' /\ Sets!Put(k, Elements(k) \ gone, Cardinality(gone))
    BY <2>1, <2>2, Removed
  <2>. QED
    BY <1>2, <2>3
<1>. QED
  BY <1>3, <1>4

\* There is one member at each rank.
LEMMA OneAtRank ==
    ASSUME NEW S, S \subseteq Nat, IsFiniteSet(S), NEW i \in Nat, i < Cardinality(S)
    PROVE  \E x \in S : AtRank(S, i) = {x}
<1>0. \A z \in S : z \in Nat
  OBVIOUS
<1>1. \A x : x \in AtRank(S, i) <=> x \in S /\ Cardinality(Below(S, x)) = i
  BY DEF AtRank, Below
<1>2. \E x \in S : Cardinality(Below(S, x)) = i
  <2>1. /\ Cardinality(FirstOf(S, i)) \in 0 .. i
        /\ FirstOf(S, i + 1) # S => Cardinality(FirstOf(S, i + 1)) = i + 1
    <3>1. i + 1 \in Nat
      OBVIOUS
    <3>. QED
      BY <3>1, FirstOfSize
  <2>2. FirstOf(S, i) # FirstOf(S, i + 1)
    BY <2>1
  <2>3. \A x \in S : Cardinality(Below(S, x)) \in Nat
    BY FiniteRank
  <2>4. ASSUME NEW x \in FirstOf(S, i) PROVE x \in FirstOf(S, i + 1)
    <3>1. x \in S /\ Cardinality(Below(S, x)) < i
      BY FirstOfIn
    <3>2. Cardinality(Below(S, x)) < i + 1
      BY <2>3, <3>1
    <3>. QED
      BY <3>1, <3>2, FirstOfIn
  <2>5. PICK x \in FirstOf(S, i + 1) : x \notin FirstOf(S, i)
    <3>1. FirstOf(S, i) \subseteq FirstOf(S, i + 1)
      BY <2>4
    <3>. QED
      BY <2>2, <3>1
  <2>6. x \in S /\ Cardinality(Below(S, x)) < i + 1 /\ ~(Cardinality(Below(S, x)) < i)
    BY <2>5, FirstOfIn
  <2>. QED
    BY <2>3, <2>6
<1>3. PICK x \in S : Cardinality(Below(S, x)) = i
  BY <1>2
<1>4. ASSUME NEW y \in S, Cardinality(Below(S, y)) = i PROVE y = x
  <2>1. x \in Nat /\ y \in Nat
    BY <1>0
  <2>2. x < y => i < i
    BY <1>3, <1>4, <2>1, RankOrder
  <2>3. y < x => i < i
    BY <1>3, <1>4, <2>1, RankOrder
  <2>. QED
    BY <2>1, <2>2, <2>3
<1>5. AtRank(S, i) = {x}
  BY <1>1, <1>3, <1>4
<1>. QED
  BY <1>5

LEMMA PopStep ==
    ASSUME SetAssumption, RowAssumption, Sound, NEW k \in Keys, NEW n \in Counts, SPop(k, n)
    PROVE  Sound' /\ Sets!SPop(k, n)
<1>. DEFINE E == Elements(k)
            c == IF n < Cardinality(E) THEN n ELSE Cardinality(E)
<1>1. /\ E \subseteq Members /\ IsFiniteSet(E) /\ Cardinality(E) \in Nat /\ E \subseteq Nat
      /\ Cardinality(E) = 0 <=> E = {}
      /\ n \in Nat /\ n > 0
  BY SoundAt, MembersFinite DEF SetAssumption
<1>2. ASSUME NEW S, S \subseteq E, Cardinality(S) = c, Sets!Put(k, E \ S, S)
      PROVE  Sets!SPop(k, n)
  BY <1>2, SameCardinality DEF Sets!SPop
<1>3. ASSUME E = {}, Reply({}) PROVE Sound' /\ Sets!SPop(k, n)
  <2>1. Sound' /\ Sets!Put(k, E, {})
    BY <1>3, KeptHeld, PutSame
  <2>2. E \ {} = E /\ Cardinality({}) = c
    BY <1>1, <1>3, FS_EmptySet
  <2>. QED
    BY <1>2, <2>1, <2>2
<1>4. CASE n = 1
  <2>1. PopOne(k)
    BY <1>4 DEF SPop
  <2>2. ASSUME Live(k), NEW target \in 0 .. (Size(k) - 1),
               NEW hit, hit = AtRank(row[k], target),
               IF hit = {} THEN Reply({})
               ELSE Commit(k, [meta[k] EXCEPT !.size = Less(@, 1)], row[k] \ hit, hit)
        PROVE  Sound' /\ Sets!SPop(k, n)
    <3>1. row[k] = E /\ target \in Nat /\ target < Cardinality(E)
      BY <1>1, <2>2, SoundAt DEF Elements
    <3>2. PICK x \in E : hit = {x}
      BY <1>1, <2>2, <3>1, OneAtRank
    <3>3. Cardinality(hit) = 1 /\ c = 1
      <4>1. Cardinality(hit) = 1
        BY <3>2, FS_Singleton
      <4>2. c = 1
        BY <1>1, <1>4, <3>1
      <4>. QED
        BY <4>1, <4>2
    <3>4. Commit(k, [meta[k] EXCEPT !.size = Less(@, Cardinality(hit))], row[k] \ hit, hit)
      BY <2>2, <3>2, <3>3
    <3>5. hit \subseteq row[k] /\ hit \subseteq E
      BY <3>1, <3>2
    <3>6. Sound' /\ Sets!Put(k, E \ hit, hit)
      BY <2>2, <3>4, <3>5, Removed
    <3>. QED
      BY <1>2, <3>3, <3>5, <3>6
  <2>. QED
    BY <1>3, <2>1, <2>2, SoundAt DEF PopOne
<1>5. CASE n # 1
  <2>1. PopMany(k, n)
    BY <1>5 DEF SPop
  <2>2. E # {} => Live(k) /\ row[k] = E
    BY DEF Elements
  <2>3. ASSUME E # {}, n >= Cardinality(row[k]),
               Commit(k, [meta[k] EXCEPT !.size = 0], {}, row[k])
        PROVE  Sound' /\ Sets!SPop(k, n)
    <3>1. /\ [meta[k] EXCEPT !.size = 0] \in Metas
          /\ ~[meta[k] EXCEPT !.size = 0].lapsed
          /\ [meta[k] EXCEPT !.size = 0].size = Cardinality({})
      BY <2>2, <2>3, SoundAt, FS_EmptySet DEF Metas
    <3>2. Sound' /\ Sets!Put(k, {}, row[k])
      BY <2>3, <3>1, CommitHeld
    <3>3. E \ E = {} /\ Cardinality(E) = c
      BY <1>1, <2>2, <2>3
    <3>. QED
      BY <1>2, <2>2, <2>3, <3>2, <3>3
  <2>4. ASSUME E # {}, n < Cardinality(row[k]), NEW S \in SUBSET row[k], Cardinality(S) = n,
               Commit(k, [meta[k] EXCEPT !.size = Less(@, n)], row[k] \ S, S)
        PROVE  Sound' /\ Sets!SPop(k, n)
    <3>1. Sound' /\ Sets!Put(k, E \ S, S)
      BY <2>2, <2>4, Removed
    <3>2. Cardinality(S) = c /\ S \subseteq E
      BY <2>2, <2>4
    <3>. QED
      BY <1>2, <3>1, <3>2
  <2>. QED
    BY <1>3, <2>1, <2>3, <2>4 DEF PopMany
<1>. QED
  BY <1>4, <1>5

\* SMOVE writes two keys at once.
LEMMA WrittenBoth ==
    ASSUME SetAssumption, RowAssumption, Sound, NEW s \in Keys, NEW d \in Keys, s # d,
           NEW ms, NEW S, Fits(ms, S), NEW md, NEW D, Fits(md, D),
           meta' = [meta EXCEPT ![s] = ms, ![d] = md], row' = [row EXCEPT ![s] = S, ![d] = D]
    PROVE  /\ Sound'
           /\ Elements(s)' = IF ms # Absent /\ ~ms.lapsed THEN S ELSE {}
           /\ Elements(d)' = IF md # Absent /\ ~md.lapsed THEN D ELSE {}
           /\ \A i \in Keys \ {s, d} : Elements(i)' = Elements(i)
<1>1. \A i \in Keys :
         /\ meta'[i] = IF i = s THEN ms ELSE IF i = d THEN md ELSE meta[i]
         /\ row'[i] = IF i = s THEN S ELSE IF i = d THEN D ELSE row[i]
  BY DEF Sound
<1>2. Sound'
  BY <1>1 DEF Sound, SizeExact, Fits
<1>3. meta'[s] = ms /\ row'[s] = S /\ meta'[d] = md /\ row'[d] = D
  BY <1>1
<1>3a. Live(s)' <=> ms # Absent /\ ~ms.lapsed
  BY <1>3 DEF Live, Fits
<1>3b. Live(d)' <=> md # Absent /\ ~md.lapsed
  BY <1>3 DEF Live, Fits
<1>4. \A i \in Keys \ {s, d} : Elements(i)' = Elements(i)
  BY <1>1 DEF Live, Elements
<1>. QED
  BY <1>2, <1>3, <1>3a, <1>3b, <1>4 DEF Elements

LEMMA MoveStep ==
    ASSUME SetAssumption, RowAssumption, Sound, NEW s \in Keys, NEW d \in Keys, NEW m \in Members, SMove(s, d, m)
    PROVE  Sound' /\ Sets!SMove(s, d, m)
<1>1. CASE m \notin Elements(s) /\ Reply(0)
  BY <1>1, KeptHeld DEF Sets!SMove
<1>2. CASE m \in Elements(s) /\ s = d /\ Reply(1)
  BY <1>2, KeptHeld DEF Sets!SMove
<1>3. CASE m \in Elements(s) /\ s # d /\ Transfer(s, d, m)
  <2>. DEFINE left == Less(Size(s), 1)
              p == Prepared(d)
              ms == IF left = 0 THEN Absent ELSE [meta[s] EXCEPT !.size = left]
              S == row[s] \ {m}
              md == IF m \notin p.rows THEN [p.m EXCEPT !.size = @ + 1] ELSE meta[d]
              D == p.rows \cup {m}
  <2>1. /\ Live(s) /\ Elements(s) = row[s] /\ row[s] \subseteq Members
        /\ meta[s] \in Metas /\ ~meta[s].lapsed
        /\ Size(s) = Cardinality(row[s]) /\ Cardinality(row[s]) \in Nat
        /\ m \in row[s] /\ IsFiniteSet(row[s])
    BY <1>3, SoundAt DEF Elements
  <2>2. Fits(ms, S) /\ (ms = Absent => S = {}) /\ (ms # Absent => ~ms.lapsed)
    <3>1. S \subseteq Members
      BY <2>1
    <3>2. Cardinality(S) \in Nat /\ (Cardinality(S) = 0 <=> S = {})
      <4>. HIDE DEF S
      <4>. QED
        BY <3>1, MembersFinite
    <3>3. Cardinality(S) = Cardinality(row[s]) - 1
      BY <2>1, FS_RemoveElement
    <3>4. left = Cardinality(S)
      BY <2>1, <3>2, <3>3 DEF Less
    <3>. HIDE DEF S, left
    <3>5. CASE left = 0
      BY <3>1, <3>2, <3>4, <3>5 DEF Fits
    <3>6. CASE left # 0
      <4>1. /\ ms \in Metas /\ ms.size = left /\ ~ms.lapsed
            /\ ms # Absent
        BY <2>1, <3>2, <3>4, <3>6 DEF Metas, SetAssumption
      <4>. QED
        BY <3>1, <3>2, <3>4, <3>6, <4>1 DEF Fits
    <3>. QED
      BY <3>5, <3>6
  <2>3. /\ p.m \in Metas /\ ~p.m.lapsed /\ p.rows = Elements(d)
        /\ p.m.size = Cardinality(Elements(d))
        /\ Elements(d) \subseteq Members
    BY PreparedIs, SoundAt
  <2>4. IsFiniteSet(Elements(d)) /\ Cardinality(Elements(d)) \in Nat
    BY <2>3, MembersFinite
  <2>5. Fits(md, D) /\ md # Absent /\ ~md.lapsed
    <3>1. CASE m \notin p.rows
      <4>1. D \subseteq Members /\ Cardinality(D) = Cardinality(Elements(d)) + 1
        BY <2>3, <2>4, <3>1, FS_AddElement
      <4>2. md \in Metas /\ md.size = Cardinality(D) /\ ~md.lapsed /\ md # Absent
        BY <2>3, <2>4, <3>1, <4>1 DEF Metas, SetAssumption
      <4>. HIDE DEF D, md
      <4>. QED
        BY <2>4, <4>1, <4>2 DEF Fits
    <3>2. CASE m \in p.rows
      <4>1. Live(d) /\ D = row[d] /\ md = meta[d]
        BY <2>3, <3>2 DEF Elements
      <4>. HIDE DEF D, md
      <4>. QED
        BY <4>1, SoundAt
    <3>. QED
      BY <3>1, <3>2
  <2>6. /\ meta' = [meta EXCEPT ![s] = ms, ![d] = md]
        /\ row' = [row EXCEPT ![s] = S, ![d] = D]
        /\ ret' = 1
    BY <1>3 DEF Transfer, Sound
  <2>. HIDE DEF ms, md
  <2>7. /\ Sound'
        /\ Elements(s)' = S /\ Elements(d)' = D
        /\ \A i \in Keys \ {s, d} : Elements(i)' = Elements(i)
    <3>. HIDE DEF S, D, p, left
    <3>1. /\ Sound'
          /\ Elements(s)' = IF ms # Absent /\ ~ms.lapsed THEN S ELSE {}
          /\ Elements(d)' = IF md # Absent /\ ~md.lapsed THEN D ELSE {}
          /\ \A i \in Keys \ {s, d} : Elements(i)' = Elements(i)
      BY <1>3, <2>2, <2>5, <2>6, WrittenBoth
    <3>. QED
      BY <2>2, <2>5, <3>1
  <2>8. Elements(s)' = Elements(s) \ {m} /\ Elements(d)' = Elements(d) \cup {m}
    BY <2>1, <2>3, <2>7
  <2>. QED
    BY <1>3, <2>6, <2>7, <2>8 DEF Sets!SMove
<1>. QED
  BY <1>1, <1>2, <1>3 DEF SMove

LEMMA CombinedSame ==
    ASSUME SetAssumption, RowAssumption, Sound, NEW op \in Ops, NEW ks \in Operands
    PROVE  /\ Combined(op, ks) = Sets!Combined(op, ks)
           /\ Combined(op, ks) \subseteq Members
           /\ Len(ks) = 1 => Combined(op, ks) = Elements(ks[1])
           /\ ks[1] \in Keys
<1>1. Len(ks) \in Nat /\ Len(ks) >= 1 /\ \A i \in 1 .. Len(ks) : ks[i] \in Keys
  BY DEF SetAssumption
<1>2. \A k \in Keys : /\ Elements(k) \subseteq Members
                      /\ Size(k) = 0 <=> Elements(k) = {}
                      /\ Size(k) > 0 \/ Elements(k) = {}
  <2>. SUFFICES ASSUME NEW k \in Keys
                PROVE  /\ Elements(k) \subseteq Members
                       /\ Size(k) = 0 <=> Elements(k) = {}
                       /\ Size(k) > 0 \/ Elements(k) = {}
    OBVIOUS
  <2>1. Elements(k) \subseteq Members /\ Size(k) = Cardinality(Elements(k))
    BY SoundAt
  <2>2. Cardinality(Elements(k)) \in Nat /\ (Cardinality(Elements(k)) = 0 <=> Elements(k) = {})
    BY <2>1, MembersFinite
  <2>. QED
    BY <2>1, <2>2
<1>3. \A i \in 1 .. Len(ks) : /\ Elements(ks[i]) \subseteq Members
                              /\ Size(ks[i]) = 0 <=> Elements(ks[i]) = {}
                              /\ Size(ks[i]) > 0 \/ Elements(ks[i]) = {}
  BY <1>1, <1>2
<1>4. 1 \in 1 .. Len(ks) /\ \A i : i \in 1 .. Len(ks) => i = 1 \/ i \in 2 .. Len(ks)
  BY <1>1
<1>4a. \A i \in 2 .. Len(ks) : i \in 1 .. Len(ks)
  BY <1>1
<1>4b. Len(ks) = 1 => /\ \A i : i \notin 2 .. Len(ks)
                      /\ \A i \in 1 .. Len(ks) : i = 1
  OBVIOUS
<1>4c. \A i \in 1 .. Len(ks) : ks[i] \in Keys /\ [k \in Keys |-> Elements(k)][ks[i]] = Elements(ks[i])
  BY <1>1
<1>5. CASE op = "inter"
  <2>1. Combined(op, ks) = Inter(ks)
    BY <1>5 DEF Combined
  <2>2. Sets!Combined(op, ks) = {m \in Members : \A i \in 1 .. Len(ks) : m \in Elements(ks[i])}
    BY <1>4c, <1>5 DEF Sets!Combined
  <2>3. \A m : m \in Inter(ks) <=> m \in Members /\ \A i \in 1 .. Len(ks) : m \in Elements(ks[i])
    BY <1>3, <1>4, <1>4a DEF Inter
  <2>4. Inter(ks) \subseteq Members /\ Inter(ks) = Sets!Combined(op, ks)
    BY <2>2, <2>3
  <2>5. Len(ks) = 1 => \A m : m \in Inter(ks) <=> m \in Elements(ks[1])
    BY <1>3, <1>4, <1>4b, <2>3
  <2>. QED
    BY <1>1, <1>4, <2>1, <2>4, <2>5
<1>6. CASE op = "union"
  <2>1. Combined(op, ks) = Union(ks)
    BY <1>6 DEF Combined
  <2>2. Sets!Combined(op, ks) = {m \in Members : \E i \in 1 .. Len(ks) : m \in Elements(ks[i])}
    BY <1>4c, <1>6 DEF Sets!Combined
  <2>3. \A m : m \in Union(ks) <=> \E i \in 1 .. Len(ks) : m \in Elements(ks[i])
    BY DEF Union
  <2>4. \A m : m \in Union(ks) => m \in Members
    BY <1>3, <2>3
  <2>5. Len(ks) = 1 => \A m : m \in Union(ks) <=> m \in Elements(ks[1])
    BY <1>4, <1>4b, <2>3
  <2>6. \A m : m \in Union(ks) <=> m \in Sets!Combined(op, ks)
    BY <2>2, <2>3, <2>4
  <2>. QED
    BY <1>1, <1>4, <2>1, <2>4, <2>5, <2>6
<1>7. CASE op = "diff"
  <2>1. Combined(op, ks) = Diff(ks)
    BY <1>7 DEF Combined
  <2>2. Sets!Combined(op, ks) = {m \in Elements(ks[1]) : \A i \in 2 .. Len(ks) : m \notin Elements(ks[i])}
    BY <1>4, <1>4a, <1>4c, <1>7 DEF Sets!Combined
  <2>3. \A m : m \in Diff(ks) <=> m \in Elements(ks[1]) /\ \A i \in 2 .. Len(ks) : m \notin Elements(ks[i])
    <3>1. \A i \in 2 .. Len(ks) : Size(ks[i]) > 0 \/ Elements(ks[i]) = {}
      BY <1>3, <1>4a
    <3>2. Size(ks[1]) = 0 => Elements(ks[1]) = {}
      BY <1>3, <1>4
    <3>. QED
      BY <3>1, <3>2 DEF Diff
  <2>. QED
    BY <1>1, <1>3, <1>4, <1>4b, <2>1, <2>2, <2>3
<1>. QED
  BY <1>5, <1>6, <1>7 DEF Ops

LEMMA StoreStep ==
    ASSUME SetAssumption, RowAssumption, Sound, NEW op \in Ops, NEW d \in Keys, NEW ks \in Operands,
           Store(op, d, ks)
    PROVE  Sound' /\ Sets!Store(op, d, ks)
<1>. DEFINE S == Combined(op, ks)
            m == IF S = {} THEN Absent ELSE [size |-> Cardinality(S), lapsed |-> FALSE]
<1>1. S = Sets!Combined(op, ks) /\ S \subseteq Members
  BY CombinedSame
<1>2. /\ meta' = [meta EXCEPT ![d] = m] /\ row' = [row EXCEPT ![d] = S]
      /\ ret' = Cardinality(S)
  BY DEF Store, Overwrite
<1>. HIDE DEF S
<1>3. Cardinality(S) \in Nat /\ (Cardinality(S) = 0 <=> S = {})
  BY <1>1, MembersFinite
<1>4. Fits(m, S) /\ (m = Absent => S = {}) /\ (m # Absent => ~m.lapsed)
  <2>1. CASE S = {}
    BY <1>1, <2>1 DEF Fits
  <2>2. CASE S # {}
    <3>1. m = [size |-> Cardinality(S), lapsed |-> FALSE]
      BY <2>2
    <3>. HIDE DEF m
    <3>2. m \in Metas /\ m.size = Cardinality(S) /\ ~m.lapsed
      BY <1>3, <3>1 DEF Metas
    <3>3. m # Absent
      BY <3>2 DEF SetAssumption
    <3>. QED
      BY <1>1, <1>3, <2>2, <3>2, <3>3 DEF Fits
  <2>. QED
    BY <2>1, <2>2
<1>. HIDE DEF m
<1>5. Sound' /\ HeldAt(d, IF m # Absent /\ ~m.lapsed THEN S ELSE {})
  BY <1>2, <1>4, Written
<1>6. HeldAt(d, S)
  BY <1>4, <1>5
<1>7. Sets!Put(d, S, Cardinality(S))
  BY <1>2, <1>6, PutHeld
<1>. QED
  BY <1>1, <1>5, <1>7, SameCardinality DEF Sets!Store

\* An expiry, a DEL or the sweep: the key is empty afterwards.
LEMMA VanishStep ==
    ASSUME RowAssumption, Sound, NEW k \in Keys, Lapse(k) \/ Erase(k)
    PROVE  Sound' /\ Sets!Put(k, {}, ret)
<1>1. ASSUME Lapse(k) PROVE Sound' /\ HeldAt(k, {}) /\ ret' = ret
  <2>. DEFINE m == [meta[k] EXCEPT !.lapsed = TRUE]
  <2>1. Fits(meta[k], row[k]) /\ meta[k] \in Metas
    BY <1>1, SoundAt DEF Lapse
  <2>2. m \in Metas /\ m.size = meta[k].size /\ m.lapsed /\ m # Absent
    BY <2>1 DEF Metas, RowAssumption
  <2>3. meta' = [meta EXCEPT ![k] = m] /\ row' = [row EXCEPT ![k] = row[k]] /\ ret' = ret
    BY <1>1 DEF Lapse, Sound
  <2>. HIDE DEF m
  <2>4. Fits(m, row[k])
    BY <2>1, <2>2 DEF Fits, RowAssumption
  <2>. QED
    BY <2>2, <2>3, <2>4, Written
<1>2. ASSUME Erase(k) PROVE Sound' /\ HeldAt(k, {}) /\ ret' = ret
  <2>1. Fits(Absent, {})
    BY DEF Fits
  <2>. QED
    BY <1>2, <2>1, Written DEF Erase
<1>3. Sound' /\ HeldAt(k, {}) /\ ret' = ret
  BY <1>1, <1>2
<1>. QED
  BY <1>3, PutHeld

LEMMA CardStep ==
    ASSUME SetAssumption, RowAssumption, Sound, NEW op \in Ops, NEW ks \in Operands, NEW limit,
           Reply(Card(op, ks, limit))
    PROVE  Sound' /\ Sets!Card(op, ks, limit)
<1>1. /\ Combined(op, ks) = Sets!Combined(op, ks) /\ ks[1] \in Keys
      /\ Len(ks) = 1 => Combined(op, ks) = Elements(ks[1])
  BY CombinedSame
<1>2. Size(ks[1]) = Cardinality(Elements(ks[1]))
  BY <1>1, SoundAt
<1>3. (IF Len(ks) = 1 THEN Size(ks[1]) ELSE Cardinality(Combined(op, ks)))
         = Sets!Cardinality(Sets!Combined(op, ks))
  BY <1>1, <1>2, SameCardinality
<1>4. Sound' /\ Sets!Keep(Card(op, ks, limit))
  BY KeptHeld
<1>. QED
  BY <1>3, <1>4 DEF Card, Sets!Card

----------------------------------------------------------------------------
(* The whole of Next.                                                      *)

LEMMA InitSound ==
    ASSUME Init
    PROVE  Sound
BY DEF Init, Sound, SizeExact

\* A call of one key is the call of the plain set, with the same arguments.
LEMMA CallStep ==
    ASSUME SetAssumption, RowAssumption, Sound, NEW k \in Keys, Call(k)
    PROVE  Sound' /\ Sets!SetCall
<1>1. ASSUME NEW b \in Batches, asked' = <<"add", k, b>>, SAdd(k, b)
      PROVE  Sound' /\ Sets!SetCall
  BY <1>1, AddStep DEF Sets!SetCall
<1>2. ASSUME NEW b \in Batches, asked' = <<"remove", k, b>>, SRem(k, b)
      PROVE  Sound' /\ Sets!SetCall
  BY <1>2, RemoveStep DEF Sets!SetCall
<1>3. ASSUME NEW n \in Counts, asked' = <<"pop", k, n>>, SPop(k, n)
      PROVE  Sound' /\ Sets!SetCall
  BY <1>3, PopStep DEF Sets!SetCall
<1>4. ASSUME NEW d \in Keys, NEW m \in Members, asked' = <<"move", k, d, m>>, SMove(k, d, m)
      PROVE  Sound' /\ Sets!SetCall
  BY <1>4, MoveStep DEF Sets!SetCall
<1>5. ASSUME NEW op \in Ops, NEW ks \in Operands, asked' = <<"store", op, k, ks>>,
             Store(op, k, ks)
      PROVE  Sound' /\ Sets!SetCall
  <2>1. op \in Sets!Ops
    BY DEF Ops, Sets!Ops
  <2>. QED
    BY <1>5, <2>1, StoreStep DEF Sets!SetCall
<1>6. ASSUME asked' = <<"vanish", k>>, Lapse(k) \/ Erase(k)
      PROVE  Sound' /\ Sets!SetCall
  BY <1>6, VanishStep DEF Sets!SetCall
<1>. QED
  BY <1>1, <1>2, <1>3, <1>4, <1>5, <1>6 DEF Call

LEMMA NextSound ==
    ASSUME SetAssumption, RowAssumption, Sound, [Next]_vars
    PROVE  Sound' /\ [Sets!SetNext]_(Sets!vars)
<1>1. ASSUME NEW k \in Keys, Call(k)
      PROVE  Sound' /\ Sets!SetNext
  BY <1>1, CallStep DEF Sets!SetNext
<1>2. ASSUME CallCard
      PROVE  Sound' /\ Sets!SetNext
  <2>1. PICK op \in Ops, ks \in Operands, n \in Counts \cup {0} :
           asked' = <<"card", op, ks, n>> /\ Reply(Card(op, ks, n))
    BY <1>2 DEF CallCard
  <2>2. op \in Sets!Ops
    BY DEF Ops, Sets!Ops
  <2>. QED
    BY <2>1, <2>2, CardStep DEF Sets!SetNext
<1>3. ASSUME UNCHANGED <<meta, row, asked, ret>>
      PROVE  Sound' /\ UNCHANGED Sets!vars
  <2>1. \A k \in Keys : Elements(k)' = Elements(k)
    BY <1>3 DEF Elements, Live
  <2>. QED
    BY <1>3, <2>1 DEF Sound, SizeExact, Sets!vars
<1>4. CASE Next
  <2>1. (\E k \in Keys : Call(k)) \/ CallCard \/ UNCHANGED <<meta, row, asked, ret>>
    BY <1>4 DEF Next, ScanBegin, ScanStep
  <2>. QED
    BY <1>1, <1>2, <1>3, <2>1
<1>5. CASE UNCHANGED vars
  BY <1>3, <1>5 DEF vars
<1>. QED
  BY <1>4, <1>5

(* The size SCARD answers and SPOP draws from is the number of rows under  *)
(* the record, no record counts none, and no row lies without a record,    *)
(* whatever keys, members and batches: an expired set loses its rows when  *)
(* it is written again (prepare_set_meta_for_write), and an emptied one    *)
(* its record (commit_set_batch).                                          *)
THEOREM SizesExact ==
    ASSUME SetAssumption
    PROVE  Spec => []SizeExact
<1>1. Init => Sound
  BY InitSound
<1>2. Sound /\ [Next]_vars => Sound'
  BY NextSound, SetRows
<1>3. Sound => SizeExact
  BY DEF Sound
<1>. QED
  BY <1>1, <1>2, <1>3, PTL DEF Spec

(* Every command of the store does to the sets a client sees, and answers, *)
(* what the same command with the same arguments does on plain sets: over  *)
(* the rows of an expired set, with a destination among its own operands,  *)
(* and when a row is looked for by the rank drawn from the record's size.  *)
THEOREM StoreImplementsRedisSets ==
    ASSUME SetAssumption
    PROVE  Spec => ImplementsRedisSets
<1>1. Init => Sound /\ Sets!Init
  <2>. SUFFICES ASSUME Init PROVE Sound /\ Sets!Init
    OBVIOUS
  <2>1. \A k \in Keys : Elements(k) = {}
    BY DEF Init, Elements
  <2>. QED
    BY <2>1, InitSound DEF Init, Sets!Init
<1>2. Sound /\ [Next]_vars => Sound' /\ [Sets!SetNext]_(Sets!vars)
  BY NextSound, SetRows
<1>. QED
  BY <1>1, <1>2, PTL DEF Spec, ImplementsRedisSets
----------------------------------------------------------------------------
(* The paging client.                                                      *)

Scans == [by : {"member", "position"}, key : Keys \cup {Absent}, next : Nat,
          seen : SUBSET Members, due : SUBSET Members, shrunk : BOOLEAN, over : BOOLEAN]

\* A scan under way over the elements E: of what is due, what lies before the
\* cursor has been seen.
Follows(s, E) ==
    /\ s.due \subseteq E
    /\ s.by = "member" => \A x \in s.due : x <= s.next => x \in s.seen
    /\ s.by = "position" /\ ~s.shrunk => FirstOf(E, s.next) \cap s.due \subseteq s.seen

Complete(s) == (s.by = "member" \/ ~s.shrunk) => s.due \subseteq s.seen

ScanSound ==
    /\ scan \in Scans
    /\ scan.over => Complete(scan)
    /\ ~scan.over => scan.key \in Keys /\ Follows(scan, Elements(scan.key))

\* What a page and a change of the set make of a scan s over the elements E.
ByMember(E, s, t) ==
    \E page, n : \E o \in BOOLEAN :
        /\ page = FirstOf({x \in E : x > s.next}, PageSize)
        /\ n = IF page = {} THEN 0 ELSE Top(page)
        /\ o = (Cardinality(page) < PageSize)
        /\ t = [s EXCEPT !.seen = @ \cup page, !.next = n, !.over = o]

ByPosition(E, s, t) ==
    \E before, page : \E o \in BOOLEAN :
        /\ before = FirstOf(E, s.next) /\ page = FirstOf(E \ before, PageSize)
        /\ o = (E = before \cup page)
        /\ t = [s EXCEPT !.seen = @ \cup page, !.next = @ + Cardinality(page), !.over = o]

Changed(E, F, s, t) ==
    \E z \in BOOLEAN : /\ z = (s.shrunk \/ ~(E \subseteq F))
                       /\ t = [s EXCEPT !.due = @ \cap F, !.shrunk = z]

\* A page by member: what lies above the cursor and not above the page's top
\* is on the page.
LEMMA PageByMember ==
    ASSUME SetAssumption, RowAssumption, NEW E, E \subseteq Members, NEW s \in Scans, s.by = "member",
           Follows(s, E), NEW t, ByMember(E, s, t)
    PROVE  /\ t \in Scans /\ t.key = s.key
           /\ t.over => Complete(t)
           /\ ~t.over => Follows(t, E)
<1>0. PICK page, n : \E o \in BOOLEAN :
        /\ page = FirstOf({x \in E : x > s.next}, PageSize)
        /\ n = IF page = {} THEN 0 ELSE Top(page)
        /\ o = (Cardinality(page) < PageSize)
        /\ t = [s EXCEPT !.seen = @ \cup page, !.next = n, !.over = o]
  BY DEF ByMember
<1>0a. PICK o \in BOOLEAN :
        /\ page = FirstOf({x \in E : x > s.next}, PageSize)
        /\ n = IF page = {} THEN 0 ELSE Top(page)
        /\ o = (Cardinality(page) < PageSize)
        /\ t = [s EXCEPT !.seen = @ \cup page, !.next = n, !.over = o]
  BY <1>0
<1>. DEFINE R == {x \in E : x > s.next}
<1>1. /\ E \subseteq Nat /\ IsFiniteSet(E)
      /\ R \subseteq E /\ R \subseteq Nat /\ IsFiniteSet(R)
      /\ PageSize \in Nat /\ PageSize > 0
  <2>1. R \subseteq Members /\ R \subseteq E
    OBVIOUS
  <2>. HIDE DEF R
  <2>2. IsFiniteSet(E) /\ E \subseteq Nat
    BY MembersFinite
  <2>3. IsFiniteSet(R) /\ R \subseteq Nat
    BY <2>1, MembersFinite
  <2>4. PageSize \in Nat /\ PageSize > 0
    BY DEF SetAssumption
  <2>. QED
    BY <2>1, <2>2, <2>3, <2>4
<1>2. \A x \in E : x \in Nat /\ s.next \in Nat /\ (x \in R <=> ~(x <= s.next))
  <2>1. \A x \in E : x \in Nat
    BY <1>1
  <2>. QED
    BY <2>1 DEF Scans
<1>3. s.due \subseteq E /\ (\A x \in s.due : x <= s.next => x \in s.seen)
  BY DEF Follows
<1>. HIDE DEF R
<1>4. /\ page \subseteq R /\ page \subseteq Members /\ IsFiniteSet(page) /\ Cardinality(page) \in 0 .. PageSize
      /\ page # R => Cardinality(page) = PageSize
      /\ page \subseteq Nat
  <2>1. page = FirstOf(R, PageSize)
    BY <1>0a DEF R
  <2>2. page \subseteq R
    BY <2>1, FirstOfIn
  <2>3. /\ IsFiniteSet(page) /\ Cardinality(page) \in 0 .. PageSize
        /\ page # R => Cardinality(page) = PageSize
    BY <1>1, <2>1, FirstOfSize
  <2>. QED
    BY <1>1, <2>2, <2>3
<1>5. Cardinality(page) < PageSize => page = R
  BY <1>1, <1>4
<1>6. page # {} => Top(page) \in page /\ Top(page) \in Nat /\ \A x \in page : x <= Top(page)
  BY <1>4, TopOf
<1>7. /\ t.by = "member" /\ t.due = s.due /\ t.seen = s.seen \cup page /\ t.shrunk = s.shrunk
      /\ t.next = (IF page = {} THEN 0 ELSE Top(page)) /\ t.key = s.key
      /\ t.over <=> Cardinality(page) < PageSize
      /\ t \in Scans
  <2>1. n \in Nat
    BY <1>0a, <1>6
  <2>3. s.seen \cup page \subseteq Members
    BY <1>4 DEF Scans
  <2>4. /\ t.by = "member" /\ t.due = s.due /\ t.seen = s.seen \cup page /\ t.shrunk = s.shrunk
        /\ t.next = n /\ t.key = s.key
        /\ t.over = o
    BY <1>0a DEF Scans
  <2>5. t \in Scans
    BY <1>0a, <2>1, <2>3 DEF Scans
  <2>. QED
    BY <1>0a, <2>4, <2>5
<1>8. ASSUME t.over PROVE Complete(t)
  <2>1. page = R
    BY <1>5, <1>7, <1>8
  <2>. QED
    BY <1>2, <1>3, <1>7, <2>1 DEF Complete
<1>9. ASSUME ~t.over PROVE Follows(t, E)
  <2>1. Cardinality(page) = PageSize /\ page # {}
    <3>1. Cardinality(page) = PageSize
      BY <1>1, <1>4, <1>7, <1>9
    <3>2. page = {} => Cardinality(page) = 0
      BY FS_EmptySet
    <3>. QED
      BY <1>1, <3>1, <3>2
  <2>2. t.next = Top(page) /\ Top(page) \in page
    BY <1>6, <1>7, <2>1
  <2>3. ASSUME NEW x \in t.due, x <= t.next PROVE x \in t.seen
    <3>1. x \in s.due /\ x \in E
      BY <1>3, <1>7
    <3>2. CASE x <= s.next
      BY <1>3, <1>7, <3>1, <3>2
    <3>3. CASE ~(x <= s.next)
      <4>1. x \in R
        BY <1>2, <3>1, <3>3
      <4>2. x \in FirstOf(R, PageSize)
        BY <1>0a, <1>1, <2>2, <2>3, <4>1, FirstOfBelow DEF R
      <4>. QED
        BY <1>0a, <1>7, <4>2 DEF R
    <3>. QED
      BY <3>2, <3>3
  <2>. QED
    BY <1>3, <1>7, <2>3 DEF Follows
<1>. QED
  BY <1>7, <1>8, <1>9

\* A page by position: the next n and the page after them are the first of
\* the whole.
LEMMA PageByPosition ==
    ASSUME SetAssumption, RowAssumption, NEW E, E \subseteq Members, NEW s \in Scans, s.by = "position",
           Follows(s, E), NEW t, ByPosition(E, s, t)
    PROVE  /\ t \in Scans /\ t.key = s.key
           /\ t.over => Complete(t)
           /\ ~t.over => Follows(t, E)
<1>0. PICK before, page : \E o \in BOOLEAN :
        /\ before = FirstOf(E, s.next) /\ page = FirstOf(E \ before, PageSize)
        /\ o = (E = before \cup page)
        /\ t = [s EXCEPT !.seen = @ \cup page, !.next = @ + Cardinality(page), !.over = o]
  BY DEF ByPosition
<1>0a. PICK o \in BOOLEAN :
        /\ before = FirstOf(E, s.next) /\ page = FirstOf(E \ before, PageSize)
        /\ o = (E = before \cup page)
        /\ t = [s EXCEPT !.seen = @ \cup page, !.next = @ + Cardinality(page), !.over = o]
  BY <1>0
<1>1. /\ E \subseteq Nat /\ IsFiniteSet(E)
      /\ E \ before \subseteq E /\ E \ before \subseteq Nat /\ IsFiniteSet(E \ before)
      /\ PageSize \in Nat /\ PageSize > 0 /\ s.next \in Nat
  <2>1. E \ before \subseteq Members
    OBVIOUS
  <2>2. s.next \in Nat
    BY DEF Scans
  <2>3. IsFiniteSet(E) /\ E \subseteq Nat
    BY MembersFinite
  <2>4. IsFiniteSet(E \ before) /\ E \ before \subseteq Nat
    BY <2>1, MembersFinite
  <2>5. PageSize \in Nat /\ PageSize > 0
    BY DEF SetAssumption
  <2>. QED
    BY <2>2, <2>3, <2>4, <2>5
<1>2. /\ page \subseteq E \ before /\ IsFiniteSet(page) /\ Cardinality(page) \in 0 .. PageSize
      /\ before \subseteq E /\ IsFiniteSet(before) /\ Cardinality(before) \in 0 .. s.next
      /\ before # E => Cardinality(before) = s.next
  BY <1>0a, <1>1, FirstOfIn, FirstOfSize
<1>3. /\ t.by = "position" /\ t.due = s.due /\ t.seen = s.seen \cup page /\ t.shrunk = s.shrunk
      /\ t.next = s.next + Cardinality(page) /\ t.key = s.key
      /\ t.over <=> E = before \cup page
      /\ t \in Scans
  <2>1. page \subseteq Members
    BY <1>2
  <2>2. Cardinality(page) \in Nat /\ s.next + Cardinality(page) \in Nat
    <3>1. \A c \in 0 .. PageSize : c \in Nat /\ s.next + c \in Nat
      BY <1>1
    <3>. QED
      BY <1>2, <3>1
  <2>. QED
    BY <1>0a, <2>1, <2>2 DEF Scans
<1>4. s.due \subseteq E /\ (~s.shrunk => before \cap s.due \subseteq s.seen)
  BY <1>0a DEF Follows
<1>5. ASSUME t.over PROVE Complete(t)
  BY <1>3, <1>4, <1>5 DEF Complete
<1>6. ASSUME ~t.over, NEW x \in FirstOf(E, t.next), x \notin before PROVE x \in page
  <2>1. x \in E /\ Cardinality(Below(E, x)) < s.next + Cardinality(page)
    BY <1>3, <1>6, FirstOfIn
  <2>2. Cardinality(before) = s.next
    BY <1>2, <1>6, <2>1
  <2>3. \A y \in before : y < x
    <3>1. ASSUME NEW y \in before, x <= y PROVE FALSE
      BY <1>0a, <1>1, <1>6, <2>1, <3>1, FirstOfBelow
    <3>2. \A y \in before : y \in Nat /\ x \in Nat
      BY <1>1, <1>2, <2>1
    <3>. QED
      BY <3>1, <3>2
  <2>4. before \subseteq Below(E, x) /\ Below(E \ before, x) = Below(E, x) \ before
    BY <1>2, <2>3 DEF Below
  <2>5. IsFiniteSet(Below(E, x)) /\ Cardinality(Below(E, x)) \in Nat
    BY <1>1, FiniteRank
  <2>6. Cardinality(Below(E, x) \ before) = Cardinality(Below(E, x)) - Cardinality(before)
    <3>1. Below(E, x) \cap before = before
      BY <2>4
    <3>2. Cardinality(Below(E, x) \ before) = Cardinality(Below(E, x)) - Cardinality(Below(E, x) \cap before)
      BY <1>2, <2>5, FS_Difference
    <3>. QED
      BY <3>1, <3>2
  <2>7. Cardinality(Below(E \ before, x)) < PageSize
    <3>1. \A b \in Nat, c \in 0 .. PageSize, r \in Nat :
             r < b + c => r - b < PageSize
      BY <1>1
    <3>2. Cardinality(Below(E, x)) - s.next < PageSize
      BY <1>1, <1>2, <2>1, <2>5, <3>1
    <3>. QED
      BY <2>2, <2>4, <2>6, <3>2
  <2>. QED
    BY <1>0a, <1>6, <2>1, <2>7, FirstOfIn
<1>7. ASSUME ~t.over PROVE Follows(t, E)
  BY <1>3, <1>4, <1>6, <1>7 DEF Follows
<1>. QED
  BY <1>3, <1>5, <1>7

\* The set changes between two pages: what is due is what has stayed, and as
\* long as nothing has gone no rank has fallen.
LEMMA Watched ==
    ASSUME SetAssumption, RowAssumption, NEW E, E \subseteq Members, NEW F, F \subseteq Members,
           NEW s \in Scans, Follows(s, E), NEW t, Changed(E, F, s, t)
    PROVE  t \in Scans /\ t.key = s.key /\ t.over = s.over /\ Follows(t, F)
<1>1. /\ t.by = s.by /\ t.due = s.due \cap F /\ t.seen = s.seen /\ t.next = s.next
      /\ t.key = s.key /\ t.over = s.over
      /\ t.shrunk <=> s.shrunk \/ ~(E \subseteq F)
      /\ t \in Scans
  BY DEF Changed, Scans
<1>2. ASSUME t.by = "position", ~t.shrunk, NEW x \in FirstOf(F, t.next), x \in t.due
      PROVE  x \in t.seen
  <2>1. E \subseteq F /\ IsFiniteSet(F) /\ IsFiniteSet(E) /\ s.next \in Nat
    BY <1>1, <1>2, MembersFinite DEF Scans
  <2>2. x \in E /\ x \in F /\ Cardinality(Below(F, x)) < s.next
    BY <1>1, <1>2, FirstOfIn DEF Follows
  <2>3. Below(E, x) \subseteq Below(F, x)
    BY <2>1 DEF Below
  <2>4. /\ Cardinality(Below(E, x)) <= Cardinality(Below(F, x))
        /\ Cardinality(Below(E, x)) \in Nat /\ Cardinality(Below(F, x)) \in Nat
    BY <2>1, <2>3, FiniteRank, FS_Subset
  <2>5. Cardinality(Below(E, x)) < s.next
    BY <2>1, <2>2, <2>4
  <2>6. x \in FirstOf(E, s.next)
    BY <2>2, <2>5, FirstOfIn
  <2>. QED
    BY <1>1, <1>2, <2>6 DEF Follows
<1>. QED
  BY <1>1, <1>2 DEF Follows

LEMMA ScanBegins ==
    ASSUME SetAssumption, RowAssumption, Sound, ScanSound, NEW k \in Scanned, NEW by \in {"member", "position"},
           ScanBegin(k, by)
    PROVE  ScanSound'
<1>1. k \in Keys /\ Elements(k)' = Elements(k) /\ Elements(k) \subseteq Members
  BY SoundAt DEF SetAssumption, ScanBegin, Elements, Live
<1>2. scan' = [by |-> by, key |-> k, next |-> 0, seen |-> {}, due |-> Elements(k),
               shrunk |-> FALSE, over |-> FALSE]
  BY DEF ScanBegin, Idle
<1>3. scan' \in Scans
  BY <1>1, <1>2 DEF Scans
<1>4. /\ ~scan'.over /\ scan'.key = k /\ scan'.by = by /\ scan'.next = 0
      /\ scan'.due = Elements(k) /\ scan'.seen = {}
  BY <1>2
<1>5. \A x \in Elements(k) : ~(x <= 0)
  <2>1. \A x \in Members : x \in Nat /\ x # 0
    BY DEF SetAssumption
  <2>2. \A x \in Members : ~(x <= 0)
    BY <2>1
  <2>. QED
    BY <1>1, <2>2
<1>6. FirstOf(Elements(k), 0) = {}
  <2>1. IsFiniteSet(Elements(k)) /\ Elements(k) \subseteq Nat
    BY <1>1, MembersFinite
  <2>2. IsFiniteSet(FirstOf(Elements(k), 0)) /\ Cardinality(FirstOf(Elements(k), 0)) \in 0 .. 0
    BY <2>1, FirstOfSize
  <2>3. Cardinality(FirstOf(Elements(k), 0)) = 0
    BY <2>2
  <2>. QED
    BY <2>2, <2>3, FS_EmptySet
<1>7. Follows(scan', Elements(k))
  BY <1>4, <1>5, <1>6 DEF Follows
<1>. QED
  BY <1>1, <1>3, <1>4, <1>7 DEF ScanSound

LEMMA ScanSteps ==
    ASSUME SetAssumption, RowAssumption, Sound, ScanSound, ScanStep
    PROVE  ScanSound'
<1>1. PICK k \in Keys : k = scan.key
  BY DEF ScanSound, ScanStep
<1>2. PICK E : E = Elements(k)
  OBVIOUS
<1>3. scan \in Scans /\ Follows(scan, E) /\ E \subseteq Members
  BY <1>1, <1>2, SoundAt DEF ScanSound, ScanStep
<1>4. Elements(k)' = E
  BY <1>2 DEF ScanStep, Elements, Live
<1>5. ASSUME scan' \in Scans, scan'.key = scan.key, scan'.over => Complete(scan'),
             ~scan'.over => Follows(scan', E)
      PROVE  ScanSound'
  BY <1>1, <1>4, <1>5 DEF ScanSound
<1>6. CASE scan.by = "member"
  <2>1. ByMember(E, scan, scan')
    <3>1. PICK page : page = FirstOf({x \in E : x > scan.next}, PageSize)
      OBVIOUS
    <3>2. PICK n : n = IF page = {} THEN 0 ELSE Top(page)
      OBVIOUS
    <3>3. PICK o \in BOOLEAN : o = (Cardinality(page) < PageSize)
      <4>. DEFINE c == Cardinality(page) < PageSize
      <4>1. c = TRUE \/ c = FALSE
        OBVIOUS
      <4>. HIDE DEF c
      <4>2. \E o \in BOOLEAN : o = c
        BY <4>1
      <4>. QED
        BY <4>2 DEF c
    <3>4. PageAfter(scan.key, scan.next) = page
      BY <1>1, <1>2, <3>1 DEF PageAfter
    <3>5. scan' = [scan EXCEPT !.seen = @ \cup page, !.next = n, !.over = o]
      BY <1>6, <3>2, <3>3, <3>4 DEF ScanStep, ScanByMember
    <3>. QED
      BY <3>1, <3>2, <3>3, <3>5 DEF ByMember
  <2>2. /\ scan' \in Scans /\ scan'.key = scan.key
        /\ scan'.over => Complete(scan')
        /\ ~scan'.over => Follows(scan', E)
    BY <1>3, <1>6, <2>1, PageByMember
  <2>. QED
    BY <1>5, <2>2
<1>7. CASE scan.by # "member"
  <2>1. scan.by = "position"
    BY <1>3, <1>7 DEF Scans
  <2>2. ByPosition(E, scan, scan')
    <3>1. PICK before : before = FirstOf(E, scan.next)
      OBVIOUS
    <3>2. PICK page : page = FirstOf(E \ before, PageSize)
      OBVIOUS
    <3>3. PICK o \in BOOLEAN : o = (E = before \cup page)
      <4>. DEFINE c == E = before \cup page
      <4>1. c = TRUE \/ c = FALSE
        OBVIOUS
      <4>. HIDE DEF c
      <4>2. \E o \in BOOLEAN : o = c
        BY <4>1
      <4>. QED
        BY <4>2 DEF c
    <3>4. Elements(scan.key) = E
      BY <1>1, <1>2
    <3>5. scan' = [scan EXCEPT !.seen = @ \cup page, !.next = @ + Cardinality(page), !.over = o]
      BY <1>7, <3>1, <3>2, <3>3, <3>4 DEF ScanStep, ScanByPosition
    <3>. QED
      BY <3>1, <3>2, <3>3, <3>5 DEF ByPosition
  <2>3. /\ scan' \in Scans /\ scan'.key = scan.key
        /\ scan'.over => Complete(scan')
        /\ ~scan'.over => Follows(scan', E)
    BY <1>3, <2>1, <2>2, PageByPosition
  <2>. QED
    BY <1>5, <2>3
<1>. QED
  BY <1>6, <1>7

LEMMA ScanWatches ==
    ASSUME SetAssumption, RowAssumption, Sound, ScanSound, Sound', Watch
    PROVE  ScanSound'
<1>1. CASE scan.over
  BY <1>1 DEF Watch, ScanSound
<1>2. CASE ~scan.over
  <2>1. PICK k \in Keys : k = scan.key
    BY <1>2 DEF ScanSound
  <2>2. PICK E : E = Elements(k)
    OBVIOUS
  <2>3. PICK now : now = IF meta'[k] = Absent \/ meta'[k].lapsed THEN {} ELSE row'[k]
    OBVIOUS
  <2>4. scan \in Scans /\ Follows(scan, E) /\ E \subseteq Members
    BY <1>2, <2>1, <2>2, SoundAt DEF ScanSound
  <2>5. Changed(E, now, scan, scan')
    BY <1>2, <2>1, <2>2, <2>3 DEF Watch, Changed
  <2>6. now = Elements(k)' /\ now \subseteq Members
    <3>1. /\ meta'[k] # Absent => meta'[k].size > 0
          /\ row'[k] \subseteq Members
      BY DEF Sound, SizeExact
    <3>. QED
      BY <2>3, <3>1 DEF Elements, Live
  <2>7. scan' \in Scans /\ scan'.key = scan.key /\ scan'.over = scan.over /\ Follows(scan', now)
    BY <2>4, <2>5, <2>6, Watched
  <2>. QED
    BY <1>2, <2>1, <2>6, <2>7 DEF ScanSound
<1>. QED
  BY <1>1, <1>2

LEMMA NextScanSound ==
    ASSUME SetAssumption, RowAssumption, Sound, ScanSound, [Next]_vars
    PROVE  ScanSound'
<1>1. ASSUME NEW k \in Keys, Call(k), Watch PROVE ScanSound'
  <2>1. Sound'
    BY <1>1, CallStep
  <2>. QED
    BY <1>1, <2>1, ScanWatches
<1>2. ASSUME UNCHANGED <<meta, row, scan>> PROVE ScanSound'
  <2>1. \A k : Elements(k)' = Elements(k)
    BY <1>2 DEF Elements, Live
  <2>2. PICK E : E = Elements(scan.key)
    OBVIOUS
  <2>3. Elements(scan.key)' = E
    BY <1>2, <2>2 DEF Elements, Live
  <2>4. scan \in Scans /\ (scan.over => Complete(scan))
        /\ (~scan.over => scan.key \in Keys /\ Follows(scan, E))
    BY <2>2 DEF ScanSound
  <2>. QED
    BY <1>2, <2>3, <2>4 DEF ScanSound
<1>3. CASE CallCard /\ UNCHANGED scan
  BY <1>2, <1>3 DEF CallCard, Reply
<1>4. CASE \E k \in Scanned, by \in {"member", "position"} : ScanBegin(k, by)
  BY <1>4, ScanBegins
<1>5. CASE ScanStep
  BY <1>5, ScanSteps
<1>6. CASE UNCHANGED vars
  BY <1>2, <1>6 DEF vars
<1>. QED
  BY <1>1, <1>3, <1>4, <1>5, <1>6 DEF Next

LEMMA InitScanSound ==
    ASSUME Init
    PROVE  ScanSound
BY DEF Init, Idle, ScanSound, Scans, Complete

(* The records and rows of a set have their types, and what a client has   *)
(* been given and is due are members of the set.                           *)
THEOREM TypeCorrect ==
    ASSUME SetAssumption
    PROVE  Spec => []TypeOK
<1>1. Init => Sound /\ ScanSound
  BY InitSound, InitScanSound
<1>2. Sound /\ ScanSound /\ [Next]_vars => Sound' /\ ScanSound'
  BY NextSound, NextScanSound, SetRows
<1>3. Sound /\ ScanSound => TypeOK
  BY DEF Sound, ScanSound, Scans, TypeOK
<1>. QED
  BY <1>1, <1>2, <1>3, PTL DEF Spec

(* A client that pages to the end through a set, of any size by pages of   *)
(* any size, has been given every member that was in the set from its      *)
(* first page to its last, whatever the calls between its pages added or   *)
(* removed: by member always (sscan_by_member), by position as long as     *)
(* nothing was removed (sscan).                                            *)
THEOREM ScansComplete ==
    ASSUME SetAssumption
    PROVE  Spec => []ScanComplete
<1>1. Init => Sound /\ ScanSound
  BY InitSound, InitScanSound
<1>2. Sound /\ ScanSound /\ [Next]_vars => Sound' /\ ScanSound'
  BY NextSound, NextScanSound, SetRows
<1>3. ScanSound => ScanComplete
  BY DEF ScanSound, ScanComplete, Complete
<1>. QED
  BY <1>1, <1>2, <1>3, PTL DEF Spec
----------------------------------------------------------------------------
(* Sorted integers: the same records and rows.  What a batch writes at a   *)
(* key is what it writes for a set.                                        *)

CONSTANT MaxId       \* the largest id

Ints == INSTANCE SortedIntStore

LEMMA IntsSame ==
    ASSUME NEW k
    PROVE  /\ Ints!Live(k) <=> Live(k)
           /\ Ints!Elements(k) = Elements(k)
           /\ Ints!Prepared(k) = Prepared(k)
BY DEF Ints!Live, Live, Ints!Elements, Elements, Ints!Prepared, Prepared

LEMMA IntsCommit ==
    ASSUME NEW k, NEW m, NEW S, NEW r
    PROVE  /\ Ints!Reply(r) <=> Reply(r)
           /\ Ints!Commit(k, m, S, r) <=> Commit(k, m, S, r)
BY DEF Ints!Reply, Reply, Ints!Commit, Commit

LEMMA IntsCardinality ==
    ASSUME NEW S
    PROVE  Ints!Cardinality(S) = Cardinality(S) /\ Ints!Sets!Cardinality(S) = Cardinality(S)
BY Zenon DEF Cardinality, Ints!Cardinality, Ints!Sets!Cardinality

LEMMA IntsPut ==
    ASSUME NEW k, NEW S, NEW r
    PROVE  /\ Sets!Put(k, S, r) <=> Ints!Sets!Put(k, S, r)
           /\ Sets!Keep(r) <=> Ints!Sets!Keep(r)
BY DEF Sets!Put, Ints!Sets!Put, Sets!Keep, Ints!Sets!Keep, Ints!Elements, Elements, Ints!Live, Live

LEMMA IntsRows ==
    ASSUME Ints!SortedIntAssumption
    PROVE  /\ RowAssumption
           /\ MaxId \in Nat /\ PageSize \in Nat /\ PageSize > 0 /\ Scanned \subseteq Keys
           /\ \A x \in Members : x \in 0 .. MaxId
<1>1. /\ MaxId \in Nat /\ PageSize \in Nat /\ PageSize > 0 /\ Scanned \subseteq Keys
      /\ Members \subseteq 0 .. MaxId
      /\ Absent \notin Metas
  BY DEF Ints!SortedIntAssumption, Ints!Metas, Metas
<1>2. IsFiniteSet(Members) /\ Members \subseteq Nat
  <2>1. IsFiniteSet(0 .. MaxId)
    BY <1>1, FS_Interval
  <2>2. IsFiniteSet(Members)
    BY <1>1, <2>1, FS_Subset
  <2>3. \A x \in 0 .. MaxId : x \in Nat
    BY <1>1
  <2>. QED
    BY <1>1, <2>2, <2>3
<1>3. \A b \in Batches : ToSet(b) \subseteq Members
  BY DEF Ints!SortedIntAssumption, Ints!ToSet, ToSet
<1>. QED
  BY <1>1, <1>2, <1>3 DEF RowAssumption

LEMMA IntsAdd ==
    ASSUME RowAssumption, Sound, NEW k \in Keys, NEW b \in Batches, Ints!SiAdd(k, b)
    PROVE  Sound' /\ Ints!Sets!SAdd(k, b)
<1>1. Ints!ToSet(b) = ToSet(b) /\ Ints!Sets!ToSet(b) = ToSet(b) /\ Sets!ToSet(b) = ToSet(b)
  BY DEF Ints!ToSet, Ints!Sets!ToSet, Sets!ToSet, ToSet
<1>2. SAdd(k, b)
  BY <1>1, IntsSame, IntsCommit, IntsCardinality DEF Ints!SiAdd, SAdd
<1>3. Sound' /\ Sets!SAdd(k, b)
  BY <1>2, AddStep
<1>4. Sets!Put(k, Elements(k) \cup ToSet(b), Cardinality(ToSet(b) \ Elements(k)))
  BY <1>1, <1>3, SameCardinality DEF Sets!SAdd
<1>5. Ints!Sets!Put(k, Elements(k) \cup ToSet(b), Cardinality(ToSet(b) \ Elements(k)))
  BY <1>4, IntsPut
<1>. QED
  BY <1>1, <1>3, <1>5, IntsSame, IntsCardinality DEF Ints!Sets!SAdd

\* Dropping rows of a live key, some, all or none.
LEMMA IntsDrop ==
    ASSUME RowAssumption, Sound, NEW k \in Keys, Live(k), NEW S, S \subseteq row[k], Ints!Drop(k, S)
    PROVE  Sound' /\ Ints!Sets!Drop(k, S)
<1>1. Sets!Put(k, Elements(k) \ S, Cardinality(S)) => Ints!Sets!Drop(k, S)
  BY IntsPut, IntsSame, IntsCardinality DEF Ints!Sets!Drop
<1>2. CASE S = {}
  <2>1. Reply(0)
    BY <1>2, IntsCommit DEF Ints!Drop
  <2>2. Sound' /\ Sets!Put(k, Elements(k), 0)
    BY <2>1, KeptHeld, PutSame
  <2>3. Elements(k) \ S = Elements(k) /\ Cardinality(S) = 0
    BY <1>2, FS_EmptySet
  <2>. QED
    BY <1>1, <2>2, <2>3
<1>3. CASE S # {}
  <2>1. Commit(k, [meta[k] EXCEPT !.size = Less(@, Cardinality(S))], row[k] \ S, Cardinality(S))
    BY <1>3, IntsCommit, IntsCardinality DEF Ints!Drop, Less
  <2>. QED
    BY <1>1, <2>1, Removed
<1>. QED
  BY <1>2, <1>3

\* A call that finds nothing to drop.
LEMMA IntsNothing ==
    ASSUME Sound, NEW k \in Keys, Ints!Reply(0)
    PROVE  Sound' /\ Ints!Sets!Drop(k, {})
<1>1. Sound' /\ Sets!Put(k, Elements(k), 0)
  BY IntsCommit, KeptHeld, PutSame
<1>2. Ints!Sets!Put(k, Elements(k) \ {}, Cardinality({}))
  <2>1. Elements(k) \ {} = Elements(k) /\ Cardinality({}) = 0
    BY FS_EmptySet
  <2>. QED
    BY <1>1, <2>1, IntsPut
<1>. QED
  BY <1>1, <1>2, IntsSame, IntsCardinality DEF Ints!Sets!Drop

LEMMA IntsRemove ==
    ASSUME RowAssumption, Sound, NEW k \in Keys, NEW b \in Batches, Ints!SiRem(k, b)
    PROVE  Sound' /\ Ints!Sets!SRem(k, b)
<1>. DEFINE gone == ToSet(b) \cap Elements(k)
<1>1. Ints!ToSet(b) = ToSet(b) /\ Ints!Sets!ToSet(b) = ToSet(b)
  BY DEF Ints!ToSet, Ints!Sets!ToSet, ToSet
<1>2. Ints!Drop(k, gone)
  BY <1>1, IntsSame DEF Ints!SiRem
<1>3. Ints!Sets!Drop(k, gone) => Ints!Sets!SRem(k, b)
  <2>1. Elements(k) \ gone = Elements(k) \ ToSet(b)
    OBVIOUS
  <2>. QED
    BY <1>1, <2>1, IntsSame DEF Ints!Sets!Drop, Ints!Sets!SRem
<1>4. CASE Live(k)
  BY <1>2, <1>3, <1>4, IntsDrop DEF Elements
<1>5. CASE ~Live(k)
  <2>1. gone = {}
    BY <1>5 DEF Elements
  <2>2. Ints!Reply(0)
    BY <1>2, <2>1 DEF Ints!Drop
  <2>. QED
    BY <1>3, <2>1, <2>2, IntsNothing
<1>. QED
  BY <1>4, <1>5

LEMMA IntsClear ==
    ASSUME RowAssumption, Sound, NEW k \in Keys, Live(k), Ints!Clear(k)
    PROVE  Sound' /\ Ints!Sets!Drop(k, Elements(k))
<1>1. /\ meta' = [meta EXCEPT ![k] = Absent] /\ row' = [row EXCEPT ![k] = {}]
      /\ ret' = Cardinality(Elements(k))
  BY SoundAt DEF Ints!Clear, Elements
<1>2. Fits(Absent, {})
  BY DEF Fits
<1>3. Sound' /\ HeldAt(k, {})
  BY <1>1, <1>2, Written
<1>4. Sets!Put(k, {}, Cardinality(Elements(k)))
  BY <1>1, <1>3, PutHeld
<1>5. Ints!Sets!Put(k, Elements(k) \ Elements(k), Cardinality(Elements(k)))
  BY <1>4, IntsPut
<1>. QED
  BY <1>3, <1>5, IntsSame, IntsCardinality DEF Ints!Sets!Drop

\* What the empty, the whole and any other span hold.
LEMMA SpanIs ==
    ASSUME Ints!SortedIntAssumption, Sound, NEW k \in Keys, NEW s \in Spans
    PROVE  /\ Ints!IsEmptyRange(s) \/ ~Live(k) => Ints!Sets!Within(k, s) = {}
           /\ Live(k) /\ Ints!IsAll(s) => Ints!Sets!Within(k, s) = Elements(k)
           /\ Live(k) => Ints!Sets!Within(k, s) = Ints!Between(k, s) /\ Ints!Between(k, s) \subseteq row[k]
<1>1. /\ MaxId \in Nat /\ s.min \in 0 .. MaxId /\ s.max \in 0 .. MaxId
      /\ s.minex \in BOOLEAN /\ s.maxex \in BOOLEAN
  BY DEF Ints!SortedIntAssumption
<1>2. Elements(k) \subseteq 0 .. MaxId
  BY IntsRows, SoundAt
<1>3. Ints!Sets!Within(k, s) = {m \in Elements(k) : /\ IF s.minex THEN m > s.min ELSE m >= s.min
                                                    /\ IF s.maxex THEN m < s.max ELSE m <= s.max}
  BY IntsSame DEF Ints!Sets!Within
<1>4. ASSUME Ints!IsEmptyRange(s), NEW m \in 0 .. MaxId,
             IF s.minex THEN m > s.min ELSE m >= s.min,
             IF s.maxex THEN m < s.max ELSE m <= s.max
      PROVE  FALSE
  <2>1. CASE s.minex /\ s.maxex
    BY <1>1, <1>4, <2>1 DEF Ints!IsEmptyRange
  <2>2. CASE s.minex /\ ~s.maxex
    BY <1>1, <1>4, <2>2 DEF Ints!IsEmptyRange
  <2>3. CASE ~s.minex /\ s.maxex
    BY <1>1, <1>4, <2>3 DEF Ints!IsEmptyRange
  <2>4. CASE ~s.minex /\ ~s.maxex
    BY <1>1, <1>4, <2>4 DEF Ints!IsEmptyRange
  <2>. QED
    BY <2>1, <2>2, <2>3, <2>4
<1>5. Ints!IsEmptyRange(s) => Ints!Sets!Within(k, s) = {}
  BY <1>2, <1>3, <1>4
<1>6. ~Live(k) => Ints!Sets!Within(k, s) = {}
  BY <1>3 DEF Elements
<1>7. ASSUME Ints!IsAll(s) PROVE Ints!Sets!Within(k, s) = Elements(k)
  <2>1. \A m \in 0 .. MaxId : m >= s.min /\ m <= s.max
    BY <1>1, <1>7 DEF Ints!IsAll
  <2>. QED
    BY <1>2, <1>3, <1>7, <2>1 DEF Ints!IsAll
<1>8. ASSUME Live(k) PROVE Ints!Sets!Within(k, s) = Ints!Between(k, s) /\ Ints!Between(k, s) \subseteq row[k]
  <2>1. Elements(k) = row[k]
    BY <1>8 DEF Elements
  <2>2. \A m \in row[k] : (m > s.min <=> s.min < m) /\ (m >= s.min <=> s.min <= m)
    BY <1>1, <1>2, <2>1
  <2>. QED
    BY <1>3, <2>1, <2>2 DEF Ints!Between
<1>. QED
  BY <1>5, <1>6, <1>7, <1>8

LEMMA IntsRemSpan ==
    ASSUME Ints!SortedIntAssumption, Sound, NEW k \in Keys, NEW s \in Spans,
           Ints!RemRangeByValue(k, s)
    PROVE  Sound' /\ Ints!Sets!Drop(k, Ints!Sets!Within(k, s))
<1>0. RowAssumption
  BY IntsRows
<1>1. CASE Ints!IsEmptyRange(s) \/ ~Live(k)
  <2>1. Ints!Reply(0)
    BY <1>1, IntsSame DEF Ints!RemRangeByValue
  <2>2. Ints!Sets!Within(k, s) = {}
    BY <1>1, SpanIs
  <2>. QED
    BY <2>1, <2>2, IntsNothing
<1>2. CASE Live(k) /\ ~Ints!IsEmptyRange(s) /\ Ints!IsAll(s)
  <2>1. Ints!Clear(k)
    BY <1>2, IntsSame DEF Ints!RemRangeByValue
  <2>2. Ints!Sets!Within(k, s) = Elements(k)
    BY <1>2, SpanIs
  <2>. QED
    BY <1>0, <1>2, <2>1, <2>2, IntsClear
<1>3. CASE Live(k) /\ ~Ints!IsEmptyRange(s) /\ ~Ints!IsAll(s)
  <2>1. Ints!Drop(k, Ints!Between(k, s))
    BY <1>3, IntsSame DEF Ints!RemRangeByValue
  <2>2. Ints!Sets!Within(k, s) = Ints!Between(k, s) /\ Ints!Between(k, s) \subseteq row[k]
    BY <1>3, SpanIs
  <2>. QED
    BY <1>0, <1>3, <2>1, <2>2, IntsDrop
<1>. QED
  BY <1>1, <1>2, <1>3

\* A span is counted from the record when it is the whole, else from the rows.
LEMMA CountIs ==
    ASSUME Ints!SortedIntAssumption, Sound, NEW k \in Keys, NEW s \in Spans
    PROVE  Ints!Count(k, s) = Cardinality(Ints!Sets!Within(k, s))
<1>0. RowAssumption
  BY IntsRows
<1>1. CASE Ints!IsEmptyRange(s) \/ ~Live(k)
  BY <1>1, SpanIs, IntsSame, FS_EmptySet DEF Ints!Count
<1>2. CASE Live(k) /\ ~Ints!IsEmptyRange(s) /\ Ints!IsAll(s)
  BY <1>0, <1>2, SpanIs, IntsSame, SoundAt DEF Ints!Count, Elements
<1>3. CASE Live(k) /\ ~Ints!IsEmptyRange(s) /\ ~Ints!IsAll(s)
  BY <1>3, SpanIs, IntsSame, IntsCardinality DEF Ints!Count
<1>. QED
  BY <1>1, <1>2, <1>3

LEMMA RankBound ==
    ASSUME NEW S, S \subseteq Nat, IsFiniteSet(S), NEW x \in S
    PROVE  Cardinality(Below(S, x)) \in 0 .. (Cardinality(S) - 1) /\ Cardinality(S) \in Nat
<1>1. Below(S, x) \subseteq S \ {x}
  BY BelowIs
<1>2. IsFiniteSet(S \ {x}) /\ Cardinality(S \ {x}) = Cardinality(S) - 1 /\ Cardinality(S) \in Nat
  BY FS_RemoveElement, FS_CardinalityType
<1>3. Cardinality(Below(S, x)) <= Cardinality(S \ {x}) /\ Cardinality(Below(S, x)) \in Nat
  BY <1>1, <1>2, FS_Subset, FiniteRank
<1>. QED
  BY <1>2, <1>3

\* A range of ranks, its ends counted from the end when negative, and cut to
\* the ranks there are.
LEMMA NormalizedIs ==
    ASSUME NEW c \in Nat, NEW r \in Int \X Int, NEW i \in 0 .. (c - 1)
    PROVE  LET from == IF r[1] < 0 THEN r[1] + c ELSE r[1]
               to == IF r[2] < 0 THEN r[2] + c ELSE r[2]
               n == Ints!Normalized(r, c)
           IN  /\ from <= i /\ i <= to <=> n[1] <= i /\ i <= n[2]
               /\ n[1] \in Int /\ n[2] \in Int
<1>. DEFINE s == IF r[1] < 0 THEN c + r[1] ELSE r[1]
            e == IF r[2] < 0 THEN c + r[2] ELSE r[2]
<1>1. r[1] \in Int /\ r[2] \in Int /\ c \in Int /\ i \in Int /\ 0 <= i /\ i <= c - 1
  OBVIOUS
<1>2. s = (IF r[1] < 0 THEN r[1] + c ELSE r[1]) /\ s \in Int
  BY <1>1
<1>3. e = (IF r[2] < 0 THEN r[2] + c ELSE r[2]) /\ e \in Int
  BY <1>1
<1>4. Ints!Normalized(r, c) = <<IF s < 0 THEN 0 ELSE s, IF e >= c THEN c - 1 ELSE e>>
  BY DEF Ints!Normalized
<1>. HIDE DEF s, e
<1>5. (s <= i <=> (IF s < 0 THEN 0 ELSE s) <= i) /\ (IF s < 0 THEN 0 ELSE s) \in Int
  BY <1>1, <1>2
<1>6. (i <= e <=> i <= (IF e >= c THEN c - 1 ELSE e)) /\ (IF e >= c THEN c - 1 ELSE e) \in Int
  BY <1>1, <1>3
<1>. QED
  BY <1>2, <1>3, <1>4, <1>5, <1>6

LEMMA IntsRemRank ==
    ASSUME Ints!SortedIntAssumption, Sound, NEW k \in Keys, NEW r \in Ranks,
           Ints!RemRangeByRank(k, r)
    PROVE  Sound' /\ Ints!Sets!Drop(k, Ints!Sets!Ranked(k, r))
<1>0. RowAssumption /\ r \in Int \X Int
  BY IntsRows DEF Ints!SortedIntAssumption
<1>1. CASE ~Live(k)
  <2>1. Ints!Reply(0)
    BY <1>1, IntsSame DEF Ints!RemRangeByRank
  <2>2. Ints!Sets!Ranked(k, r) = {}
    BY <1>1, IntsSame DEF Ints!Sets!Ranked, Elements
  <2>. QED
    BY <2>1, <2>2, IntsNothing
<1>2. CASE Live(k)
  <2>. DEFINE E == row[k]
              c == Cardinality(E)
              n == Ints!Normalized(r, c)
              rank(m) == Cardinality(Below(E, m))
              F == {m \in E : n[1] <= rank(m) /\ rank(m) <= n[2]}
  <2>1. /\ Elements(k) = E /\ E \subseteq Members /\ meta[k].size = c
        /\ E \subseteq Nat /\ IsFiniteSet(E) /\ c \in Nat
    BY <1>0, <1>2, SoundAt, MembersFinite DEF Elements
  <2>2. \A m \in E : rank(m) \in 0 .. (c - 1)
    BY <2>1, RankBound
  <2>3. \A m : Ints!RankOf(k, m) = rank(m) /\ (m \in E => Ints!Sets!Rank(k, m) = rank(m))
    BY <2>1, IntsSame, IntsCardinality DEF Ints!RankOf, Ints!Sets!Rank, Below
  <2>4. Ints!Sets!Ranked(k, r) =
           LET from == IF r[1] < 0 THEN r[1] + c ELSE r[1]
               to == IF r[2] < 0 THEN r[2] + c ELSE r[2]
           IN  {m \in E : from <= rank(m) /\ rank(m) <= to}
    BY <2>1, <2>3, IntsSame, IntsCardinality DEF Ints!Sets!Ranked
  <2>. HIDE DEF rank
  <2>5. \A m \in E : LET from == IF r[1] < 0 THEN r[1] + c ELSE r[1]
                         to == IF r[2] < 0 THEN r[2] + c ELSE r[2]
                     IN  /\ from <= rank(m) /\ rank(m) <= to <=> n[1] <= rank(m) /\ rank(m) <= n[2]
                         /\ n[1] \in Int /\ n[2] \in Int
    BY <1>0, <2>1, <2>2, NormalizedIs
  <2>6. Ints!Sets!Ranked(k, r) = F /\ F \subseteq E
    BY <2>4, <2>5
  <2>7. Ints!RemRangeByRank(k, r) <=>
           IF n[1] > n[2] THEN Ints!Reply(0)
           ELSE IF n[1] = 0 /\ n[2] + 1 >= c THEN Ints!Clear(k)
           ELSE Ints!Drop(k, F)
    BY <1>2, <2>1, <2>3, IntsSame DEF Ints!RemRangeByRank
  <2>8. n[1] \in Int /\ n[2] \in Int
    <3>1. \E m : m \in E
      BY <1>2, <2>1, SoundAt, <1>0
    <3>. QED
      BY <2>5, <3>1
  <2>. HIDE DEF F, n
  <2>9. CASE n[1] > n[2]
    <3>1. F = {}
      <4>1. \A i \in 0 .. (c - 1) : ~(n[1] <= i /\ i <= n[2])
        BY <2>8, <2>9
      <4>. QED
        BY <2>2, <4>1 DEF F
    <3>. QED
      BY <2>6, <2>7, <2>9, <3>1, IntsNothing
  <2>10. CASE ~(n[1] > n[2]) /\ n[1] = 0 /\ n[2] + 1 >= c
    <3>1. F = E
      <4>1. \A i \in 0 .. (c - 1) : n[1] <= i /\ i <= n[2]
        BY <2>1, <2>8, <2>10
      <4>. QED
        BY <2>2, <4>1 DEF F
    <3>. QED
      BY <1>0, <1>2, <2>1, <2>6, <2>7, <2>10, <3>1, IntsClear
  <2>11. CASE ~(n[1] > n[2]) /\ ~(n[1] = 0 /\ n[2] + 1 >= c)
    <3>1. Ints!Drop(k, F)
      BY <2>7, <2>11
    <3>. QED
      BY <1>0, <1>2, <2>6, <3>1, IntsDrop
  <2>. QED
    BY <2>9, <2>10, <2>11
<1>. QED
  BY <1>1, <1>2

\* Of a finite set, a member, those below it and those above it are all.
LEMMA RanksBothWays ==
    ASSUME NEW S, S \subseteq Nat, IsFiniteSet(S), NEW x \in S
    PROVE  Cardinality({n \in S : n > x}) = Cardinality(S) - 1 - Cardinality(Below(S, x))
<1>. DEFINE B == Below(S, x)
            A == {n \in S : n > x}
<1>1. \A n \in S : n \in Nat
  OBVIOUS
<1>2. A = (S \ {x}) \ B /\ B \subseteq S \ {x}
  <2>1. \A n \in S : n > x <=> n # x /\ ~(n < x)
    BY <1>1
  <2>. QED
    BY <2>1 DEF Below
<1>3. IsFiniteSet(S \ {x}) /\ Cardinality(S \ {x}) = Cardinality(S) - 1
  BY FS_RemoveElement
<1>4. IsFiniteSet(B) /\ (S \ {x}) \cap B = B
  BY <1>2, FiniteRank
<1>. HIDE DEF A, B
<1>5. Cardinality((S \ {x}) \ B) = Cardinality(S \ {x}) - Cardinality((S \ {x}) \cap B)
  BY <1>3, <1>4, FS_Difference
<1>6. Cardinality(A) = Cardinality(S) - 1 - Cardinality(B)
  BY <1>2, <1>3, <1>4, <1>5
<1>. QED
  BY <1>6 DEF A, B

LEMMA IntsReads ==
    ASSUME Ints!SortedIntAssumption, Sound
    PROVE  Ints!ReadsExact
<1>0. RowAssumption
  BY IntsRows
<1>1. ASSUME NEW k \in Keys, NEW m \in Ints!Elements(k)
      PROVE  /\ Ints!SiRank(k, m) = Cardinality({n \in Ints!Elements(k) : n < m})
             /\ Ints!SiRevRank(k, m) = Cardinality({n \in Ints!Elements(k) : n > m})
  <2>. DEFINE E == row[k]
              c == Cardinality(E)
              b == Cardinality(Below(E, m))
  <2>1. Live(k) /\ Elements(k) = E /\ m \in E /\ Ints!Elements(k) = E
    BY <1>1, IntsSame DEF Elements
  <2>2. E \subseteq Nat /\ IsFiniteSet(E) /\ c \in Nat /\ meta[k].size = c
    BY <1>0, <2>1, SoundAt, MembersFinite
  <2>3. b \in 0 .. (c - 1) /\ Cardinality({n \in E : n > m}) = c - 1 - b
    BY <2>1, <2>2, RankBound, RanksBothWays
  <2>4. Ints!RankOf(k, m) = b /\ Cardinality({n \in E : n < m}) = b
    BY IntsCardinality DEF Ints!RankOf, Below
  <2>5. Ints!SiRank(k, m) = b
    BY <2>1, <2>4 DEF Ints!SiRank
  <2>6. Ints!SiRevRank(k, m) = IF c - 1 < b THEN 0 ELSE c - 1 - b
    BY <2>1, <2>2, <2>4 DEF Ints!SiRevRank
  <2>7. Ints!SiRevRank(k, m) = c - 1 - b
    <3>. HIDE DEF c, b
    <3>1. ~(c - 1 < b)
      BY <2>2, <2>3
    <3>. QED
      BY <2>6, <3>1
  <2>. QED
    BY <2>1, <2>3, <2>4, <2>5, <2>7
<1>. QED
  BY <1>1, CountIs, IntsCardinality DEF Ints!ReadsExact

----------------------------------------------------------------------------
(* The sorted integers under every call.                                   *)

LEMMA IntsCall ==
    ASSUME Ints!SortedIntAssumption, Sound, NEW k \in Keys, Ints!Call(k)
    PROVE  Sound' /\ Ints!Sets!IntNext
<1>0. RowAssumption
  BY IntsRows
<1>1. ASSUME NEW b \in Batches, asked' = <<"add", k, b>>, Ints!SiAdd(k, b)
      PROVE  Sound' /\ Ints!Sets!IntNext
  BY <1>0, <1>1, IntsAdd DEF Ints!Sets!IntNext
<1>2. ASSUME NEW b \in Batches, asked' = <<"remove", k, b>>, Ints!SiRem(k, b)
      PROVE  Sound' /\ Ints!Sets!IntNext
  BY <1>0, <1>2, IntsRemove DEF Ints!Sets!IntNext
<1>3. ASSUME NEW s \in Spans, asked' = <<"remspan", k, s>>, Ints!RemRangeByValue(k, s)
      PROVE  Sound' /\ Ints!Sets!IntNext
  BY <1>3, IntsRemSpan DEF Ints!Sets!IntNext
<1>4. ASSUME NEW s \in Spans, asked' = <<"count", k, s>>, Ints!Reply(Ints!Count(k, s))
      PROVE  Sound' /\ Ints!Sets!IntNext
  <2>1. Sound' /\ Ints!Sets!Keep(Ints!Count(k, s))
    BY <1>4, IntsCommit, KeptHeld, IntsPut
  <2>2. Ints!Count(k, s) = Ints!Sets!Cardinality(Ints!Sets!Within(k, s))
    BY CountIs, IntsCardinality
  <2>. QED
    BY <1>4, <2>1, <2>2 DEF Ints!Sets!IntNext
<1>5. ASSUME NEW r \in Ranks, asked' = <<"remrank", k, r>>, Ints!RemRangeByRank(k, r)
      PROVE  Sound' /\ Ints!Sets!IntNext
  BY <1>5, IntsRemRank DEF Ints!Sets!IntNext
<1>6. ASSUME asked' = <<"vanish", k>>, Ints!Lapse(k) \/ Ints!Erase(k)
      PROVE  Sound' /\ Ints!Sets!IntNext
  <2>1. Lapse(k) \/ Erase(k)
    BY <1>6, IntsSame DEF Ints!Lapse, Lapse, Ints!Erase, Erase
  <2>2. Sound' /\ Sets!Put(k, {}, ret)
    BY <1>0, <2>1, VanishStep
  <2>3. Ints!Sets!Put(k, {}, ret)
    BY <2>2, IntsPut
  <2>. QED
    BY <1>6, <2>2, <2>3 DEF Ints!Sets!IntNext
<1>. QED
  BY <1>1, <1>2, <1>3, <1>4, <1>5, <1>6 DEF Ints!Call

LEMMA IntsNext ==
    ASSUME Ints!SortedIntAssumption, Sound, [Ints!Next]_(Ints!vars)
    PROVE  Sound' /\ [Ints!Sets!IntNext]_(Ints!Sets!vars)
<1>1. ASSUME NEW k \in Keys, Ints!Call(k)
      PROVE  Sound' /\ Ints!Sets!IntNext
  BY <1>1, IntsCall
<1>2. ASSUME UNCHANGED <<meta, row, asked, ret>>
      PROVE  Sound' /\ UNCHANGED Ints!Sets!vars
  <2>1. \A k \in Keys : Ints!Elements(k)' = Ints!Elements(k)
    BY <1>2 DEF Ints!Elements, Ints!Live
  <2>. QED
    BY <1>2, <2>1 DEF Sound, SizeExact, Ints!Sets!vars
<1>3. CASE Ints!Next
  <2>1. (\E k \in Keys : Ints!Call(k)) \/ UNCHANGED <<meta, row, asked, ret>>
    BY <1>3 DEF Ints!Next, Ints!ScanBegin, Ints!ScanStep
  <2>. QED
    BY <1>1, <1>2, <2>1
<1>4. CASE UNCHANGED Ints!vars
  BY <1>2, <1>4 DEF Ints!vars
<1>. QED
  BY <1>3, <1>4

LEMMA IntsInit ==
    ASSUME Ints!Init
    PROVE  Sound /\ Ints!Sets!Init
<1>1. \A k \in Keys : Ints!Elements(k) = {}
  BY DEF Ints!Init, Ints!Elements
<1>. QED
  BY <1>1 DEF Ints!Init, Sound, SizeExact, Ints!Sets!Init

(* The size of sorted integers is the number of their rows, and no row     *)
(* lies without a record, for any ids and any largest id: ranks from the   *)
(* end and whole spans, which are answered and removed from the size       *)
(* alone, rest on it (si_revrank, si_count, si_remrangebyrank).            *)
THEOREM IntSizesExact ==
    ASSUME Ints!SortedIntAssumption
    PROVE  Ints!Spec => []Ints!SizeExact
<1>1. Ints!Init => Sound
  BY IntsInit
<1>2. Sound /\ [Ints!Next]_(Ints!vars) => Sound'
  BY IntsNext
<1>3. Sound => Ints!SizeExact
  BY IntsCardinality DEF Sound, SizeExact, Ints!SizeExact
<1>. QED
  BY <1>1, <1>2, <1>3, PTL DEF Ints!Spec

(* The rank of every id from either end is its place among the ids there   *)
(* are, and the count of every span the number of ids in it: with ends     *)
(* excluded, past the largest id and below zero, answered from the record  *)
(* or from the rows (si_rank, si_revrank, si_count).                       *)
THEOREM IntReadsExact ==
    ASSUME Ints!SortedIntAssumption
    PROVE  Ints!Spec => []Ints!ReadsExact
<1>1. Ints!Init => Sound
  BY IntsInit
<1>2. Sound /\ [Ints!Next]_(Ints!vars) => Sound'
  BY IntsNext
<1>3. Sound => Ints!ReadsExact
  BY IntsReads
<1>. QED
  BY <1>1, <1>2, <1>3, PTL DEF Ints!Spec

(* Every command on sorted integers does and answers what the same command *)
(* does on a plain set of numbers: removals by any span or any range of    *)
(* ranks, negative ones from the end, the whole among them, which is       *)
(* cleared without reading the rows (si_remrangebyvalue, si_remrangebyrank). *)
THEOREM IntsImplementRedisSets ==
    ASSUME Ints!SortedIntAssumption
    PROVE  Ints!Spec => Ints!ImplementsRedisSets
<1>1. Ints!Init => Sound /\ Ints!Sets!Init
  BY IntsInit
<1>2. Sound /\ [Ints!Next]_(Ints!vars) => Sound' /\ [Ints!Sets!IntNext]_(Ints!Sets!vars)
  BY IntsNext
<1>. QED
  BY <1>1, <1>2, PTL DEF Ints!Spec, Ints!ImplementsRedisSets
----------------------------------------------------------------------------
(* The client that pages through sorted integers, up or down.              *)

\* y comes no later than x.
Before(reversed, y, x) == IF reversed THEN x <= y ELSE y <= x

LEMMA BeforeOrder ==
    ASSUME NEW reversed \in BOOLEAN, NEW x \in Nat, NEW y \in Nat
    PROVE  /\ Before(reversed, x, x)
           /\ Before(reversed, x, y) \/ Before(reversed, y, x)
           /\ Before(reversed, x, y) /\ Before(reversed, y, x) => x = y
           /\ \A z \in Nat : Before(reversed, x, y) /\ Before(reversed, y, z) => Before(reversed, x, z)
           /\ (IF reversed THEN x < y ELSE x > y) <=> ~Before(reversed, x, y)
<1>1. CASE reversed
  BY <1>1 DEF Before
<1>2. CASE ~reversed
  BY <1>2 DEF Before
<1>. QED
  BY <1>1, <1>2

\* The ids seen from the other end.
Mirror(S) == {MaxId - m : m \in S}

LEMMA MirrorIs ==
    ASSUME MaxId \in Nat, NEW S, S \subseteq 0 .. MaxId
    PROVE  /\ Mirror(S) \subseteq Nat /\ IsFiniteSet(S) /\ IsFiniteSet(Mirror(S))
           /\ Cardinality(Mirror(S)) = Cardinality(S)
           /\ \A m \in 0 .. MaxId : MaxId - m \in Mirror(S) <=> m \in S
<1>. DEFINE f == [m \in S |-> MaxId - m]
<1>1. IsFiniteSet(S)
  <2>1. IsFiniteSet(0 .. MaxId)
    BY FS_Interval
  <2>. QED
    BY <2>1, FS_Subset
<1>2. \A m, n \in 0 .. MaxId : MaxId - m \in Nat /\ (MaxId - m = MaxId - n => m = n)
  OBVIOUS
<1>3. f \in Bijection(S, Mirror(S))
  <2>1. f \in [S -> Mirror(S)]
    BY DEF Mirror
  <2>2. \A m, n \in S : f[m] = f[n] => m = n
    BY <1>2
  <2>3. \A x \in Mirror(S) : \E m \in S : f[m] = x
    BY DEF Mirror
  <2>. QED
    BY <2>1, <2>2, <2>3 DEF Bijection, Injection, Surjection, IsInjective
<1>4. IsFiniteSet(Mirror(S)) /\ Cardinality(Mirror(S)) = Cardinality(S)
  BY <1>1, <1>3, FS_Bijection DEF ExistsBijection
<1>5. Mirror(S) \subseteq Nat
  BY <1>2 DEF Mirror
<1>6. \A m \in 0 .. MaxId : MaxId - m \in Mirror(S) <=> m \in S
  BY <1>2 DEF Mirror
<1>. QED
  BY <1>1, <1>4, <1>5, <1>6

\* A page, up or down, is a beginning of what is left, full unless it is all.
LEMMA PageIs ==
    ASSUME MaxId \in Nat, NEW S, S \subseteq 0 .. MaxId, NEW n \in Nat, NEW reversed \in BOOLEAN
    PROVE  LET page == Ints!FirstOf(S, n, reversed)
           IN  /\ page \subseteq S /\ IsFiniteSet(page) /\ Cardinality(page) \in 0 .. n
               /\ page # S => Cardinality(page) = n
               /\ \A x \in page, y \in S : Before(reversed, y, x) => y \in page
<1>. DEFINE page == Ints!FirstOf(S, n, reversed)
<1>0. S \subseteq Nat /\ IsFiniteSet(S)
  <2>1. IsFiniteSet(S)
    BY MirrorIs
  <2>2. \A x \in 0 .. MaxId : x \in Nat
    OBVIOUS
  <2>. QED
    BY <2>1, <2>2
<1>1. CASE ~reversed
  <2>1. page = Firsts(S, n)
    <3>1. page = {m \in S : Cardinality({x \in S : x < m}) < n}
      BY <1>1, IntsCardinality DEF Ints!FirstOf
    <3>. QED
      BY <3>1 DEF Firsts, Below
  <2>2. \A x \in page, y \in S : y <= x => y \in page
    BY <1>0, <2>1, FirstsBelow
  <2>3. /\ page \subseteq S /\ IsFiniteSet(page) /\ Cardinality(page) \in 0 .. n
        /\ page # S => Cardinality(page) = n
    <3>. HIDE DEF page
    <3>1. /\ IsFiniteSet(Firsts(S, n)) /\ Cardinality(Firsts(S, n)) \in 0 .. n
          /\ Firsts(S, n) # S => Cardinality(Firsts(S, n)) = n
      BY <1>0, FirstsSize
    <3>. QED
      BY <2>1, <3>1, FirstsIn
  <2>. QED
    BY <1>1, <2>2, <2>3 DEF Before
<1>2. CASE reversed
  <2>. DEFINE T == Mirror(S)
              F == Firsts(T, n)
  <2>1. T \subseteq Nat /\ IsFiniteSet(T) /\ Cardinality(T) = Cardinality(S)
        /\ \A m \in S : m \in 0 .. MaxId /\ MaxId - m \in T
    BY MirrorIs
  <2>2. ASSUME NEW m \in S
        PROVE  Cardinality({x \in S : x > m}) = Cardinality(Below(T, MaxId - m))
    <3>. DEFINE A == {x \in S : x > m}
    <3>1. A \subseteq 0 .. MaxId
      OBVIOUS
    <3>2. \A x \in S : x > m <=> MaxId - x < MaxId - m
      <4>1. \A x \in 0 .. MaxId : x > m <=> MaxId - x < MaxId - m
        BY <2>1
      <4>. QED
        BY <4>1
    <3>3. Mirror(A) = Below(T, MaxId - m)
      BY <3>2 DEF Mirror, Below
    <3>. HIDE DEF A, T
    <3>4. Cardinality(Mirror(A)) = Cardinality(A)
      BY <3>1, MirrorIs
    <3>. QED
      BY <3>3, <3>4 DEF A
  <2>3. \A m \in S : m \in page <=> MaxId - m \in F
    <3>1. \A m \in S : m \in page <=> Cardinality({x \in S : x > m}) < n
      BY <1>2, IntsCardinality DEF Ints!FirstOf
    <3>2. \A m \in S : MaxId - m \in F <=> Cardinality(Below(T, MaxId - m)) < n
      BY <2>1, FirstsIn
    <3>. QED
      BY <2>2, <3>1, <3>2
  <2>4. page \subseteq S
    BY DEF Ints!FirstOf
  <2>. HIDE DEF page
  <2>5. F \subseteq T /\ Cardinality(F) \in 0 .. n /\ (F # T => Cardinality(F) = n)
    BY <2>1, FirstsIn, FirstsSize
  <2>6. Mirror(page) = F
    <3>1. \A x \in F : \E m \in S : x = MaxId - m
      BY <2>5 DEF Mirror
    <3>2. \A x : x \in Mirror(page) <=> \E m \in page : x = MaxId - m
      BY DEF Mirror
    <3>. HIDE DEF F
    <3>. QED
      BY <2>3, <2>4, <3>1, <3>2
  <2>7. Cardinality(page) = Cardinality(F) /\ IsFiniteSet(page)
    <3>1. page \subseteq 0 .. MaxId
      BY <2>4
    <3>. QED
      BY <2>6, <3>1, MirrorIs
  <2>8. page # S => F # T
    BY <2>1, <2>3, <2>4
  <2>9. ASSUME NEW x \in page, NEW y \in S, x <= y PROVE y \in page
    <3>1. MaxId - x \in F /\ MaxId - y \in T /\ MaxId - y <= MaxId - x
      BY <2>1, <2>3, <2>4, <2>9
    <3>2. MaxId - y \in F
      BY <2>1, <3>1, FirstsBelow
    <3>. QED
      BY <2>3, <3>2
  <2>. QED
    BY <1>2, <2>4, <2>5, <2>7, <2>8, <2>9 DEF page, Before
<1>. QED
  BY <1>1, <1>2

LEMMA FurthestIs ==
    ASSUME NEW S, S \subseteq Nat, IsFiniteSet(S), S # {}, NEW reversed \in BOOLEAN
    PROVE  /\ Ints!FurthestOf(S, reversed) \in S
           /\ \A x \in S : Before(reversed, x, Ints!FurthestOf(S, reversed))
<1>1. CASE reversed
  BY <1>1, LeastOf DEF Ints!FurthestOf, Before
<1>2. CASE ~reversed
  BY <1>2, GreatestOf DEF Ints!FurthestOf, Before
<1>. QED
  BY <1>1, <1>2

IntScans == [key : Keys \cup {Absent}, reversed : BOOLEAN, cursor : Nat, seen : SUBSET Members,
             due : SUBSET Members, again : BOOLEAN, over : BOOLEAN]

\* A scan under way over the elements E: at its beginning, or at a cursor with
\* all it met no later than that, and all that is due and no later met.
IntFollows(s, E) ==
    /\ s.due \subseteq E
    /\ \/ s.cursor = 0 /\ s.seen = {}
       \/ /\ s.cursor # 0
          /\ \A x \in s.seen : Before(s.reversed, x, s.cursor)
          /\ \A x \in s.due : Before(s.reversed, x, s.cursor) => x \in s.seen

IntComplete(s) == ~(s.seen = {0} /\ ~s.reversed) => s.due \subseteq s.seen

IntScanSound ==
    /\ scan \in IntScans
    /\ ~scan.again
    /\ scan.over => IntComplete(scan)
    /\ ~scan.over => scan.key \in Keys /\ IntFollows(scan, Elements(scan.key))

\* What a page makes of a scan s over the elements E.
IntPaged(E, s, t) ==
    \E page, last : \E again, over \in BOOLEAN :
        /\ page = Ints!FirstOf({m \in E : s.cursor = 0 \/ IF s.reversed THEN m < s.cursor ELSE m > s.cursor},
                               PageSize, s.reversed)
        /\ last = IF page = {} THEN 0 ELSE Ints!FurthestOf(page, s.reversed)
        /\ again = (s.again \/ page \cap s.seen # {})
        /\ over = (Cardinality(page) < PageSize \/ last = 0)
        /\ t = [s EXCEPT !.seen = @ \cup page, !.cursor = last, !.again = again, !.over = over]

LEMMA IntPage ==
    ASSUME Ints!SortedIntAssumption, NEW E, E \subseteq Members, NEW s \in IntScans, ~s.again,
           IntFollows(s, E), NEW t, IntPaged(E, s, t)
    PROVE  /\ t \in IntScans /\ t.key = s.key /\ ~t.again
           /\ t.over => IntComplete(t)
           /\ ~t.over => IntFollows(t, E)
<1>. DEFINE R == {m \in E : s.cursor = 0 \/ IF s.reversed THEN m < s.cursor ELSE m > s.cursor}
<1>0. PICK page, last : \E again, over \in BOOLEAN :
        /\ page = Ints!FirstOf(R, PageSize, s.reversed)
        /\ last = IF page = {} THEN 0 ELSE Ints!FurthestOf(page, s.reversed)
        /\ again = (s.again \/ page \cap s.seen # {})
        /\ over = (Cardinality(page) < PageSize \/ last = 0)
        /\ t = [s EXCEPT !.seen = @ \cup page, !.cursor = last, !.again = again, !.over = over]
  BY DEF IntPaged
<1>0a. PICK again \in BOOLEAN, over \in BOOLEAN :
        /\ page = Ints!FirstOf(R, PageSize, s.reversed)
        /\ last = IF page = {} THEN 0 ELSE Ints!FurthestOf(page, s.reversed)
        /\ again = (s.again \/ page \cap s.seen # {})
        /\ over = (Cardinality(page) < PageSize \/ last = 0)
        /\ t = [s EXCEPT !.seen = @ \cup page, !.cursor = last, !.again = again, !.over = over]
  BY <1>0
<1>1. /\ MaxId \in Nat /\ PageSize \in Nat /\ PageSize > 0
      /\ s.reversed \in BOOLEAN /\ s.cursor \in Nat /\ s.seen \subseteq Members /\ s.due \subseteq E
      /\ \A x \in Members : x \in 0 .. MaxId /\ x \in Nat
  BY IntsRows DEF IntScans, IntFollows
<1>2. \A x \in E : x \in R <=> s.cursor = 0 \/ ~Before(s.reversed, x, s.cursor)
  <2>1. \A x \in E : (IF s.reversed THEN x < s.cursor ELSE x > s.cursor) <=> ~Before(s.reversed, x, s.cursor)
    BY <1>1, BeforeOrder
  <2>. QED
    BY <2>1
<1>3. R \subseteq E
  OBVIOUS
<1>. HIDE DEF R
<1>4. /\ page \subseteq R /\ page \subseteq E /\ page \subseteq Nat
      /\ IsFiniteSet(page) /\ Cardinality(page) \in 0 .. PageSize
      /\ page # R => Cardinality(page) = PageSize
      /\ \A x \in page, y \in R : Before(s.reversed, y, x) => y \in page
  <2>1. R \subseteq 0 .. MaxId
    BY <1>1, <1>3
  <2>2. /\ page \subseteq R /\ IsFiniteSet(page) /\ Cardinality(page) \in 0 .. PageSize
        /\ page # R => Cardinality(page) = PageSize
        /\ \A x \in page, y \in R : Before(s.reversed, y, x) => y \in page
    BY <1>0a, <1>1, <2>1, PageIs
  <2>. QED
    BY <1>1, <1>3, <2>2
<1>5. page # {} => last \in page /\ last \in Nat /\ \A x \in page : Before(s.reversed, x, last)
  BY <1>0a, <1>1, <1>4, FurthestIs
<1>6. last \in Nat
  BY <1>0a, <1>5
<1>7. /\ t.reversed = s.reversed /\ t.due = s.due /\ t.seen = s.seen \cup page /\ t.cursor = last
      /\ t.key = s.key /\ t.again = again /\ t.over = over
      /\ t \in IntScans
  <2>1. s.seen \cup page \subseteq Members
    BY <1>1, <1>4
  <2>2. /\ t.reversed = s.reversed /\ t.due = s.due /\ t.seen = s.seen \cup page /\ t.cursor = last
        /\ t.key = s.key /\ t.again = again /\ t.over = over
    BY <1>0a DEF IntScans
  <2>3. t \in IntScans
    <3>. DEFINE all == s.seen \cup page
    <3>1. t = [s EXCEPT !.seen = all, !.cursor = last, !.again = again, !.over = over]
      BY <1>0a
    <3>2. all \in SUBSET Members
      BY <2>1
    <3>. HIDE DEF all
    <3>. QED
      BY <1>6, <3>1, <3>2 DEF IntScans
  <2>. QED
    BY <2>2, <2>3
<1>8. \/ s.cursor = 0 /\ s.seen = {}
      \/ /\ s.cursor # 0
         /\ \A x \in s.seen : Before(s.reversed, x, s.cursor)
         /\ \A x \in s.due : Before(s.reversed, x, s.cursor) => x \in s.seen
  BY DEF IntFollows
<1>9. page \cap s.seen = {}
  BY <1>2, <1>4, <1>8
<1>10. ~t.again
  BY <1>0a, <1>7, <1>9
\* What is due has been met or lies ahead.
<1>11. \A x \in s.due : x \in s.seen \/ x \in R
  BY <1>1, <1>2, <1>8
<1>12. \A x \in s.due : page # {} /\ Before(s.reversed, x, last) => x \in s.seen \cup page
  BY <1>4, <1>5, <1>11
<1>13. ASSUME t.over PROVE IntComplete(t)
  <2>1. CASE Cardinality(page) < PageSize
    <3>1. page = R
      BY <1>1, <1>4, <2>1
    <3>. QED
      BY <1>7, <1>11, <3>1 DEF IntComplete
  <2>2. CASE ~(Cardinality(page) < PageSize)
    <3>1. page # {} /\ last = 0
      <4>1. Cardinality(page) # 0
        BY <1>1, <1>4, <2>2
      <4>. QED
        BY <1>0a, <1>7, <1>13, <2>2, <4>1, FS_EmptySet
    <3>2. CASE s.reversed
      <4>1. \A x \in s.due : Before(s.reversed, x, last)
        BY <1>1, <3>1, <3>2 DEF Before
      <4>. QED
        BY <1>7, <1>12, <3>1, <4>1 DEF IntComplete
    <3>3. CASE ~s.reversed
      <4>1. page = {0}
        <5>1. 0 \in page /\ \A x \in page : x \in Nat /\ x <= 0
          BY <1>4, <1>5, <3>1, <3>3 DEF Before
        <5>2. \A x \in page : x = 0
          BY <5>1
        <5>. QED
          BY <5>1, <5>2
      <4>2. s.cursor = 0
        <5>1. 0 \in E /\ 0 \in R
          BY <1>4, <4>1
        <5>2. s.cursor = 0 \/ ~(0 <= s.cursor)
          BY <1>2, <3>3, <5>1 DEF Before
        <5>. QED
          BY <1>1, <5>2
      <4>3. t.seen = {0} /\ ~t.reversed
        BY <1>7, <1>8, <3>3, <4>1, <4>2
      <4>. QED
        BY <4>3 DEF IntComplete
    <3>. QED
      BY <3>2, <3>3
  <2>. QED
    BY <2>1, <2>2
<1>14. ASSUME ~t.over PROVE IntFollows(t, E)
  <2>1. last # 0 /\ page # {}
    BY <1>0a, <1>7, <1>14
  <2>2. last \in page /\ last \in R /\ last \in E
    BY <1>4, <1>5, <2>1
  <2>3. ASSUME NEW x \in s.seen PROVE Before(s.reversed, x, last)
    <3>1. s.cursor # 0 /\ Before(s.reversed, x, s.cursor) /\ ~Before(s.reversed, last, s.cursor)
      BY <1>2, <1>8, <2>2, <2>3
    <3>2. x \in Nat /\ last \in Nat
      BY <1>1, <1>6
    <3>3. Before(s.reversed, s.cursor, last)
      BY <1>1, <3>1, <3>2, BeforeOrder
    <3>. QED
      BY <1>1, <3>1, <3>2, <3>3, BeforeOrder
  <2>4. \A x \in t.seen : Before(t.reversed, x, t.cursor)
    BY <1>5, <1>7, <2>1, <2>3
  <2>5. \A x \in t.due : Before(t.reversed, x, t.cursor) => x \in t.seen
    BY <1>7, <1>12, <2>1
  <2>. QED
    BY <1>1, <1>7, <2>1, <2>4, <2>5 DEF IntFollows
<1>. QED
  BY <1>7, <1>10, <1>13, <1>14

LEMMA IntScanSteps ==
    ASSUME Ints!SortedIntAssumption, Sound, IntScanSound, Ints!ScanStep
    PROVE  IntScanSound'
<1>1. PICK k \in Keys : k = scan.key
  BY DEF IntScanSound, Ints!ScanStep
<1>2. PICK E : E = Elements(k)
  OBVIOUS
<1>3. scan \in IntScans /\ ~scan.again /\ IntFollows(scan, E) /\ E \subseteq Members
  BY <1>1, <1>2, IntsRows, SoundAt DEF IntScanSound, Ints!ScanStep
<1>4. Elements(k)' = E
  BY <1>2 DEF Ints!ScanStep, Elements, Live
<1>5. IntPaged(E, scan, scan')
  <2>1. PICK page : page = Ints!SiRange(scan.key, scan.cursor, PageSize, scan.reversed)
    OBVIOUS
  <2>2. PICK last : last = IF page = {} THEN 0 ELSE Ints!FurthestOf(page, scan.reversed)
    OBVIOUS
  <2>3. PICK again \in BOOLEAN : again = (scan.again \/ page \cap scan.seen # {})
    <3>. DEFINE c == scan.again \/ page \cap scan.seen # {}
    <3>1. c = TRUE \/ c = FALSE
      OBVIOUS
    <3>. HIDE DEF c
    <3>2. \E o \in BOOLEAN : o = c
      BY <3>1
    <3>. QED
      BY <3>2 DEF c
  <2>4. PICK over \in BOOLEAN : over = (Cardinality(page) < PageSize \/ last = 0)
    <3>. DEFINE c == Cardinality(page) < PageSize \/ last = 0
    <3>1. c = TRUE \/ c = FALSE
      OBVIOUS
    <3>. HIDE DEF c
    <3>2. \E o \in BOOLEAN : o = c
      BY <3>1
    <3>. QED
      BY <3>2 DEF c
  <2>5. scan' = [scan EXCEPT !.seen = @ \cup page, !.cursor = last, !.again = again, !.over = over]
    BY <2>1, <2>2, <2>3, <2>4, IntsCardinality DEF Ints!ScanStep
  <2>6. page = Ints!FirstOf({m \in E : scan.cursor = 0 \/ IF scan.reversed THEN m < scan.cursor
                                                                          ELSE m > scan.cursor},
                            PageSize, scan.reversed)
    BY <1>1, <1>2, <2>1, IntsSame DEF Ints!SiRange
  <2>. QED
    BY <2>2, <2>3, <2>4, <2>5, <2>6 DEF IntPaged
<1>6. /\ scan' \in IntScans /\ scan'.key = scan.key /\ ~scan'.again
      /\ scan'.over => IntComplete(scan')
      /\ ~scan'.over => IntFollows(scan', E)
  BY <1>3, <1>5, IntPage
<1>. QED
  BY <1>1, <1>4, <1>6 DEF IntScanSound

LEMMA IntScanBegins ==
    ASSUME Ints!SortedIntAssumption, Sound, NEW k \in Scanned, NEW reversed \in BOOLEAN,
           Ints!ScanBegin(k, reversed)
    PROVE  IntScanSound'
<1>1. k \in Keys /\ Elements(k)' = Elements(k) /\ Elements(k) \subseteq Members
  BY IntsRows, SoundAt DEF Ints!ScanBegin, Elements, Live
<1>2. scan' = [key |-> k, reversed |-> reversed, cursor |-> 0, seen |-> {}, due |-> Elements(k),
               again |-> FALSE, over |-> FALSE]
  BY IntsSame DEF Ints!ScanBegin, Ints!Idle
<1>3. scan' \in IntScans /\ ~scan'.again /\ ~scan'.over /\ scan'.key = k
      /\ IntFollows(scan', Elements(k))
  BY <1>1, <1>2 DEF IntScans, IntFollows
<1>. QED
  BY <1>1, <1>3 DEF IntScanSound

LEMMA IntScanWatches ==
    ASSUME Ints!SortedIntAssumption, IntScanSound, Sound', Ints!Watch
    PROVE  IntScanSound'
<1>1. CASE scan.over
  BY <1>1 DEF Ints!Watch, IntScanSound
<1>2. CASE ~scan.over
  <2>1. PICK k \in Keys : k = scan.key
    BY <1>2 DEF IntScanSound
  <2>2. PICK now : now = IF meta'[k] = Absent \/ meta'[k].lapsed THEN {} ELSE row'[k]
    OBVIOUS
  <2>3. scan' = [scan EXCEPT !.due = @ \cap now]
    BY <1>2, <2>1, <2>2 DEF Ints!Watch
  <2>4. now = Elements(k)'
    <3>1. meta'[k] # Absent => meta'[k].size > 0
      BY DEF Sound, SizeExact
    <3>. QED
      BY <2>2, <3>1 DEF Elements, Live
  <2>5. scan \in IntScans /\ ~scan.again /\ IntFollows(scan, Elements(k))
    BY <1>2, <2>1 DEF IntScanSound
  <2>6. /\ scan' \in IntScans /\ ~scan'.again /\ ~scan'.over /\ scan'.key = k
        /\ IntFollows(scan', now)
    BY <1>2, <2>1, <2>3, <2>5 DEF IntScans, IntFollows
  <2>. QED
    BY <2>1, <2>4, <2>6 DEF IntScanSound
<1>. QED
  BY <1>1, <1>2

LEMMA IntScanNext ==
    ASSUME Ints!SortedIntAssumption, Sound, IntScanSound, [Ints!Next]_(Ints!vars)
    PROVE  IntScanSound'
<1>1. ASSUME NEW k \in Keys, Ints!Call(k), Ints!Watch PROVE IntScanSound'
  <2>1. Sound'
    BY <1>1, IntsCall
  <2>. QED
    BY <1>1, <2>1, IntScanWatches
<1>2. CASE \E k \in Scanned, reversed \in BOOLEAN : Ints!ScanBegin(k, reversed)
  BY <1>2, IntScanBegins
<1>3. CASE Ints!ScanStep
  BY <1>3, IntScanSteps
<1>4. CASE UNCHANGED Ints!vars
  <2>1. PICK E : E = Elements(scan.key)
    OBVIOUS
  <2>2. Elements(scan.key)' = E /\ scan' = scan
    BY <1>4, <2>1 DEF Ints!vars, Elements, Live
  <2>3. /\ scan \in IntScans /\ ~scan.again /\ (scan.over => IntComplete(scan))
        /\ ~scan.over => scan.key \in Keys /\ IntFollows(scan, E)
    BY <2>1 DEF IntScanSound
  <2>. QED
    BY <2>2, <2>3 DEF IntScanSound
<1>. QED
  BY <1>1, <1>2, <1>3, <1>4 DEF Ints!Next

LEMMA IntScanInit ==
    ASSUME Ints!Init
    PROVE  IntScanSound
BY DEF Ints!Init, Ints!Idle, IntScanSound, IntScans, IntComplete

(* The records and rows of sorted integers have their types, and what a    *)
(* client has been given and is due are ids.                               *)
THEOREM IntTypeCorrect ==
    ASSUME Ints!SortedIntAssumption
    PROVE  Ints!Spec => []Ints!TypeOK
<1>1. Ints!Init => Sound /\ IntScanSound
  BY IntsInit, IntScanInit
<1>2. Sound /\ IntScanSound /\ [Ints!Next]_(Ints!vars) => Sound' /\ IntScanSound'
  BY IntsNext, IntScanNext
<1>3. Sound /\ IntScanSound => Ints!TypeOK
  BY DEF Sound, IntScanSound, IntScans, Ints!TypeOK, Ints!Metas, Metas
<1>. QED
  BY <1>1, <1>2, <1>3, PTL DEF Ints!Spec

(* A client that pages to the end through sorted integers, up or down, by  *)
(* pages of any size, has been given every id that was there from its      *)
(* first page to its last, and none twice, whatever comes and goes between *)
(* its pages.  The cursor is the last id of a page and 0 the beginning,    *)
(* although 0 is an id: only upwards past a page of just 0 does a client   *)
(* not get on (si_range).                                                  *)
THEOREM IntScansComplete ==
    ASSUME Ints!SortedIntAssumption
    PROVE  Ints!Spec => []Ints!ScanComplete
<1>1. Ints!Init => Sound /\ IntScanSound
  BY IntsInit, IntScanInit
<1>2. Sound /\ IntScanSound /\ [Ints!Next]_(Ints!vars) => Sound' /\ IntScanSound'
  BY IntsNext, IntScanNext
<1>3. IntScanSound => Ints!ScanComplete
  BY DEF IntScanSound, IntComplete, Ints!ScanComplete
<1>. QED
  BY <1>1, <1>2, <1>3, PTL DEF Ints!Spec

----------------------------------------------------------------------------
(* Sorted sets: scores, and what the code makes of numbers.                *)

CONSTANTS
    Scores, Additions, Options, Removals, Steps, Sources   \* as in RedisZSets

VARIABLE index       \* the rows in order

Z == INSTANCE ZSetStore

LEMMA ZCardinality ==
    ASSUME NEW S
    PROVE  Z!Cardinality(S) = Cardinality(S) /\ Z!ZSets!Cardinality(S) = Cardinality(S)
BY Zenon DEF Cardinality, Z!Cardinality, Z!ZSets!Cardinality

LEMMA ZToSet ==
    ASSUME NEW s
    PROVE  Z!ToSet(s) = {s[i] : i \in DOMAIN s} /\ Z!ZSets!ToSet(s) = {s[i] : i \in DOMAIN s}
BY Zenon DEF Z!ToSet, Z!ZSets!ToSet

LEMMA ZAssumed ==
    ASSUME Z!ZSetAssumption
    PROVE  /\ \A m \in Members : m \in Nat
           /\ Members \subseteq Nat /\ IsFiniteSet(Members)
           /\ Scores \subseteq Int /\ Absent \notin Int /\ Absent \notin Z!Metas
           /\ \A s \in Scores : s \in Int /\ s # Absent /\ -1 - s \in Scores
<1>1. Z!IsFiniteSet(Members) => IsFiniteSet(Members)
  BY Zenon DEF IsFiniteSet, Z!IsFiniteSet
<1>. QED
  BY <1>1 DEF Z!ZSetAssumption

\* A code and its number, and the order of both.
LEMMA NumberIs ==
    ASSUME NEW a \in Int
    PROVE  /\ Z!Number(a) \in Int /\ Z!ZSets!Number(a) = Z!Number(a)
           /\ a < -1 => Z!Number(a) = a + 1
           /\ a = -1 => Z!Number(a) = 0
           /\ a >= 0 => Z!Number(a) = a
<1>1. Z!Number(a) = (IF a < 0 THEN a + 1 ELSE a) /\ Z!ZSets!Number(a) = (IF a < 0 THEN a + 1 ELSE a)
  BY DEF Z!Number, Z!ZSets!Number
<1>2. CASE a < 0
  BY <1>1, <1>2
<1>3. CASE ~(a < 0)
  BY <1>1, <1>3
<1>. QED
  BY <1>2, <1>3

LEMMA NumberOrder ==
    ASSUME NEW a \in Int, NEW b \in Int
    PROVE  /\ a <= b => Z!Number(a) <= Z!Number(b)
           /\ Z!Number(a) < Z!Number(b) => a < b
           /\ a < b /\ Z!Number(a) = Z!Number(b) => a = -1 /\ b = 0
<1>1. CASE a < 0 /\ b < 0
  BY <1>1 DEF Z!Number
<1>2. CASE a < 0 /\ ~(b < 0)
  BY <1>2 DEF Z!Number
<1>3. CASE ~(a < 0) /\ b < 0
  BY <1>3 DEF Z!Number
<1>4. CASE ~(a < 0) /\ ~(b < 0)
  BY <1>4 DEF Z!Number
<1>. QED
  BY <1>1, <1>2, <1>3, <1>4

LEMMA PlusIs ==
    ASSUME NEW a \in Int, NEW b \in Int
    PROVE  /\ Z!Plus(a, b) \in Int /\ Z!ZSets!Plus(a, b) = Z!Plus(a, b)
           /\ Z!Number(Z!Plus(a, b)) = Z!Number(a) + Z!Number(b)
<1>. DEFINE x == Z!Number(a)
            y == Z!Number(b)
<1>1. x \in Int /\ y \in Int /\ Z!ZSets!Number(a) = x /\ Z!ZSets!Number(b) = y
  BY NumberIs
<1>2. (a = -1 => x = 0) /\ (b = -1 => y = 0)
  BY NumberIs
<1>3. Z!Plus(a, b) = (IF a = -1 /\ b = -1 THEN -1 ELSE Z!Encoded(x + y))
  BY DEF Z!Plus
<1>4. Z!ZSets!Plus(a, b) = (IF a = -1 /\ b = -1 THEN -1 ELSE Z!Encoded(x + y))
  BY <1>1 DEF Z!ZSets!Plus, Z!ZSets!Encoded, Z!Encoded
<1>. HIDE DEF x, y
<1>5. Z!Number(-1) = 0
  BY DEF Z!Number
<1>6. Z!Encoded(x + y) \in Int /\ Z!Number(Z!Encoded(x + y)) = x + y
  <2>1. CASE x + y < 0
    BY <1>1, <2>1 DEF Z!Encoded, Z!Number
  <2>2. CASE ~(x + y < 0)
    BY <1>1, <2>2 DEF Z!Encoded, Z!Number
  <2>. QED
    BY <2>1, <2>2
<1>7. CASE a = -1 /\ b = -1
  BY <1>2, <1>3, <1>4, <1>5, <1>7 DEF x, y
<1>8. CASE ~(a = -1 /\ b = -1)
  BY <1>3, <1>4, <1>6, <1>8 DEF x, y
<1>. QED
  BY <1>7, <1>8

LEMMA WeightedIs ==
    ASSUME Z!ZSetAssumption, NEW s \in Scores, NEW w \in {1, -1}
    PROVE  Z!Weighted(s, w) \in Scores /\ Z!ZSets!Weighted(s, w) = Z!Weighted(s, w)
BY ZAssumed DEF Z!Weighted, Z!ZSets!Weighted

----------------------------------------------------------------------------
(* The two kinds of rows.                                                  *)

\* The members that have a row, and the rows in order that go with them.
Has(r) == {m \in Members : r[m] # Absent}
Entries(r) == {<<r[m], m>> : m \in Has(r)}

Codes == [Members -> Int \cup {Absent}]
Scorings == [Members -> Scores \cup {Absent}]

LEMMA HasFinite ==
    ASSUME Z!ZSetAssumption, NEW r
    PROVE  /\ Has(r) \subseteq Members /\ Has(r) \subseteq Nat /\ IsFiniteSet(Has(r))
           /\ Cardinality(Has(r)) \in Nat
           /\ Cardinality(Has(r)) = 0 <=> Has(r) = {}
<1>1. Has(r) \subseteq Members
  BY DEF Has
<1>. QED
  BY <1>1, ZAssumed, FS_Subset, FS_CardinalityType, FS_EmptySet

LEMMA NoRowsIs ==
    ASSUME Z!ZSetAssumption
    PROVE  /\ Z!NoRows \in Scorings /\ Has(Z!NoRows) = {} /\ Entries(Z!NoRows) = {}
           /\ Cardinality(Has(Z!NoRows)) = 0
<1>1. Z!NoRows \in Scorings /\ Has(Z!NoRows) = {}
  BY DEF Z!NoRows, Scorings, Has
<1>. QED
  BY <1>1, FS_EmptySet DEF Entries

LEMMA EntriesAre ==
    ASSUME Z!ZSetAssumption, NEW r \in Codes
    PROVE  /\ \A e : e \in Entries(r) <=> \E m \in Has(r) : e = <<r[m], m>>
           /\ \A m \in Members : <<r[m], m>> \in Entries(r) <=> m \in Has(r)
           /\ \A e \in Entries(r) : /\ e = <<e[1], e[2]>> /\ e[1] = r[e[2]]
                                    /\ e[2] \in Has(r) /\ e[1] \in Int /\ e[2] \in Nat
           /\ \A m \in Has(r) : r[m] \in Int /\ m \in Nat
<1>1. \A m \in Has(r) : r[m] \in Int /\ m \in Nat
  BY ZAssumed DEF Has, Codes
<1>2. \A e : e \in Entries(r) <=> \E m \in Has(r) : e = <<r[m], m>>
  BY DEF Entries
<1>3. ASSUME NEW m \in Members
      PROVE  <<r[m], m>> \in Entries(r) <=> m \in Has(r)
  BY <1>2
<1>4. ASSUME NEW e \in Entries(r)
      PROVE  /\ e = <<e[1], e[2]>> /\ e[1] = r[e[2]]
             /\ e[2] \in Has(r) /\ e[1] \in Int /\ e[2] \in Nat
  <2>1. PICK m \in Has(r) : e = <<r[m], m>>
    BY <1>2
  <2>2. e[1] = r[m] /\ e[2] = m
    BY <2>1
  <2>. QED
    BY <1>1, <2>1, <2>2
<1>. QED
  BY <1>1, <1>2, <1>3, <1>4

LEMMA ScoringIsCode ==
    ASSUME Z!ZSetAssumption, NEW r \in Scorings
    PROVE  /\ r \in Codes /\ \A m \in Has(r) : r[m] \in Scores
           /\ Entries(r) \in SUBSET (Scores \X Members)
<1>1. r \in Codes
  BY ZAssumed DEF Codes, Scorings
<1>2. \A m \in Has(r) : r[m] \in Scores /\ m \in Members
  BY DEF Has, Scorings
<1>. QED
  BY <1>1, <1>2 DEF Entries

\* As many entries as members named in them.
LEMMA NamesOf ==
    ASSUME Z!ZSetAssumption, NEW r \in Codes, NEW A, A \subseteq Entries(r)
    PROVE  /\ IsFiniteSet(A) /\ Cardinality({e[2] : e \in A}) = Cardinality(A)
           /\ Cardinality(A) \in Nat
           /\ {e[2] : e \in A} = {m \in Has(r) : <<r[m], m>> \in A}
<1>. DEFINE N == {e[2] : e \in A}
            f == [m \in N |-> <<r[m], m>>]
<1>1. N = {m \in Has(r) : <<r[m], m>> \in A}
  <2>1. ASSUME NEW e \in A PROVE e[2] \in Has(r) /\ <<r[e[2]], e[2]>> \in A
    <3>1. e \in Entries(r)
      OBVIOUS
    <3>. QED
      BY <3>1, EntriesAre
  <2>2. ASSUME NEW m \in Has(r), <<r[m], m>> \in A PROVE m \in N
    <3>1. <<r[m], m>>[2] = m
      OBVIOUS
    <3>. QED
      BY <2>2, <3>1
  <2>. QED
    BY <2>1, <2>2
<1>2. IsFiniteSet(N)
  BY <1>1, HasFinite, FS_Subset
<1>3. \A e \in A : e[2] \in N /\ e = <<r[e[2]], e[2]>>
  BY EntriesAre
<1>4. f \in Bijection(N, A)
  <2>1. \A m \in N : f[m] = <<r[m], m>> /\ f[m] \in A /\ f[m][2] = m
    BY <1>1
  <2>2. f \in [N -> A]
    BY <2>1
  <2>3. \A m, n \in N : f[m] = f[n] => m = n
    BY <2>1
  <2>4. \A e \in A : \E m \in N : f[m] = e
    BY <1>3, <2>1
  <2>. HIDE DEF f, N
  <2>. QED
    BY <2>2, <2>3, <2>4 DEF Bijection, Injection, Surjection, IsInjective
<1>5. IsFiniteSet(A) /\ Cardinality(N) = Cardinality(A)
  <2>. HIDE DEF f, N
  <2>. QED
    BY <1>2, <1>4, FS_Bijection DEF ExistsBijection
<1>. QED
  BY <1>1, <1>5, FS_CardinalityType

----------------------------------------------------------------------------
(* The order of the entries, which is one of members too.                  *)

Prior(r, a, b) == r[a] < r[b] \/ (r[a] = r[b] /\ a < b)
Earlier(r, m) == {x \in Has(r) : Prior(r, x, m)}
Later(r, m) == {x \in Has(r) : Prior(r, m, x)}

LEMMA PriorOrder ==
    ASSUME Z!ZSetAssumption, NEW r \in Codes
    PROVE  /\ \A a \in Has(r) : ~Prior(r, a, a)
           /\ \A a, b \in Has(r) : a # b => Prior(r, a, b) \/ Prior(r, b, a)
           /\ \A a, b \in Has(r) : ~(Prior(r, a, b) /\ Prior(r, b, a))
           /\ \A a, b, c \in Has(r) : Prior(r, a, b) /\ Prior(r, b, c) => Prior(r, a, c)
<1>1. \A m \in Has(r) : r[m] \in Int /\ m \in Nat
  BY EntriesAre
<1>. QED
  BY <1>1 DEF Prior

LEMMA InOrderIs ==
    ASSUME NEW r, NEW a, NEW b
    PROVE  Z!InOrder(<<r[a], a>>, <<r[b], b>>) <=> Prior(r, a, b)
BY DEF Z!InOrder, Prior

LEMMA EarlierFinite ==
    ASSUME Z!ZSetAssumption, NEW r, NEW m
    PROVE  /\ Earlier(r, m) \subseteq Has(r) /\ Later(r, m) \subseteq Has(r)
           /\ IsFiniteSet(Earlier(r, m)) /\ IsFiniteSet(Later(r, m))
           /\ Cardinality(Earlier(r, m)) \in Nat /\ Cardinality(Later(r, m)) \in Nat
BY HasFinite, FS_Subset, FS_CardinalityType DEF Earlier, Later

LEMMA EarlierGrows ==
    ASSUME Z!ZSetAssumption, NEW r \in Codes, NEW a \in Has(r), NEW b \in Has(r), Prior(r, a, b)
    PROVE  /\ Cardinality(Earlier(r, a)) < Cardinality(Earlier(r, b))
           /\ Cardinality(Later(r, b)) < Cardinality(Later(r, a))
<1>1. /\ Earlier(r, a) \subseteq Earlier(r, b) /\ a \in Earlier(r, b) /\ a \notin Earlier(r, a)
      /\ Later(r, b) \subseteq Later(r, a) /\ b \in Later(r, a) /\ b \notin Later(r, b)
  BY PriorOrder DEF Earlier, Later
<1>. QED
  BY <1>1, EarlierFinite, FS_Subset

\* Of a set of members that have rows, one comes first and one comes last.
LEMMA FirstAndLast ==
    ASSUME Z!ZSetAssumption, NEW r \in Codes, NEW S, S \subseteq Has(r), S # {}
    PROVE  /\ \E m \in S : \A x \in S : x = m \/ Prior(r, m, x)
           /\ \E m \in S : \A x \in S : x = m \/ Prior(r, x, m)
<1>. DEFINE T == {Cardinality(Earlier(r, x)) : x \in S}
            U == {Cardinality(Later(r, x)) : x \in S}
<1>1. T \subseteq Nat /\ T # {} /\ U \subseteq Nat /\ U # {}
  BY EarlierFinite
<1>2. (\E n \in T : \A i \in T : n <= i) /\ (\E n \in U : \A i \in U : n <= i)
  <2>. HIDE DEF T, U
  <2>. QED
    BY <1>1, LeastOf
<1>3. PICK m \in S : \A x \in S : Cardinality(Earlier(r, m)) <= Cardinality(Earlier(r, x))
  BY <1>2
<1>4. PICK n \in S : \A x \in S : Cardinality(Later(r, n)) <= Cardinality(Later(r, x))
  BY <1>2
<1>5. \A x \in S : ~Prior(r, x, m) /\ ~Prior(r, n, x)
  <2>. TAKE x \in S
  <2>1. Prior(r, x, m) => Cardinality(Earlier(r, x)) < Cardinality(Earlier(r, m))
    BY EarlierGrows
  <2>2. Prior(r, n, x) => Cardinality(Later(r, x)) < Cardinality(Later(r, n))
    BY EarlierGrows
  <2>. QED
    BY <1>3, <1>4, <2>1, <2>2, EarlierFinite
<1>. QED
  BY <1>5, PriorOrder

\* A member, those before it and those after it are all.
LEMMA PlacesBothWays ==
    ASSUME Z!ZSetAssumption, NEW r \in Codes, NEW m \in Has(r)
    PROVE  /\ Cardinality(Later(r, m)) = Cardinality(Has(r)) - 1 - Cardinality(Earlier(r, m))
           /\ Cardinality(Earlier(r, m)) \in 0 .. (Cardinality(Has(r)) - 1)
<1>. DEFINE S == Has(r)
            B == Earlier(r, m)
            A == Later(r, m)
<1>1. A = (S \ {m}) \ B /\ B \subseteq S \ {m}
  BY PriorOrder DEF Earlier, Later
<1>2. /\ IsFiniteSet(S \ {m}) /\ Cardinality(S \ {m}) = Cardinality(S) - 1
      /\ Cardinality(S) \in Nat
  BY HasFinite, FS_RemoveElement
<1>3. IsFiniteSet(B) /\ (S \ {m}) \cap B = B
  BY <1>1, EarlierFinite
<1>4. Cardinality(A) \in Nat /\ Cardinality(B) \in Nat
  BY EarlierFinite
<1>. HIDE DEF A, B, S
<1>5. Cardinality((S \ {m}) \ B) = Cardinality(S \ {m}) - Cardinality((S \ {m}) \cap B)
  BY <1>2, <1>3, FS_Difference
<1>6. Cardinality(A) = Cardinality(S) - 1 - Cardinality(B)
  BY <1>1, <1>2, <1>3, <1>5
<1>7. Cardinality(B) \in 0 .. (Cardinality(S) - 1)
  BY <1>2, <1>4, <1>6
<1>. QED
  BY <1>6, <1>7 DEF A, B, S

\* The entries before and after one are those of the members before and after.
LEMMA AheadIs ==
    ASSUME Z!ZSetAssumption, NEW r \in Codes, NEW m \in Has(r)
    PROVE  /\ Cardinality(Z!Ahead(Entries(r), <<r[m], m>>)) = Cardinality(Earlier(r, m))
           /\ Cardinality({y \in Entries(r) : Z!InOrder(<<r[m], m>>, y)}) = Cardinality(Later(r, m))
<1>. DEFINE e == <<r[m], m>>
            A == Z!Ahead(Entries(r), e)
            B == {y \in Entries(r) : Z!InOrder(e, y)}
<1>1. \A x \in Has(r) : <<r[x], x>> \in A <=> Prior(r, x, m)
  BY EntriesAre, InOrderIs DEF Z!Ahead, Has
<1>2. \A x \in Has(r) : <<r[x], x>> \in B <=> Prior(r, m, x)
  BY EntriesAre, InOrderIs DEF Has
<1>3. A \subseteq Entries(r) /\ B \subseteq Entries(r)
  BY DEF Z!Ahead
<1>. HIDE DEF A, B
<1>4. {x \in Has(r) : <<r[x], x>> \in A} = Earlier(r, m)
  BY <1>1 DEF Earlier
<1>5. {x \in Has(r) : <<r[x], x>> \in B} = Later(r, m)
  BY <1>2 DEF Later
<1>6. Cardinality(A) = Cardinality(Earlier(r, m))
  BY <1>3, <1>4, NamesOf
<1>7. Cardinality(B) = Cardinality(Later(r, m))
  BY <1>3, <1>5, NamesOf
<1>. QED
  BY <1>6, <1>7 DEF A, B

----------------------------------------------------------------------------
(* What a step writes at one key.                                          *)

\* A record, members' rows and rows in order that belong together.
ZFits(m, r, x) ==
    /\ m \in Z!Metas \cup {Absent}
    /\ r \in Scorings
    /\ x = Entries(r)
    /\ IF m = Absent THEN Has(r) = {} ELSE m.size > 0 /\ m.size = Cardinality(Has(r))

ZSound ==
    /\ meta \in [Keys -> Z!Metas \cup {Absent}]
    /\ row \in [Keys -> Scorings]
    /\ index \in [Keys -> SUBSET (Scores \X Members)]
    /\ \A k \in Keys : ZFits(meta[k], row[k], index[k])

\* The scores a client sees at k; what a step leaves there, and elsewhere
\* what there was.
Shown(k) == IF Z!Live(k) THEN row[k] ELSE Z!NoRows
ShownAt(k, g) == \A i \in Keys : Shown(i)' = IF i = k THEN g ELSE Shown(i)

LEMMA ShownIs ==
    ASSUME Z!ZSetAssumption, ZSound, NEW k \in Keys
    PROVE  /\ Shown(k) \in Scorings /\ Shown(k) \in Codes
           /\ Z!Ordered(k) = Entries(Shown(k))
           /\ Z!Size(k) = Cardinality(Has(Shown(k)))
           /\ \A m \in Members : Z!ScoreOf(k, m) = Shown(k)[m]
           /\ Z!Live(k) <=> Has(Shown(k)) # {}
           /\ Z!Live(k) => /\ meta[k] \in Z!Metas /\ meta[k] # Absent /\ Shown(k) = row[k]
                           /\ index[k] = Entries(Shown(k))
                           /\ meta[k].size = Cardinality(Has(Shown(k)))
           /\ ~Z!Live(k) => Shown(k) = Z!NoRows
<1>1. ZFits(meta[k], row[k], index[k])
  BY DEF ZSound
<1>2. Shown(k) \in Scorings /\ Shown(k) \in Codes
  BY <1>1, NoRowsIs, ScoringIsCode DEF Shown, ZFits
<1>3. CASE Z!Live(k)
  <2>1. meta[k] # Absent /\ meta[k].size > 0
    BY <1>3 DEF Z!Live
  <2>2. /\ meta[k] \in Z!Metas /\ meta[k].size = Cardinality(Has(row[k]))
        /\ index[k] = Entries(row[k])
    BY <1>1, <2>1 DEF ZFits
  <2>3. Shown(k) = row[k]
    BY <1>3 DEF Shown
  <2>4. Has(row[k]) # {}
    BY <2>1, <2>2, HasFinite
  <2>5. /\ Z!Ordered(k) = index[k] /\ Z!Size(k) = meta[k].size
        /\ \A m \in Members : Z!ScoreOf(k, m) = row[k][m]
    BY <1>3 DEF Z!Ordered, Z!Size, Z!ScoreOf
  <2>. QED
    BY <1>2, <1>3, <2>1, <2>2, <2>3, <2>4, <2>5
<1>4. CASE ~Z!Live(k)
  <2>1. Shown(k) = Z!NoRows
    BY <1>4 DEF Shown
  <2>2. \A m \in Members : Z!NoRows[m] = Absent
    BY DEF Z!NoRows
  <2>3. /\ Z!Ordered(k) = {} /\ Z!Size(k) = 0
        /\ \A m \in Members : Z!ScoreOf(k, m) = Absent
    BY <1>4 DEF Z!Ordered, Z!Size, Z!ScoreOf
  <2>. QED
    BY <1>2, <1>4, <2>1, <2>2, <2>3, NoRowsIs
<1>. QED
  BY <1>3, <1>4

\* Every step writes what belongs together, at one key.
LEMMA ZWritten ==
    ASSUME Z!ZSetAssumption, ZSound, NEW k \in Keys, NEW m, NEW r, NEW x, ZFits(m, r, x),
           meta' = [meta EXCEPT ![k] = m], row' = [row EXCEPT ![k] = r],
           index' = [index EXCEPT ![k] = x]
    PROVE  ZSound' /\ ShownAt(k, IF m # Absent /\ ~m.lapsed THEN r ELSE Z!NoRows)
<1>1. \A i \in Keys : /\ meta'[i] = (IF i = k THEN m ELSE meta[i])
                      /\ row'[i] = (IF i = k THEN r ELSE row[i])
                      /\ index'[i] = (IF i = k THEN x ELSE index[i])
  BY DEF ZSound
<1>2. x \in SUBSET (Scores \X Members)
  BY ScoringIsCode DEF ZFits
<1>3. ZSound'
  <2>1. /\ meta' \in [Keys -> Z!Metas \cup {Absent}] /\ row' \in [Keys -> Scorings]
        /\ index' \in [Keys -> SUBSET (Scores \X Members)]
    BY <1>2 DEF ZSound, ZFits
  <2>2. \A i \in Keys : ZFits(meta'[i], row'[i], index'[i])
    BY <1>1 DEF ZSound
  <2>. QED
    BY <2>1, <2>2 DEF ZSound, Scorings, ZFits, Entries, Has, Z!Metas
<1>4. Z!Live(k)' <=> m # Absent /\ ~m.lapsed
  BY <1>1 DEF Z!Live, ZFits
<1>5. Shown(k)' = (IF m # Absent /\ ~m.lapsed THEN r ELSE Z!NoRows)
  BY <1>1, <1>4 DEF Shown, Z!NoRows
<1>6. \A i \in Keys : i # k => Shown(i)' = Shown(i)
  BY <1>1 DEF Shown, Z!Live, Z!NoRows
<1>. QED
  BY <1>3, <1>5, <1>6 DEF ShownAt

\* commit_zset_batch of a view that belongs together.
LEMMA ZCommitted ==
    ASSUME Z!ZSetAssumption, ZSound, NEW k \in Keys, NEW h, Z!Commit(k, h),
           h.row \in Scorings, h.index = Entries(h.row), h.size = Cardinality(Has(h.row))
    PROVE  ZSound' /\ ShownAt(k, h.row)
<1>. DEFINE m == IF h.size = 0 THEN Absent ELSE [size |-> h.size, lapsed |-> FALSE]
            r == h.row
            x == h.index
<1>1. /\ meta' = [meta EXCEPT ![k] = m] /\ row' = [row EXCEPT ![k] = r]
      /\ index' = [index EXCEPT ![k] = x]
  BY DEF Z!Commit
<1>2. h.size \in Nat /\ (h.size = 0 <=> Has(r) = {})
  BY HasFinite
<1>3. h.size # 0 => m \in Z!Metas /\ m # Absent /\ m.size = h.size /\ ~m.lapsed
  <2>1. h.size # 0 => m \in Z!Metas
    BY <1>2 DEF Z!Metas
  <2>. QED
    BY <2>1, ZAssumed
<1>4. ZFits(m, r, x)
  BY <1>2, <1>3 DEF ZFits
<1>5. (IF m # Absent /\ ~m.lapsed THEN r ELSE Z!NoRows) = r
  <2>1. CASE h.size = 0
    <3>1. \A i \in Members : r[i] = Absent
      BY <1>2, <2>1 DEF Has
    <3>2. r = Z!NoRows
      BY <3>1 DEF Scorings, Z!NoRows
    <3>. QED
      BY <2>1, <3>2
  <2>2. CASE h.size # 0
    BY <1>3, <2>2
  <2>. QED
    BY <2>1, <2>2
<1>. HIDE DEF m, r, x
<1>6. ZSound' /\ ShownAt(k, IF m # Absent /\ ~m.lapsed THEN r ELSE Z!NoRows)
  BY <1>1, <1>4, ZWritten
<1>. QED
  BY <1>5, <1>6 DEF r

----------------------------------------------------------------------------
(* The same in RedisZSets.                                                 *)

LEMMA ZHeldIs ==
    ASSUME Z!ZSetAssumption, ZSound, NEW k \in Keys
    PROVE  /\ [i \in Keys |-> [m \in Members |-> Z!ScoreOf(i, m)]][k] = Shown(k)
           /\ Z!ZSets!In(k) = Has(Shown(k))
           /\ \A a, b \in Members : Z!ZSets!Before(k, a, b) <=> Prior(Shown(k), a, b)
           /\ \A m \in Members : Z!ZSets!Rank(k, m) = Cardinality(Earlier(Shown(k), m))
<1>. DEFINE held == [i \in Keys |-> [m \in Members |-> Z!ScoreOf(i, m)]]
<1>1. held[k] = [m \in Members |-> Z!ScoreOf(k, m)]
  OBVIOUS
<1>2. held[k] = Shown(k)
  BY <1>1, ShownIs DEF Scorings
<1>3. Z!ZSets!In(k) = Has(Shown(k))
  BY <1>2 DEF Z!ZSets!In, Has
<1>4. \A a, b \in Members : Z!ZSets!Before(k, a, b) <=> Prior(Shown(k), a, b)
  BY <1>2 DEF Z!ZSets!Before, Prior
<1>5. ASSUME NEW m \in Members
      PROVE  Z!ZSets!Rank(k, m) = Cardinality(Earlier(Shown(k), m))
  <2>1. {x \in Z!ZSets!In(k) : Z!ZSets!Before(k, x, m)} = Earlier(Shown(k), m)
    BY <1>3, <1>4 DEF Earlier, Has
  <2>. QED
    BY <2>1, ZCardinality DEF Z!ZSets!Rank
<1>. QED
  BY <1>2, <1>3, <1>4, <1>5

LEMMA ZHeldNext ==
    ASSUME Z!ZSetAssumption, ZSound, ZSound', NEW k \in Keys, NEW g, ShownAt(k, g)
    PROVE  /\ [i \in Keys |-> [m \in Members |-> Z!ScoreOf(i, m)]]' =
                  [[i \in Keys |-> [m \in Members |-> Z!ScoreOf(i, m)]] EXCEPT ![k] = g]
           /\ [i \in Keys |-> [m \in Members |-> Z!ScoreOf(i, m)]]'[k] = g
<1>1. \A i \in Keys : [m \in Members |-> Z!ScoreOf(i, m)] = Shown(i)
  BY ShownIs DEF Scorings
<1>2. \A i \in Keys : [m \in Members |-> Z!ScoreOf(i, m)]' = Shown(i)'
  <2>. TAKE i \in Keys
  <2>1. CASE Z!Live(i)'
    <3>1. row'[i] \in [Members -> Scores \cup {Absent}]
      BY DEF ZSound, Scorings
    <3>. QED
      BY <2>1, <3>1 DEF Shown, Z!ScoreOf
  <2>2. CASE ~Z!Live(i)'
    BY <2>2 DEF Shown, Z!ScoreOf, Z!NoRows
  <2>. QED
    BY <2>1, <2>2
<1>3. \A i \in Keys : Shown(i)' = IF i = k THEN g ELSE Shown(i)
  BY DEF ShownAt
<1>. DEFINE f == [i \in Keys |-> [m \in Members |-> Z!ScoreOf(i, m)]]
<1>4. f = [i \in Keys |-> Shown(i)]
  BY <1>1
<1>5. f' = [i \in Keys |-> Shown(i)']
  BY <1>2
<1>. HIDE DEF f
<1>6. f' = [f EXCEPT ![k] = g]
  BY <1>3, <1>4, <1>5
<1>7. f'[k] = g
  BY <1>3, <1>5
<1>. QED
  BY <1>6, <1>7 DEF f

----------------------------------------------------------------------------
(* Removals.                                                               *)

\* What is left of r without S.
Cut(r, S) == [m \in Members |-> IF m \in S THEN Absent ELSE r[m]]

LEMMA CutIs ==
    ASSUME Z!ZSetAssumption, NEW r \in Scorings, NEW S
    PROVE  /\ Cut(r, S) \in Scorings /\ Has(Cut(r, S)) = Has(r) \ S
           /\ S \cap Has(r) = {} => Cut(r, S) = r
           /\ Cut(r, S \cap Has(r)) = Cut(r, S)
           /\ Entries(Cut(r, S)) = {e \in Entries(r) : e[2] \notin S}
<1>1. Cut(r, S) \in Scorings /\ \A m \in Members : Cut(r, S)[m] = IF m \in S THEN Absent ELSE r[m]
  BY DEF Cut, Scorings
<1>2. Has(Cut(r, S)) = Has(r) \ S
  BY <1>1 DEF Has
<1>3. S \cap Has(r) = {} => Cut(r, S) = r
  BY DEF Cut, Has, Scorings
<1>4. Cut(r, S \cap Has(r)) = Cut(r, S)
  BY DEF Cut, Has, Scorings
<1>5. Entries(Cut(r, S)) = {e \in Entries(r) : e[2] \notin S}
  <2>1. r \in Codes /\ Cut(r, S) \in Codes
    BY <1>1, ScoringIsCode
  <2>2. ASSUME NEW e \in Entries(Cut(r, S)) PROVE e \in Entries(r) /\ e[2] \notin S
    <3>1. e = <<Cut(r, S)[e[2]], e[2]>> /\ e[2] \in Has(r) /\ e[2] \notin S
      BY <1>2, <2>1, EntriesAre
    <3>2. Cut(r, S)[e[2]] = r[e[2]]
      BY <1>1, <3>1 DEF Has
    <3>. QED
      BY <2>1, <3>1, <3>2, EntriesAre
  <2>3. ASSUME NEW e \in Entries(r), e[2] \notin S PROVE e \in Entries(Cut(r, S))
    <3>1. e = <<r[e[2]], e[2]>> /\ e[2] \in Has(Cut(r, S))
      BY <1>2, <2>1, <2>3, EntriesAre
    <3>2. Cut(r, S)[e[2]] = r[e[2]]
      BY <1>1, <2>3, <3>1 DEF Has
    <3>. QED
      BY <2>1, <3>1, <3>2, EntriesAre
  <2>. QED
    BY <2>2, <2>3
<1>. QED
  BY <1>1, <1>2, <1>3, <1>4, <1>5

LEMMA ZKept ==
    ASSUME Z!ZSetAssumption, ZSound, UNCHANGED <<meta, row, index>>
    PROVE  /\ ZSound' /\ \A k \in Keys : ShownAt(k, Shown(k))
           /\ UNCHANGED [i \in Keys |-> [m \in Members |-> Z!ScoreOf(i, m)]]
<1>1. ZSound'
  BY DEF ZSound, ZFits, Scorings, Entries, Has
<1>2. \A k \in Keys : Shown(k)' = Shown(k)
  BY DEF Shown, Z!Live, Z!NoRows
<1>3. \A k, m : Z!ScoreOf(k, m)' = Z!ScoreOf(k, m)
  BY DEF Z!ScoreOf, Z!Live
<1>. QED
  BY <1>1, <1>2, <1>3 DEF ShownAt

LEMMA ZWithout ==
    ASSUME Z!ZSetAssumption, ZSound, ZSound', NEW k \in Keys, NEW S, NEW r,
           ShownAt(k, Cut(Shown(k), S)), ret' = r
    PROVE  Z!ZSets!Without(k, S, r)
<1>. DEFINE f == [i \in Keys |-> [m \in Members |-> Z!ScoreOf(i, m)]]
            g == Cut(Shown(k), S)
<1>1. f' = [f EXCEPT ![k] = g]
  BY ZHeldNext
<1>2. f[k] = Shown(k)
  BY ZHeldIs
<1>. HIDE DEF f
<1>3. f' = [f EXCEPT ![k] = [m \in Members |-> IF m \in S THEN Absent ELSE f[k][m]]]
  BY <1>1, <1>2 DEF Cut
<1>4. f' = [f EXCEPT ![k] = [m \in Members |-> IF m \in S THEN Absent ELSE @[m]]]
  BY <1>3
<1>. QED
  BY <1>4 DEF Z!ZSets!Without, f

LEMMA ZTaken ==
    ASSUME Z!ZSetAssumption, ZSound, NEW k \in Keys, Z!Live(k), NEW S, S \subseteq Has(Shown(k)),
           Z!Commit(k, Z!Taken(Z!Here(k), S))
    PROVE  ZSound' /\ ShownAt(k, Cut(Shown(k), S))
<1>. DEFINE h == Z!Taken(Z!Here(k), S)
            r == Shown(k)
<1>1. /\ r \in Scorings /\ row[k] = r /\ index[k] = Entries(r)
      /\ meta[k].size = Cardinality(Has(r))
  BY ShownIs
<1>2. /\ h.row = Cut(r, S) /\ h.index = {e \in Entries(r) : e[2] \notin S}
      /\ h.size = Cardinality(Has(r)) - Cardinality(S)
  BY <1>1, ZCardinality DEF Z!Taken, Z!Here, Cut
<1>. HIDE DEF h, r
<1>3. h.row \in Scorings /\ h.index = Entries(h.row) /\ Has(h.row) = Has(r) \ S
  <2>1. /\ Cut(r, S) \in Scorings /\ Has(Cut(r, S)) = Has(r) \ S
        /\ Entries(Cut(r, S)) = {e \in Entries(r) : e[2] \notin S}
    BY <1>1, CutIs
  <2>. QED
    BY <1>2, <2>1
<1>4. h.size = Cardinality(Has(h.row))
  <2>1. IsFiniteSet(Has(r)) /\ Has(r) \cap S = S
    BY HasFinite DEF r
  <2>2. Cardinality(Has(r) \ S) = Cardinality(Has(r)) - Cardinality(S)
    <3>1. IsFiniteSet(S)
      BY <2>1, FS_Subset
    <3>2. Cardinality(Has(r) \ S) = Cardinality(Has(r)) - Cardinality(Has(r) \cap S)
      BY <2>1, <3>1, FS_Difference
    <3>. QED
      BY <2>1, <3>2
  <2>. QED
    BY <1>2, <1>3, <2>2
<1>5. ZSound' /\ ShownAt(k, h.row)
  BY <1>3, <1>4, ZCommitted DEF h
<1>. QED
  BY <1>2, <1>5 DEF r

LEMMA ZDropped ==
    ASSUME Z!ZSetAssumption, ZSound, NEW k \in Keys, NEW S, S \subseteq Has(Shown(k)), NEW r,
           Z!Drop(k, S, r)
    PROVE  ZSound' /\ ShownAt(k, Cut(Shown(k), S)) /\ ret' = r
<1>1. CASE ~Z!Live(k) \/ S = {}
  <2>1. UNCHANGED <<meta, row, index>> /\ ret' = r
    BY <1>1 DEF Z!Drop, Z!Unchanged
  <2>2. S = {} /\ Shown(k) \in Scorings
    BY <1>1, ShownIs
  <2>3. Cut(Shown(k), S) = Shown(k)
    BY <2>2, CutIs
  <2>. QED
    BY <2>1, <2>3, ZKept
<1>2. CASE Z!Live(k) /\ S # {}
  BY <1>2, ZTaken DEF Z!Drop
<1>. QED
  BY <1>1, <1>2

LEMMA ZDropStep ==
    ASSUME Z!ZSetAssumption, ZSound, NEW k \in Keys, NEW S, S \subseteq Has(Shown(k)), NEW r,
           Z!Drop(k, S, r)
    PROVE  ZSound' /\ Z!ZSets!Without(k, S, r)
BY ZDropped, ZWithout

LEMMA ZRemStep ==
    ASSUME Z!ZSetAssumption, ZSound, NEW k \in Keys, NEW ms \in Removals, Z!ZRem(k, ms)
    PROVE  ZSound' /\ Z!ZSets!ZRem(k, ms)
<1>. DEFINE N == {ms[i] : i \in DOMAIN ms}
            S == {m \in N : Z!ScoreOf(k, m) # Absent}
<1>1. Z!ToSet(ms) = N /\ Z!ZSets!ToSet(ms) = N /\ N \subseteq Members
  BY ZToSet DEF Z!ZSetAssumption
<1>2. Z!Drop(k, S, Cardinality(S))
  BY <1>1, ZCardinality DEF Z!ZRem
<1>3. Shown(k) \in Scorings /\ S = N \cap Has(Shown(k))
  BY <1>1, ShownIs DEF Has
<1>. HIDE DEF S, N
<1>4. ZSound' /\ ShownAt(k, Cut(Shown(k), S)) /\ ret' = Cardinality(S)
  BY <1>2, <1>3, ZDropped
<1>5. Cut(Shown(k), S) = Cut(Shown(k), N)
  BY <1>3, CutIs
<1>6. Z!ZSets!Without(k, N, Cardinality(S))
  BY <1>4, <1>5, ZWithout
<1>7. Cardinality(S) = Z!ZSets!Cardinality(N \cap Z!ZSets!In(k))
  BY <1>3, ZHeldIs, ZCardinality
<1>. QED
  BY <1>1, <1>4, <1>6, <1>7 DEF Z!ZSets!ZRem

----------------------------------------------------------------------------
(* Pops: from either end.                                                  *)

LEMMA CountsAre ==
    ASSUME Z!ZSetAssumption, NEW n \in Counts
    PROVE  n \in Nat /\ n > 0
<1>1. Counts \subseteq Nat \ {0}
  BY DEF Z!ZSetAssumption
<1>. QED
  BY <1>1

LEMMA ZPoppedIs ==
    ASSUME Z!ZSetAssumption, ZSound, NEW k \in Keys, NEW n \in Counts, NEW high \in BOOLEAN
    PROVE  /\ Z!Popped(k, n, high) = Z!ZSets!Popped(k, n, high)
           /\ Z!Popped(k, n, high) \subseteq Has(Shown(k))
           /\ Z!Popped(k, n, high) = {} <=> Has(Shown(k)) = {}
<1>. DEFINE r == Shown(k)
            c == Cardinality(Has(r))
            place(m) == IF high THEN Cardinality(Later(r, m)) ELSE Cardinality(Earlier(r, m))
            count == IF n < c THEN n ELSE c
            A == {x \in Entries(r) : Cardinality(IF high THEN {y \in Entries(r) : Z!InOrder(x, y)}
                                                 ELSE Z!Ahead(Entries(r), x)) < count}
<1>1. r \in Codes /\ n \in Nat /\ n > 0 /\ c \in Nat
  BY ShownIs, HasFinite, CountsAre
<1>2. Z!Popped(k, n, high) = {e[2] : e \in A}
  <2>1. Z!Ordered(k) = Entries(r) /\ Z!Size(k) = c
    BY ShownIs
  <2>2. \A S : Z!Cardinality(S) = Cardinality(S)
    BY ZCardinality
  <2>. QED
    BY <2>1, <2>2 DEF Z!Popped
<1>3. ASSUME NEW m \in Has(r)
      PROVE  /\ <<r[m], m>> \in A <=> place(m) < count
             /\ place(m) \in 0 .. (c - 1)
             /\ place(m) = IF high THEN c - 1 - Cardinality(Earlier(r, m))
                           ELSE Cardinality(Earlier(r, m))
  <2>1. <<r[m], m>> \in Entries(r)
    BY <1>1, EntriesAre DEF Has
  <2>2. /\ Cardinality(Z!Ahead(Entries(r), <<r[m], m>>)) = Cardinality(Earlier(r, m))
        /\ Cardinality({y \in Entries(r) : Z!InOrder(<<r[m], m>>, y)}) = Cardinality(Later(r, m))
    BY <1>1, AheadIs
  <2>3. Cardinality(IF high THEN {y \in Entries(r) : Z!InOrder(<<r[m], m>>, y)}
                    ELSE Z!Ahead(Entries(r), <<r[m], m>>)) = place(m)
    BY <2>2
  <2>4. <<r[m], m>> \in A <=> place(m) < count
    BY <2>1, <2>3
  <2>5. /\ Cardinality(Later(r, m)) = c - 1 - Cardinality(Earlier(r, m))
        /\ Cardinality(Earlier(r, m)) \in 0 .. (c - 1)
    BY <1>1, PlacesBothWays
  <2>6. Cardinality(Later(r, m)) \in 0 .. (c - 1)
    BY <1>1, <2>5
  <2>. QED
    BY <2>4, <2>5, <2>6
<1>4. A \subseteq Entries(r)
  OBVIOUS
<1>. HIDE DEF A, place
<1>5. {e[2] : e \in A} = {m \in Has(r) : <<r[m], m>> \in A}
  BY <1>1, <1>4, NamesOf
<1>6. \A i \in 0 .. (c - 1) : i < count <=> i < n
  BY <1>1
<1>7. Z!Popped(k, n, high) = {m \in Has(r) : place(m) < n}
  BY <1>2, <1>3, <1>5, <1>6
<1>8. Z!ZSets!Popped(k, n, high) = {m \in Has(r) : place(m) < n}
  <2>1. Z!ZSets!In(k) = Has(r) /\ Z!ZSets!Cardinality(Has(r)) = c
    BY ZHeldIs, ZCardinality
  <2>2. \A m \in Has(r) : Z!ZSets!Rank(k, m) = Cardinality(Earlier(r, m))
    BY ZHeldIs DEF Has
  <2>. QED
    BY <1>3, <2>1, <2>2 DEF Z!ZSets!Popped
<1>9. ASSUME Has(r) # {} PROVE \E m \in Has(r) : place(m) < n
  <2>1. PICK m \in Has(r) : \A x \in Has(r) : x = m \/ Prior(r, m, x)
    BY <1>1, <1>9, FirstAndLast
  <2>2. PICK l \in Has(r) : \A x \in Has(r) : x = l \/ Prior(r, x, l)
    BY <1>1, <1>9, FirstAndLast
  <2>3. Earlier(r, m) = {} /\ Later(r, l) = {}
    BY <1>1, <2>1, <2>2, PriorOrder DEF Earlier, Later
  <2>4. CASE high
    BY <1>1, <2>3, <2>4, FS_EmptySet DEF place
  <2>5. CASE ~high
    BY <1>1, <2>3, <2>5, FS_EmptySet DEF place
  <2>. QED
    BY <2>4, <2>5
<1>. QED
  BY <1>7, <1>8, <1>9

LEMMA ZPopStep ==
    ASSUME Z!ZSetAssumption, ZSound, NEW k \in Keys, NEW n \in Counts, NEW high \in BOOLEAN,
           Z!ZPop(k, n, high)
    PROVE  ZSound' /\ Z!ZSets!ZPop(k, n, high)
<1>1. /\ Z!Popped(k, n, high) = Z!ZSets!Popped(k, n, high)
      /\ Z!Popped(k, n, high) \subseteq Has(Shown(k))
  BY ZPoppedIs
<1>2. Z!Drop(k, Z!Popped(k, n, high), Z!Popped(k, n, high))
  BY DEF Z!ZPop
<1>3. ZSound' /\ Z!ZSets!Without(k, Z!Popped(k, n, high), Z!Popped(k, n, high))
  BY <1>1, <1>2, ZDropStep
<1>. QED
  BY <1>1, <1>3 DEF Z!ZSets!ZPop

LEMMA SourceIs ==
    ASSUME Z!ZSetAssumption, NEW src \in Sources
    PROVE  /\ DOMAIN src = 1 .. Len(src) /\ Len(src) \in {1, 2}
           /\ \A i \in DOMAIN src : src[i].key \in Keys /\ src[i].weight \in {1, -1}
<1>1. src \in Seq([key : Keys, weight : {1, -1}]) /\ Len(src) \in {1, 2}
  BY DEF Z!ZSetAssumption
<1>. DEFINE R == [key : Keys, weight : {1, -1}]
<1>2. \A x \in R : x.key \in Keys /\ x.weight \in {1, -1}
  OBVIOUS
<1>3. src \in Seq(R)
  BY <1>1
<1>. HIDE DEF R
<1>4. DOMAIN src = 1 .. Len(src) /\ \A i \in 1 .. Len(src) : src[i] \in R
  BY <1>3
<1>. QED
  BY <1>1, <1>2, <1>4

LEMMA ZMPopStep ==
    ASSUME Z!ZSetAssumption, ZSound, NEW src \in Sources, NEW n \in Counts, NEW high \in BOOLEAN,
           NEW ks, ks = [i \in DOMAIN src |-> src[i].key], Z!ZMPop(ks, n, high)
    PROVE  ZSound' /\ Z!ZSets!ZMPop(ks, n, high)
<1>. DEFINE full == {i \in DOMAIN ks : Z!Popped(ks[i], n, high) # {}}
            first == ks[CHOOSE i \in full : \A j \in full : i <= j]
<1>1. DOMAIN ks = 1 .. Len(src) /\ \A i \in DOMAIN ks : ks[i] \in Keys
  BY SourceIs
<1>2. full = {i \in DOMAIN ks : Z!ZSets!In(ks[i]) # {}}
  <2>1. \A i \in DOMAIN ks : Z!Popped(ks[i], n, high) = {} <=> Z!ZSets!In(ks[i]) = {}
    <3>. TAKE i \in DOMAIN ks
    <3>1. ks[i] \in Keys
      BY <1>1
    <3>2. Z!Popped(ks[i], n, high) = {} <=> Has(Shown(ks[i])) = {}
      BY <3>1, ZPoppedIs
    <3>3. Z!ZSets!In(ks[i]) = Has(Shown(ks[i]))
      BY <3>1, ZHeldIs
    <3>. QED
      BY <3>2, <3>3
  <2>. QED
    BY <2>1
<1>3. IF full = {} THEN Z!Unchanged({}) ELSE Z!ZPop(first, n, high)
  BY DEF Z!ZMPop
<1>4. Z!ZSets!ZMPop(ks, n, high) <=>
         IF full = {} THEN Z!ZSets!Keep({}) ELSE Z!ZSets!ZPop(first, n, high)
  BY <1>2 DEF Z!ZSets!ZMPop
<1>5. full # {} => first \in Keys
  <2>1. full \subseteq Nat
    <3>1. \A i \in 1 .. Len(src) : i \in Nat
      BY SourceIs
    <3>. QED
      BY <1>1, <3>1
  <2>2. full # {} => \E i \in full : \A j \in full : i <= j
    <3>. HIDE DEF full
    <3>. QED
      BY <2>1, LeastOf
  <2>. QED
    BY <1>1, <2>2
<1>. HIDE DEF full, first
<1>6. CASE full = {}
  <2>1. UNCHANGED <<meta, row, index>> /\ ret' = {}
    BY <1>3, <1>6 DEF Z!Unchanged
  <2>. QED
    BY <1>4, <1>6, <2>1, ZKept DEF Z!ZSets!Keep
<1>7. CASE full # {}
  BY <1>3, <1>4, <1>5, <1>7, ZPopStep
<1>. QED
  BY <1>6, <1>7

----------------------------------------------------------------------------
(* Removals by score, name and rank.                                       *)

\* A range of codes, cut out of the rows, is the range of their numbers.
LEMMA ScoreRange ==
    ASSUME NEW s \in [min : Int, max : Int, minex : BOOLEAN, maxex : BOOLEAN],
           ~(s.min = 0 /\ s.max = -1), NEW x \in Int
    PROVE  (~Z!IsEmpty(s) /\ Z!Check(x, [s EXCEPT !.min = Z!AtLeast(s), !.max = Z!AtMost(s)])
                          /\ Z!Check(Z!Number(x), Z!Numbers(s)))
              <=> Z!Check(Z!Number(x), Z!Numbers(s))
<1>. DEFINE n == Z!Number(x)
            a == Z!Number(s.min)
            b == Z!Number(s.max)
<1>0. s.min \in Int /\ s.max \in Int /\ s.minex \in BOOLEAN /\ s.maxex \in BOOLEAN
  OBVIOUS
<1>1. n \in Int /\ a \in Int /\ b \in Int
  BY <1>0, NumberIs
<1>2. Z!Check(n, Z!Numbers(s)) <=> /\ IF s.minex THEN a < n ELSE a <= n
                                   /\ IF s.maxex THEN n < b ELSE n <= b
  BY DEF Z!Check, Z!Numbers
<1>3. Z!Check(x, [s EXCEPT !.min = Z!AtLeast(s), !.max = Z!AtMost(s)]) <=>
         /\ IF s.minex THEN Z!AtLeast(s) < x ELSE Z!AtLeast(s) <= x
         /\ IF s.maxex THEN x < Z!AtMost(s) ELSE x <= Z!AtMost(s)
  BY DEF Z!Check
<1>4. ASSUME IF s.minex THEN a < n ELSE a <= n
      PROVE  IF s.minex THEN Z!AtLeast(s) < x ELSE Z!AtLeast(s) <= x
  <2>1. CASE s.min \in {-1, 0}
    <3>1. a = 0
      BY <2>1, NumberIs
    <3>2. CASE s.minex
      <4>1. 0 < n /\ Z!AtLeast(s) = 0
        BY <1>4, <2>1, <3>1, <3>2 DEF Z!AtLeast
      <4>2. 0 < x
        BY <4>1 DEF Z!Number
      <4>. QED
        BY <3>2, <4>1, <4>2
    <3>3. CASE ~s.minex
      <4>1. 0 <= n /\ Z!AtLeast(s) = -1
        BY <1>4, <2>1, <3>1, <3>3 DEF Z!AtLeast
      <4>2. -1 <= x
        BY <4>1 DEF Z!Number
      <4>. QED
        BY <3>3, <4>1, <4>2
    <3>. QED
      BY <3>2, <3>3
  <2>2. CASE s.min \notin {-1, 0}
    <3>1. Z!AtLeast(s) = s.min
      BY <2>2 DEF Z!AtLeast
    <3>2. a < n => s.min < x
      BY <1>0, NumberOrder
    <3>3. a <= n => s.min <= x
      <4>1. a <= n /\ x < s.min => a = n
        BY <1>0, <1>1, NumberOrder
      <4>2. x < s.min /\ a = n => s.min = 0
        BY <1>0, NumberOrder
      <4>. QED
        BY <1>0, <2>2, <4>1, <4>2
    <3>. QED
      BY <1>4, <3>1, <3>2, <3>3
  <2>. QED
    BY <2>1, <2>2
<1>5. ASSUME IF s.maxex THEN n < b ELSE n <= b
      PROVE  IF s.maxex THEN x < Z!AtMost(s) ELSE x <= Z!AtMost(s)
  <2>1. CASE s.max \in {-1, 0}
    <3>1. b = 0
      BY <2>1, NumberIs
    <3>2. CASE s.maxex
      <4>1. n < 0 /\ Z!AtMost(s) = -1
        BY <1>5, <2>1, <3>1, <3>2 DEF Z!AtMost
      <4>2. x < -1
        BY <4>1 DEF Z!Number
      <4>. QED
        BY <3>2, <4>1, <4>2
    <3>3. CASE ~s.maxex
      <4>1. n <= 0 /\ Z!AtMost(s) = 0
        BY <1>5, <2>1, <3>1, <3>3 DEF Z!AtMost
      <4>2. x <= 0
        BY <4>1 DEF Z!Number
      <4>. QED
        BY <3>3, <4>1, <4>2
    <3>. QED
      BY <3>2, <3>3
  <2>2. CASE s.max \notin {-1, 0}
    <3>1. Z!AtMost(s) = s.max
      BY <2>2 DEF Z!AtMost
    <3>2. n < b => x < s.max
      BY <1>0, NumberOrder
    <3>3. n <= b => x <= s.max
      <4>1. n <= b /\ s.max < x => b = n
        BY <1>0, <1>1, NumberOrder
      <4>2. s.max < x /\ b = n => s.max = -1
        BY <1>0, NumberOrder
      <4>. QED
        BY <1>0, <2>2, <4>1, <4>2
    <3>. QED
      BY <1>5, <3>1, <3>2, <3>3
  <2>. QED
    BY <2>1, <2>2
<1>6. ASSUME IF s.minex THEN a < n ELSE a <= n, IF s.maxex THEN n < b ELSE n <= b
      PROVE  ~Z!IsEmpty(s)
  <2>1. a <= b /\ (s.minex \/ s.maxex => a < b)
    BY <1>1, <1>6
  <2>2. ~(s.min > s.max)
    <3>1. s.max < s.min => Z!Number(s.max) <= Z!Number(s.min)
      BY <1>0, NumberOrder
    <3>2. s.max < s.min => b = a
      BY <1>1, <2>1, <3>1
    <3>3. s.max < s.min /\ b = a => s.max = -1 /\ s.min = 0
      BY <1>0, NumberOrder
    <3>. QED
      BY <1>0, <3>2, <3>3
  <2>3. ~(s.min = s.max /\ (s.minex \/ s.maxex))
    BY <1>1, <2>1
  <2>. QED
    BY <2>2, <2>3 DEF Z!IsEmpty
<1>. QED
  BY <1>2, <1>3, <1>4, <1>5, <1>6

LEMMA ByScoreIs ==
    ASSUME Z!ZSetAssumption, ZSound, NEW k \in Keys,
           NEW s \in [min : Int, max : Int, minex : BOOLEAN, maxex : BOOLEAN],
           ~(s.min = 0 /\ s.max = -1)
    PROVE  Z!ByScore(k, s) = {e \in Entries(Shown(k)) : Z!Check(Z!Number(e[1]), Z!Numbers(s))}
<1>. DEFINE r == Shown(k)
            near(x) == Z!Check(x, [s EXCEPT !.min = Z!AtLeast(s), !.max = Z!AtMost(s)])
            in(x) == Z!Check(Z!Number(x), Z!Numbers(s))
<1>1. Z!Ordered(k) = Entries(r) /\ \A e \in Entries(r) : e[1] \in Int
  BY ShownIs, EntriesAre
<1>2. \A x \in Int : (~Z!IsEmpty(s) /\ near(x) /\ in(x)) <=> in(x)
  BY ScoreRange
<1>3. Z!ByScore(k, s) = IF Z!IsEmpty(s) THEN {} ELSE {e \in Entries(r) : near(e[1]) /\ in(e[1])}
  BY <1>1 DEF Z!ByScore
<1>. HIDE DEF near, in
<1>4. CASE Z!IsEmpty(s)
  BY <1>1, <1>2, <1>3, <1>4 DEF in
<1>5. CASE ~Z!IsEmpty(s)
  BY <1>1, <1>2, <1>3, <1>5 DEF in
<1>. QED
  BY <1>4, <1>5

LEMMA SpansAre ==
    ASSUME Z!ZSetAssumption, NEW s \in Spans
    PROVE  /\ s \in [min : Int, max : Int, minex : BOOLEAN, maxex : BOOLEAN]
           /\ ~(s.min = 0 /\ s.max = -1)
<1>1. /\ Spans \subseteq [min : Int, max : Int, minex : BOOLEAN, maxex : BOOLEAN]
      /\ \A t \in Spans : ~(t.min = 0 /\ t.max = -1)
  BY DEF Z!ZSetAssumption
<1>. QED
  BY <1>1

LEMMA ZRemScoreStep ==
    ASSUME Z!ZSetAssumption, ZSound, NEW k \in Keys, NEW s \in Spans, Z!ZRemRangeByScore(k, s)
    PROVE  ZSound' /\ Z!ZSets!RemRange(k, Z!ZSets!Scored(k, s))
<1>. DEFINE r == Shown(k)
            A == Z!ByScore(k, s)
            N == {e[2] : e \in A}
            in(x) == Z!Check(Z!Number(x), Z!Numbers(s))
<1>1. /\ s \in [min : Int, max : Int, minex : BOOLEAN, maxex : BOOLEAN]
      /\ ~(s.min = 0 /\ s.max = -1)
  BY SpansAre
<1>2. A = {e \in Entries(r) : in(e[1])} /\ r \in Codes
  BY <1>1, ByScoreIs, ShownIs
<1>3. Z!Drop(k, N, Cardinality(A))
  BY ZCardinality DEF Z!ZRemRangeByScore
<1>4. \A x \in Int : Z!ZSets!Within(Z!ZSets!Number(x), [s EXCEPT !.min = Z!ZSets!Number(@), !.max = Z!ZSets!Number(@)])
                        <=> in(x)
  <2>. TAKE x \in Int
  <2>1. /\ Z!ZSets!Number(x) = Z!Number(x) /\ Z!ZSets!Number(s.min) = Z!Number(s.min)
        /\ Z!ZSets!Number(s.max) = Z!Number(s.max)
    BY <1>1, NumberIs
  <2>2. [s EXCEPT !.min = Z!ZSets!Number(@), !.max = Z!ZSets!Number(@)] = Z!Numbers(s)
    BY <1>1, <2>1 DEF Z!Numbers
  <2>. QED
    BY <2>1, <2>2 DEF Z!ZSets!Within, Z!Check
<1>5. \A m \in Has(r) : r[m] \in Int /\ (<<r[m], m>> \in A <=> in(r[m]))
  <2>. TAKE m \in Has(r)
  <2>1. <<r[m], m>> \in Entries(r) /\ r[m] \in Int
    BY <1>2, EntriesAre DEF Has
  <2>. QED
    BY <1>2, <2>1
<1>6. Z!ZSets!Scored(k, s) = {m \in Has(r) : in(r[m])}
  <2>1. [i \in Keys |-> [m \in Members |-> Z!ScoreOf(i, m)]][k] = r /\ Z!ZSets!In(k) = Has(r)
    BY ZHeldIs
  <2>. HIDE DEF in
  <2>2. Z!ZSets!Scored(k, s) = {m \in Has(r) : Z!ZSets!Within(Z!ZSets!Number(r[m]),
            [s EXCEPT !.min = Z!ZSets!Number(@), !.max = Z!ZSets!Number(@)])}
    BY <2>1 DEF Z!ZSets!Scored
  <2>. QED
    BY <1>4, <1>5, <2>2
<1>. HIDE DEF A, in
<1>7. N = {m \in Has(r) : <<r[m], m>> \in A} /\ Cardinality(N) = Cardinality(A)
  BY <1>2, NamesOf
<1>8. N = Z!ZSets!Scored(k, s) /\ N \subseteq Has(r)
  BY <1>5, <1>6, <1>7
<1>. HIDE DEF N
<1>9. ZSound' /\ Z!ZSets!Without(k, N, Cardinality(N))
  BY <1>3, <1>7, <1>8, ZDropStep
<1>. QED
  BY <1>8, <1>9, ZCardinality DEF Z!ZSets!RemRange

LEMMA ZRemLexStep ==
    ASSUME Z!ZSetAssumption, ZSound, NEW k \in Keys, NEW s \in Spans, Z!ZRemRangeByLex(k, s)
    PROVE  ZSound' /\ Z!ZSets!RemRange(k, Z!ZSets!Named(k, s))
<1>. DEFINE r == Shown(k)
            N == Z!ByLex(k, s)
<1>1. s.min \in Int /\ s.max \in Int /\ s.minex \in BOOLEAN /\ s.maxex \in BOOLEAN
  <2>1. s \in [min : Int, max : Int, minex : BOOLEAN, maxex : BOOLEAN]
    BY SpansAre
  <2>. QED
    BY <2>1
<1>2. \A m \in Members : m \in Int
  BY ZAssumed
<1>3. Z!IsEmpty(s) => \A m \in Int : ~Z!Check(m, s)
  BY <1>1 DEF Z!IsEmpty, Z!Check
<1>4. {m \in Members : Z!ScoreOf(k, m) # Absent /\ Z!Check(m, s)} = {m \in Has(r) : Z!Check(m, s)}
  BY ShownIs DEF Has
<1>5. N = {m \in Has(r) : Z!Check(m, s)}
  <2>1. CASE Z!IsEmpty(s)
    <3>1. N = {}
      BY <2>1 DEF Z!ByLex
    <3>. QED
      BY <1>2, <1>3, <2>1, <3>1 DEF Has
  <2>2. CASE ~Z!IsEmpty(s)
    BY <1>4, <2>2 DEF Z!ByLex
  <2>. QED
    BY <2>1, <2>2
<1>6. Z!ZSets!Named(k, s) = N
  BY <1>5, ZHeldIs DEF Z!ZSets!Named, Z!ZSets!Within, Z!Check
<1>7. Z!Drop(k, N, Cardinality(N))
  BY ZCardinality DEF Z!ZRemRangeByLex
<1>8. N \subseteq Has(r)
  BY <1>5
<1>. HIDE DEF N
<1>9. ZSound' /\ Z!ZSets!Without(k, N, Cardinality(N))
  BY <1>7, <1>8, ZDropStep
<1>. QED
  BY <1>6, <1>9, ZCardinality DEF Z!ZSets!RemRange

\* A range of ranks, cut to the ranks there are.
LEMMA ZNormalizedIs ==
    ASSUME NEW c \in Nat, c > 0, NEW r \in Int \X Int
    PROVE  LET from == IF r[1] < 0 THEN IF c + r[1] < 0 THEN 0 ELSE c + r[1] ELSE r[1]
               to == IF r[2] < 0 THEN c + r[2] ELSE r[2]
               n == Z!Normalized(c, r)
           IN  /\ n[1] \in Int /\ n[2] \in Int
               /\ \A i \in 0 .. (c - 1) : from <= i /\ i <= to <=> n[1] <= i /\ i <= n[2]
<1>. DEFINE s == IF r[1] < 0 THEN c + r[1] ELSE r[1]
            e == IF r[2] < 0 THEN c + r[2] ELSE r[2]
            f == IF r[1] < 0 THEN IF c + r[1] < 0 THEN 0 ELSE c + r[1] ELSE r[1]
<1>1. r[1] \in Int /\ r[2] \in Int /\ c \in Int
  OBVIOUS
<1>2. /\ s \in Int /\ e \in Int /\ f \in Int
      /\ f = s \/ (f = 0 /\ s < 0) \/ (f < 0 /\ f = s)
  BY <1>1
<1>3. Z!Normalized(c, r) = <<IF s < 0 THEN 0 ELSE s, IF e >= c THEN c - 1 ELSE e>>
  BY DEF Z!Normalized
<1>. HIDE DEF s, e, f
<1>4. \A i \in 0 .. (c - 1) : (f <= i <=> (IF s < 0 THEN 0 ELSE s) <= i)
  BY <1>1, <1>2
<1>5. \A i \in 0 .. (c - 1) : (i <= e <=> i <= (IF e >= c THEN c - 1 ELSE e))
  BY <1>1, <1>2
<1>6. (IF s < 0 THEN 0 ELSE s) \in Int /\ (IF e >= c THEN c - 1 ELSE e) \in Int
  BY <1>1, <1>2
<1>. QED
  BY <1>3, <1>4, <1>5, <1>6 DEF f, e

LEMMA ZRemRankStep ==
    ASSUME Z!ZSetAssumption, ZSound, NEW k \in Keys, NEW r \in Ranks, Z!ZRemRangeByRank(k, r)
    PROVE  ZSound' /\ Z!ZSets!RemRange(k, Z!ZSets!Ranked(k, r))
<1>. DEFINE g == Shown(k)
            c == Cardinality(Has(g))
            n == Z!Normalized(c, r)
            place(m) == Cardinality(Earlier(g, m))
            A == {x \in Entries(g) : LET i == Cardinality(Z!Ahead(Entries(g), x))
                                     IN  n[1] <= i /\ i <= n[2]}
            N == {m \in Has(g) : n[1] <= place(m) /\ place(m) <= n[2]}
            from == IF r[1] < 0 THEN IF c + r[1] < 0 THEN 0 ELSE c + r[1] ELSE r[1]
            to == IF r[2] < 0 THEN c + r[2] ELSE r[2]
<1>1. g \in Scorings /\ g \in Codes /\ c \in Nat /\ r \in Int \X Int
  <2>1. Ranks \subseteq Int \X Int
    BY DEF Z!ZSetAssumption
  <2>. QED
    BY <2>1, ShownIs, HasFinite
<1>2. \A m \in Has(g) : place(m) \in 0 .. (c - 1)
  BY <1>1, PlacesBothWays
<1>3. {e[2] : e \in A} = N
  <2>1. ASSUME NEW m \in Has(g) PROVE <<g[m], m>> \in A <=> n[1] <= place(m) /\ place(m) <= n[2]
    <3>1. <<g[m], m>> \in Entries(g)
      BY <1>1, EntriesAre DEF Has
    <3>2. Cardinality(Z!Ahead(Entries(g), <<g[m], m>>)) = place(m)
      BY <1>1, AheadIs
    <3>. QED
      BY <3>1, <3>2
  <2>2. A \subseteq Entries(g)
    OBVIOUS
  <2>. HIDE DEF A
  <2>3. {e[2] : e \in A} = {m \in Has(g) : <<g[m], m>> \in A}
    BY <1>1, <2>2, NamesOf
  <2>. QED
    BY <2>1, <2>3
<1>4. Z!ZSets!Ranked(k, r) = {m \in Has(g) : from <= place(m) /\ place(m) <= to}
  <2>1. Z!ZSets!In(k) = Has(g) /\ Z!ZSets!Cardinality(Has(g)) = c
    BY ZHeldIs, ZCardinality
  <2>2. \A m \in Has(g) : Z!ZSets!Rank(k, m) = place(m)
    BY ZHeldIs DEF Has
  <2>. HIDE DEF place, c
  <2>. QED
    BY <2>1, <2>2 DEF Z!ZSets!Ranked
<1>5. Z!ZRemRangeByRank(k, r) <=>
         IF ~Z!Live(k) \/ n[1] > n[2] THEN Z!Unchanged(0)
         ELSE IF n[1] = 0 /\ n[2] + 1 >= c
         THEN Z!Commit(k, [Z!Here(k) EXCEPT !.size = 0, !.row = Z!NoRows, !.index = {}]) /\ ret' = c
         ELSE Z!Drop(k, {e[2] : e \in A}, Cardinality({e[2] : e \in A}))
  <2>1. Z!Ordered(k) = Entries(g) /\ Z!Size(k) = c
    BY ShownIs
  <2>2. \A S : Z!Cardinality(S) = Cardinality(S)
    BY ZCardinality
  <2>. QED
    BY <2>1, <2>2 DEF Z!ZRemRangeByRank
<1>6. CASE ~Z!Live(k)
  <2>1. UNCHANGED <<meta, row, index>> /\ ret' = 0
    BY <1>5, <1>6 DEF Z!Unchanged
  <2>2. Has(g) = {}
    BY <1>6, ShownIs
  <2>3. Z!ZSets!Ranked(k, r) = {}
    BY <1>4, <2>2
  <2>4. Cut(g, {}) = g
    BY <1>1, CutIs
  <2>5. ZSound' /\ Z!ZSets!Without(k, {}, 0)
    BY <2>1, <2>4, ZKept, ZWithout
  <2>. QED
    BY <2>3, <2>5, ZCardinality, FS_EmptySet DEF Z!ZSets!RemRange
<1>7. CASE Z!Live(k)
  <2>1. c > 0 /\ Has(g) # {}
    BY <1>1, <1>7, ShownIs, HasFinite
  <2>2. n[1] \in Int /\ n[2] \in Int
    BY <1>1, <2>1, ZNormalizedIs
  <2>3. \A i \in 0 .. (c - 1) : from <= i /\ i <= to <=> n[1] <= i /\ i <= n[2]
    BY <1>1, <2>1, ZNormalizedIs
  <2>. HIDE DEF n, from, to, A, place
  <2>4. Z!ZSets!Ranked(k, r) = N /\ N \subseteq Has(g)
    BY <1>2, <1>4, <2>3
  <2>5. CASE n[1] > n[2]
    <3>1. UNCHANGED <<meta, row, index>> /\ ret' = 0
      BY <1>5, <1>7, <2>5 DEF Z!Unchanged
    <3>2. N = {}
      <4>1. \A i \in 0 .. (c - 1) : ~(n[1] <= i /\ i <= n[2])
        BY <1>1, <2>2, <2>5
      <4>. QED
        BY <1>2, <4>1
    <3>3. Cut(g, {}) = g
      BY <1>1, CutIs
    <3>4. ZSound' /\ Z!ZSets!Without(k, {}, 0)
      BY <3>1, <3>3, ZKept, ZWithout
    <3>. QED
      BY <2>4, <3>2, <3>4, ZCardinality, FS_EmptySet DEF Z!ZSets!RemRange
  <2>6. CASE ~(n[1] > n[2]) /\ n[1] = 0 /\ n[2] + 1 >= c
    <3>. DEFINE h == [Z!Here(k) EXCEPT !.size = 0, !.row = Z!NoRows, !.index = {}]
    <3>1. Z!Commit(k, h) /\ ret' = c
      BY <1>5, <1>7, <2>6
    <3>2. h.row = Z!NoRows /\ h.index = {} /\ h.size = 0
      BY DEF Z!Here
    <3>. HIDE DEF h
    <3>3. ZSound' /\ ShownAt(k, Z!NoRows)
      BY <3>1, <3>2, NoRowsIs, ZCommitted
    <3>4. N = Has(g)
      <4>1. \A i \in 0 .. (c - 1) : n[1] <= i /\ i <= n[2]
        BY <1>1, <2>2, <2>6
      <4>. QED
        BY <1>2, <4>1
    <3>5. Cut(g, N) = Z!NoRows
      BY <1>1, <3>4 DEF Cut, Z!NoRows, Has
    <3>. HIDE DEF N
    <3>6. Z!ZSets!Without(k, N, c)
      BY <3>1, <3>3, <3>5, ZWithout
    <3>. QED
      BY <2>4, <3>3, <3>4, <3>6, ZCardinality DEF Z!ZSets!RemRange
  <2>7. CASE ~(n[1] > n[2]) /\ ~(n[1] = 0 /\ n[2] + 1 >= c)
    <3>1. Z!Drop(k, N, Cardinality(N))
      BY <1>3, <1>5, <1>7, <2>7
    <3>. HIDE DEF N
    <3>2. ZSound' /\ Z!ZSets!Without(k, N, Cardinality(N))
      BY <2>4, <3>1, ZDropStep
    <3>. QED
      BY <2>4, <3>2, ZCardinality DEF Z!ZSets!RemRange
  <2>. QED
    BY <2>5, <2>6, <2>7
<1>. QED
  BY <1>6, <1>7

----------------------------------------------------------------------------
(* Algebra.                                                                *)

\* Whether a source has m, whether a result has it, and with which scores.
Present(src, i, m) == m \in Has(Shown(src[i].key))
Result(op, src, m) ==
    CASE op = "union" -> \E i \in DOMAIN src : Present(src, i, m)
      [] op = "inter" -> \A i \in DOMAIN src : Present(src, i, m)
      [] op = "diff"  -> Present(src, 1, m) /\ \A i \in 2 .. Len(src) : ~Present(src, i, m)
Weighed(src, i, m) == Z!ZSets!Weighted(Shown(src[i].key)[m], src[i].weight)
Finals(op, src, agg, m) ==
    IF op = "diff" THEN {Shown(src[1].key)[m]}
    ELSE IF Len(src) = 2 /\ Present(src, 1, m) /\ Present(src, 2, m)
    THEN Z!ZSets!Kept(agg, Weighed(src, 1, m), Weighed(src, 2, m))
    ELSE {Weighed(src, CHOOSE i \in DOMAIN src : Present(src, i, m), m)}

LEMMA CombinedIs ==
    ASSUME Z!ZSetAssumption, ZSound, NEW src \in Sources,
           NEW op \in {"union", "inter", "diff"}, NEW agg
    PROVE  Z!ZSets!Combined(op, src, agg) =
              {f \in Scorings : \A m \in Members : IF Result(op, src, m)
                                                   THEN f[m] \in Finals(op, src, agg, m)
                                                   ELSE f[m] = Absent}
<1>. DEFINE held == [i \in Keys |-> [m \in Members |-> Z!ScoreOf(i, m)]]
            in(i) == Z!ZSets!In(src[i].key)
            w(i, m) == Z!ZSets!Weighted(held[src[i].key][m], src[i].weight)
            all == {m \in Members : CASE op = "union" -> \E i \in DOMAIN src : m \in in(i)
                                      [] op = "inter" -> \A i \in DOMAIN src : m \in in(i)
                                      [] op = "diff"  -> m \in in(1) /\ \A i \in 2 .. Len(src) : m \notin in(i)}
            scores(m) == IF op = "diff" THEN {held[src[1].key][m]}
                         ELSE IF Len(src) = 2 /\ m \in in(1) \cap in(2)
                         THEN Z!ZSets!Kept(agg, w(1, m), w(2, m))
                         ELSE {w(CHOOSE i \in DOMAIN src : m \in in(i), m)}
<1>1. Z!ZSets!Combined(op, src, agg) =
         {f \in [Members -> Scores \cup {Absent}] :
              \A m \in Members : IF m \in all THEN f[m] \in scores(m) ELSE f[m] = Absent}
  BY DEF Z!ZSets!Combined
<1>2. \A i \in DOMAIN src : held[src[i].key] = Shown(src[i].key) /\ in(i) = Has(Shown(src[i].key))
  BY SourceIs, ZHeldIs
<1>3. DOMAIN src = 1 .. Len(src) /\ 1 \in DOMAIN src /\ (Len(src) = 2 => 2 \in DOMAIN src)
      /\ \A i \in 2 .. Len(src) : i \in DOMAIN src
  BY SourceIs
<1>. HIDE DEF held, in
<1>4. \A i \in DOMAIN src, m \in Members : (m \in in(i) <=> Present(src, i, m)) /\ w(i, m) = Weighed(src, i, m)
  BY <1>2 DEF Present, Weighed
<1>5. \A m \in Members : m \in all <=> Result(op, src, m)
  BY <1>3, <1>4 DEF Result
<1>6. ASSUME NEW m \in Members, m \in all PROVE scores(m) = Finals(op, src, agg, m)
  <2>1. CASE op = "diff"
    BY <1>2, <1>3, <2>1 DEF Finals
  <2>2. CASE op # "diff" /\ Len(src) = 2 /\ Present(src, 1, m) /\ Present(src, 2, m)
    BY <1>3, <1>4, <2>2 DEF Finals
  <2>3. CASE op # "diff" /\ ~(Len(src) = 2 /\ Present(src, 1, m) /\ Present(src, 2, m))
    <3>1. \E i \in DOMAIN src : m \in in(i)
      BY <1>3, <1>6, <2>3
    <3>2. (CHOOSE i \in DOMAIN src : m \in in(i)) = (CHOOSE i \in DOMAIN src : Present(src, i, m))
      BY <1>4
    <3>3. (CHOOSE i \in DOMAIN src : m \in in(i)) \in DOMAIN src
      BY <3>1
    <3>4. scores(m) = {w(CHOOSE i \in DOMAIN src : m \in in(i), m)}
      BY <1>3, <1>4, <2>3
    <3>5. Finals(op, src, agg, m) = {Weighed(src, CHOOSE i \in DOMAIN src : Present(src, i, m), m)}
      BY <2>3 DEF Finals
    <3>. HIDE DEF w, scores
    <3>. QED
      BY <1>4, <3>2, <3>3, <3>4, <3>5
  <2>. QED
    BY <2>1, <2>2, <2>3
<1>. HIDE DEF all, scores
<1>. QED
  BY <1>1, <1>5, <1>6 DEF Scorings

LEMMA ApplyIs ==
    ASSUME Z!ZSetAssumption, NEW a \in Scores, NEW b \in Scores, NEW agg
    PROVE  Z!Apply(agg, a, b) = Z!ZSets!Kept(agg, a, b) /\ Z!Apply(agg, a, b) # {}
<1>1. a \in Int /\ b \in Int
  BY ZAssumed
<1>2. /\ Z!ZSets!Number(a) = Z!Number(a) /\ Z!ZSets!Number(b) = Z!Number(b)
      /\ Z!ZSets!Plus(a, b) = Z!Plus(a, b)
  BY <1>1, NumberIs, PlusIs
<1>3. Z!Number(a) # Z!Number(b) => (a < b <=> Z!Number(a) < Z!Number(b))
  <2>1. Z!Number(a) \in Int /\ Z!Number(b) \in Int
    BY <1>1, NumberIs
  <2>2. a < b => Z!Number(a) <= Z!Number(b)
    BY <1>1, NumberOrder
  <2>. QED
    BY <1>1, <2>1, <2>2, NumberOrder
<1>. QED
  BY <1>2, <1>3 DEF Z!Apply, Z!ZSets!Kept

\* The scores m may end with are those of the result, if it is in it.
LEMMA OutcomesAre ==
    ASSUME Z!ZSetAssumption, ZSound, NEW src \in Sources,
           NEW op \in {"union", "inter", "diff"}, NEW agg, NEW m \in Members
    PROVE  /\ Z!Outcomes(op, src, agg, m) =
                 (IF Result(op, src, m) THEN Finals(op, src, agg, m) ELSE {})
           /\ Result(op, src, m) => Finals(op, src, agg, m) # {}
<1>. DEFINE r(i) == Shown(src[i].key)
            scores == [i \in DOMAIN src |-> IF Z!ScoreOf(src[i].key, m) = Absent THEN Absent
                                            ELSE Z!Weighted(Z!ScoreOf(src[i].key, m), src[i].weight)]
            there == {i \in DOMAIN src : scores[i] # Absent}
<1>1. DOMAIN src = 1 .. Len(src) /\ Len(src) \in {1, 2} /\ 1 \in DOMAIN src
  BY SourceIs
<1>2. ASSUME NEW i \in DOMAIN src
      PROVE  /\ i \in there <=> Present(src, i, m)
             /\ Z!ScoreOf(src[i].key, m) = r(i)[m]
             /\ Present(src, i, m) => scores[i] = Weighed(src, i, m) /\ Weighed(src, i, m) \in Scores
  <2>1. src[i].key \in Keys /\ src[i].weight \in {1, -1}
    BY SourceIs
  <2>2. Z!ScoreOf(src[i].key, m) = r(i)[m] /\ r(i) \in Scorings
    BY <2>1, ShownIs
  <2>3. Present(src, i, m) <=> r(i)[m] # Absent
    BY DEF Present, Has
  <2>4. CASE Present(src, i, m)
    <3>1. r(i)[m] \in Scores
      BY <2>2, <2>3, <2>4 DEF Scorings
    <3>2. /\ Z!Weighted(r(i)[m], src[i].weight) \in Scores
          /\ Z!ZSets!Weighted(r(i)[m], src[i].weight) = Z!Weighted(r(i)[m], src[i].weight)
      BY <2>1, <3>1, WeightedIs
    <3>3. Weighed(src, i, m) \in Scores /\ Weighed(src, i, m) # Absent
      BY <3>2, ZAssumed DEF Weighed
    <3>4. scores[i] = Weighed(src, i, m)
      BY <2>2, <2>3, <2>4, <3>2 DEF Weighed
    <3>. QED
      BY <2>2, <2>4, <3>3, <3>4
  <2>5. CASE ~Present(src, i, m)
    BY <2>2, <2>3, <2>5
  <2>. QED
    BY <2>4, <2>5
<1>3. Z!Outcomes(op, src, agg, m) =
         CASE op = "diff" -> IF there = {1} THEN {Z!ScoreOf(src[1].key, m)} ELSE {}
           [] op = "inter" /\ there # DOMAIN src -> {}
           [] OTHER -> IF there = {} THEN {}
                       ELSE IF Cardinality(there) = 2 THEN Z!Apply(agg, scores[1], scores[2])
                       ELSE {scores[CHOOSE i \in there : TRUE]}
  <2>1. Z!Cardinality(there) = Cardinality(there)
    BY ZCardinality
  <2>2. Z!Outcomes(op, src, agg, m) =
           CASE op = "diff" -> IF there = {1} THEN {Z!ScoreOf(src[1].key, m)} ELSE {}
             [] op = "inter" /\ there # DOMAIN src -> {}
             [] OTHER -> IF there = {} THEN {}
                         ELSE IF Z!Cardinality(there) = 2 THEN Z!Apply(agg, scores[1], scores[2])
                         ELSE {scores[CHOOSE i \in there : TRUE]}
    BY Zenon DEF Z!Outcomes
  <2>. HIDE DEF scores, there
  <2>. QED
    BY <2>1, <2>2
<1>4. there \subseteq DOMAIN src
  OBVIOUS
<1>. HIDE DEF scores, there
<1>5. CASE op = "diff"
  <2>1. there = {1} <=> Result(op, src, m)
    <3>1. Result(op, src, m) <=> Present(src, 1, m) /\ \A i \in 2 .. Len(src) : ~Present(src, i, m)
      BY <1>5 DEF Result
    <3>2. DOMAIN src = {1} \cup 2 .. Len(src)
      BY <1>1
    <3>3. 1 \notin 2 .. Len(src)
      OBVIOUS
    <3>. QED
      BY <1>2, <1>4, <3>1, <3>2, <3>3
  <2>2. Z!Outcomes(op, src, agg, m) = (IF there = {1} THEN {Z!ScoreOf(src[1].key, m)} ELSE {})
    BY <1>3, <1>5
  <2>3. Z!ScoreOf(src[1].key, m) = Shown(src[1].key)[m]
    BY <1>1, <1>2
  <2>4. Finals(op, src, agg, m) = {Shown(src[1].key)[m]}
    BY <1>5 DEF Finals
  <2>. QED
    BY <2>1, <2>2, <2>3, <2>4
<1>6. CASE op # "diff"
  <2>. DEFINE two == Len(src) = 2 /\ Present(src, 1, m) /\ Present(src, 2, m)
  <2>1. Result(op, src, m) <=> there # {} /\ (op = "inter" => there = DOMAIN src)
    <3>1. CASE op = "union"
      <4>1. Result(op, src, m) <=> \E i \in DOMAIN src : Present(src, i, m)
        BY <3>1 DEF Result
      <4>. QED
        BY <1>2, <1>4, <3>1, <4>1
    <3>2. CASE op = "inter"
      <4>1. Result(op, src, m) <=> \A i \in DOMAIN src : Present(src, i, m)
        BY <3>2 DEF Result
      <4>. QED
        BY <1>1, <1>2, <1>4, <3>2, <4>1
    <3>. QED
      BY <1>6, <3>1, <3>2
  <2>2. two <=> Cardinality(there) = 2
    <3>1. CASE Len(src) = 2
      <4>1. DOMAIN src = {1, 2}
        BY <1>1, <3>1
      <4>2. there = {1, 2} <=> two
        BY <1>2, <1>4, <3>1, <4>1
      <4>3. there # {1, 2} => there = {} \/ there = {1} \/ there = {2}
        BY <1>4, <4>1
      <4>4. Cardinality({1, 2}) = 2 /\ Cardinality({1}) = 1 /\ Cardinality({2}) = 1 /\ Cardinality({}) = 0
        <5>1. IsFiniteSet({1}) /\ Cardinality({1}) = 1 /\ Cardinality({2}) = 1
          BY FS_Singleton
        <5>2. 2 \notin {1} /\ {1} \cup {2} = {1, 2}
          OBVIOUS
        <5>3. Cardinality({1} \cup {2}) = Cardinality({1}) + 1
          BY <5>1, <5>2, FS_AddElement
        <5>. QED
          BY <5>1, <5>2, <5>3, FS_EmptySet
      <4>. QED
        BY <4>2, <4>3, <4>4
    <3>2. CASE Len(src) = 1
      <4>1. DOMAIN src = {1}
        BY <1>1, <3>2
      <4>2. there = {} \/ there = {1}
        BY <1>4, <4>1
      <4>3. Cardinality({1}) = 1 /\ Cardinality({}) = 0
        BY FS_Singleton, FS_EmptySet
      <4>. QED
        BY <3>2, <4>2, <4>3
    <3>. QED
      BY <1>1, <3>1, <3>2
  <2>3. Finals(op, src, agg, m) = IF two THEN Z!ZSets!Kept(agg, Weighed(src, 1, m), Weighed(src, 2, m))
                                  ELSE {Weighed(src, CHOOSE i \in DOMAIN src : Present(src, i, m), m)}
    BY <1>6 DEF Finals
  <2>4. Z!Outcomes(op, src, agg, m) =
           IF ~Result(op, src, m) THEN {}
           ELSE IF two THEN Z!Apply(agg, scores[1], scores[2])
           ELSE {scores[CHOOSE i \in there : TRUE]}
    BY <1>3, <1>6, <2>1, <2>2
  <2>5. two => /\ Z!Apply(agg, scores[1], scores[2]) =
                     Z!ZSets!Kept(agg, Weighed(src, 1, m), Weighed(src, 2, m))
               /\ Z!Apply(agg, scores[1], scores[2]) # {}
    <3>1. two => 2 \in DOMAIN src
      BY <1>1
    <3>. QED
      BY <1>1, <1>2, <3>1, ApplyIs
  <2>6. (CHOOSE i \in there : TRUE) = (CHOOSE i \in DOMAIN src : Present(src, i, m))
        \/ two \/ there = {}
    <3>1. CASE Len(src) = 2
      <4>1. DOMAIN src = {1, 2}
        BY <1>1, <3>1
      <4>2. there = {} \/ there = {1} \/ there = {2} \/ two
        BY <1>2, <1>4, <3>1, <4>1
      <4>3. ASSUME NEW j \in {1, 2}, there = {j}
            PROVE  (CHOOSE i \in there : TRUE) = (CHOOSE i \in DOMAIN src : Present(src, i, m))
        <5>1. Present(src, j, m) /\ \A i \in DOMAIN src : Present(src, i, m) => i = j
          BY <1>2, <4>1, <4>3
        <5>2. (CHOOSE i \in DOMAIN src : Present(src, i, m)) = j
          BY <4>1, <5>1
        <5>. QED
          BY <4>3, <5>2
      <4>. QED
        BY <4>2, <4>3
    <3>2. CASE Len(src) = 1
      <4>1. DOMAIN src = {1}
        BY <1>1, <3>2
      <4>2. there = {} \/ there = {1}
        BY <1>4, <4>1
      <4>3. there = {1} => Present(src, 1, m)
        BY <1>1, <1>2
      <4>. QED
        BY <4>1, <4>2, <4>3
    <3>. QED
      BY <1>1, <3>1, <3>2
  <2>7. Result(op, src, m) /\ ~two =>
           scores[CHOOSE i \in there : TRUE] = Weighed(src, CHOOSE i \in DOMAIN src : Present(src, i, m), m)
    <3>. DEFINE j == CHOOSE i \in there : TRUE
    <3>1. Result(op, src, m) => j \in there
      BY <2>1
    <3>. HIDE DEF j, two
    <3>2. j \in there => scores[j] = Weighed(src, j, m)
      BY <1>2, <1>4
    <3>. QED
      BY <2>1, <2>6, <3>1, <3>2 DEF j
  <2>. HIDE DEF two
  <2>. QED
    BY <2>3, <2>4, <2>5, <2>7
<1>. QED
  BY <1>5, <1>6

LEMMA ZStoreStep ==
    ASSUME Z!ZSetAssumption, ZSound, NEW d \in Keys, NEW src \in Sources,
           NEW op \in {"union", "inter", "diff"}, NEW agg, Z!Store(op, d, src, agg)
    PROVE  ZSound' /\ Z!ZSets!Store(op, d, src, agg)
<1>1. PICK f \in Scorings :
         /\ \A m \in Members : LET o == Z!Outcomes(op, src, agg, m)
                               IN  IF o = {} THEN f[m] = Absent ELSE f[m] \in o
         /\ Z!Overwrite(d, f)
  BY DEF Z!Store, Scorings
<1>2. f \in Z!ZSets!Combined(op, src, agg)
  <2>1. \A m \in Members : IF Result(op, src, m) THEN f[m] \in Finals(op, src, agg, m) ELSE f[m] = Absent
    BY <1>1, OutcomesAre
  <2>. QED
    BY <2>1, CombinedIs
<1>. DEFINE S == {m \in Members : f[m] # Absent}
            h == [size |-> Z!Cardinality(S), row |-> f, index |-> {<<f[m], m>> : m \in S}]
<1>3. Z!Commit(d, h) /\ ret' = Z!Cardinality(S)
  BY <1>1 DEF Z!Overwrite
<1>4. h.row = f /\ h.index = Entries(f) /\ h.size = Cardinality(Has(f)) /\ S = Has(f)
  BY ZCardinality DEF Entries, Has
<1>. HIDE DEF h
<1>5. ZSound' /\ ShownAt(d, f)
  BY <1>3, <1>4, ZCommitted
<1>. DEFINE held == [i \in Keys |-> [m \in Members |-> Z!ScoreOf(i, m)]]
<1>6. held' = [held EXCEPT ![d] = f]
  BY <1>5, ZHeldNext
<1>7. ret' = Z!ZSets!Cardinality(S)
  BY <1>3, ZCardinality
<1>. HIDE DEF held
<1>8. Z!ZSets!Store(op, d, src, agg)
  BY <1>2, <1>6, <1>7 DEF Z!ZSets!Store, held
<1>. QED
  BY <1>5, <1>8

----------------------------------------------------------------------------
(* Views: what a handler that adds starts from, and one member's new score. *)

Views == [size : Nat, row : Codes, index : SUBSET (Int \X Members), added : Nat, changed : Nat]

LEMMA ZPreparedIs ==
    ASSUME Z!ZSetAssumption, ZSound, NEW k \in Keys
    PROVE  /\ Z!Prepared(k) = [size |-> Cardinality(Has(Shown(k))), row |-> Shown(k),
                               index |-> Entries(Shown(k)), added |-> 0, changed |-> 0]
           /\ Z!Prepared(k) \in Views
<1>. DEFINE r == Shown(k)
            v == [size |-> Cardinality(Has(r)), row |-> r, index |-> Entries(r),
                  added |-> 0, changed |-> 0]
<1>1. r \in Codes /\ Entries(r) \in SUBSET (Int \X Members) /\ Cardinality(Has(r)) \in Nat
  <2>1. r \in Scorings /\ Entries(r) \in SUBSET (Scores \X Members)
    BY ShownIs, ScoringIsCode
  <2>. QED
    BY <2>1, ScoringIsCode, ZAssumed, HasFinite
<1>2. v \in Views
  <2>. HIDE DEF r
  <2>. QED
    BY <1>1 DEF Views
<1>3. CASE Z!Live(k)
  <2>1. meta[k].size = Cardinality(Has(r)) /\ row[k] = r /\ index[k] = Entries(r)
    BY <1>3, ShownIs
  <2>. QED
    BY <1>2, <1>3, <2>1 DEF Z!Prepared, Z!Here
<1>4. CASE ~Z!Live(k)
  <2>1. r = Z!NoRows /\ Entries(r) = {} /\ Cardinality(Has(r)) = 0
    BY <1>4, ShownIs, NoRowsIs
  <2>. QED
    BY <1>2, <1>4, <2>1 DEF Z!Prepared
<1>. QED
  BY <1>3, <1>4

LEMMA PlaceIs ==
    ASSUME Z!ZSetAssumption, NEW h \in Views, h.index = Entries(h.row),
           NEW m \in Members, NEW s \in Int
    PROVE  /\ Z!Place(h, m, s) \in Views
           /\ Z!Place(h, m, s).row = [h.row EXCEPT ![m] = s]
           /\ Z!Place(h, m, s).index = Entries(Z!Place(h, m, s).row)
           /\ Has(Z!Place(h, m, s).row) = Has(h.row) \cup {m}
           /\ Z!Place(h, m, s).size = h.size
           /\ Z!Place(h, m, s).added = h.added /\ Z!Place(h, m, s).changed = h.changed
<1>. DEFINE r == h.row
            q == [r EXCEPT ![m] = s]
            x == (h.index \ {<<r[m], m>>}) \cup {<<s, m>>}
            p == [h EXCEPT !.row = q, !.index = x]
<1>1. /\ h.size \in Nat /\ r \in Codes /\ h.index \in SUBSET (Int \X Members)
      /\ h.added \in Nat /\ h.changed \in Nat
      /\ h = [size |-> h.size, row |-> h.row, index |-> h.index, added |-> h.added,
              changed |-> h.changed]
  BY DEF Views
<1>2. Z!Place(h, m, s) = p
  BY DEF Z!Place
<1>3. q \in Codes /\ \A i \in Members : q[i] = IF i = m THEN s ELSE r[i]
  BY <1>1 DEF Codes
<1>4. x \in SUBSET (Int \X Members)
  BY <1>1
<1>5. /\ p.row = q /\ p.index = x /\ p.size = h.size /\ p.added = h.added /\ p.changed = h.changed
      /\ p \in Views
  <2>. HIDE DEF q, x
  <2>. QED
    BY <1>1, <1>3, <1>4 DEF Views
<1>6. s # Absent
  BY ZAssumed
<1>7. Has(q) = Has(r) \cup {m}
  BY <1>3, <1>6 DEF Has
<1>8. x = Entries(q)
  <2>1. ASSUME NEW e \in x PROVE e \in Entries(q)
    <3>1. CASE e = <<s, m>>
      <4>1. m \in Has(q) /\ q[m] = s
        BY <1>3, <1>7
      <4>. QED
        BY <1>3, <3>1, <4>1, EntriesAre
    <3>2. CASE e \in Entries(r) /\ e # <<r[m], m>>
      <4>1. e = <<r[e[2]], e[2]>> /\ e[2] \in Has(r)
        BY <1>1, <3>2, EntriesAre
      <4>2. e[2] # m /\ e[2] \in Members /\ e[2] \in Has(q)
        BY <1>7, <3>2, <4>1 DEF Has
      <4>3. e = <<q[e[2]], e[2]>>
        BY <1>3, <4>1, <4>2
      <4>. QED
        BY <1>3, <4>2, <4>3, EntriesAre
    <3>. QED
      BY <3>1, <3>2
  <2>2. ASSUME NEW e \in Entries(q) PROVE e \in x
    <3>1. e = <<q[e[2]], e[2]>> /\ e[2] \in Has(r) \cup {m} /\ e[2] \in Members
      BY <1>3, <1>7, EntriesAre DEF Has
    <3>2. CASE e[2] = m
      BY <1>3, <3>1, <3>2
    <3>3. CASE e[2] # m
      <4>1. e = <<r[e[2]], e[2]>> /\ e[2] \in Has(r)
        BY <1>3, <3>1, <3>3
      <4>2. e \in Entries(r)
        BY <1>1, <4>1, EntriesAre
      <4>3. e # <<r[m], m>>
        BY <3>3
      <4>. QED
        BY <4>2, <4>3
    <3>. QED
      BY <3>2, <3>3
  <2>. QED
    BY <2>1, <2>2
<1>. HIDE DEF p, q, x
<1>. QED
  BY <1>2, <1>5, <1>7, <1>8 DEF q

LEMMA ZIncrByStep ==
    ASSUME Z!ZSetAssumption, ZSound, NEW k \in Keys, NEW m \in Members, NEW n \in Steps,
           Z!ZIncrBy(k, m, n)
    PROVE  ZSound' /\ Z!ZSets!ZIncrBy(k, m, n)
<1>. DEFINE h == Z!Prepared(k)
            r == Shown(k)
            new == IF r[m] = Absent THEN n ELSE Z!Plus(r[m], n)
            p == Z!Place(h, m, new)
            held == [i \in Keys |-> [x \in Members |-> Z!ScoreOf(i, x)]]
<1>1. /\ h.row = r /\ h.index = Entries(r) /\ h.size = Cardinality(Has(r)) /\ h \in Views
      /\ r \in Scorings /\ r \in Codes
  BY ZPreparedIs, ShownIs
<1>2. /\ new \in Scores
      /\ IF r[m] = Absent THEN Z!Commit(k, [p EXCEPT !.size = @ + 1])
         ELSE IF Z!Number(new) = Z!Number(r[m]) THEN UNCHANGED <<meta, row, index>>
         ELSE Z!Commit(k, p)
      /\ ret' = Z!Number(new)
  BY <1>1 DEF Z!ZIncrBy
<1>3. n \in Int /\ new \in Int
  <2>1. n \in Int
    BY DEF Z!ZSetAssumption
  <2>. QED
    BY <1>2, <2>1, ZAssumed
<1>4. r[m] # Absent => r[m] \in Int
  BY <1>1 DEF Codes
<1>5. new = IF m \in Z!ZSets!In(k) THEN Z!ZSets!Plus(r[m], n) ELSE n
  <2>1. m \in Z!ZSets!In(k) <=> r[m] # Absent
    BY ZHeldIs DEF Has
  <2>2. r[m] # Absent => Z!ZSets!Plus(r[m], n) = Z!Plus(r[m], n)
    BY <1>3, <1>4, PlusIs
  <2>. QED
    BY <2>1, <2>2
<1>6. Z!ZSets!Number(new) = Z!Number(new)
      /\ (r[m] # Absent => Z!ZSets!Number(r[m]) = Z!Number(r[m]))
  BY <1>3, <1>4, NumberIs
<1>. DEFINE g == [r EXCEPT ![m] = new]
<1>7. g \in Scorings
  BY <1>1, <1>2 DEF Scorings
<1>. HIDE DEF h, r, new, p
<1>8. p \in Views /\ p.row = g /\ p.index = Entries(g) /\ Has(g) = Has(r) \cup {m} /\ p.size = h.size
  <2>1. h \in Views /\ h.index = Entries(h.row) /\ h.row = r /\ new \in Int
    BY <1>1, <1>3
  <2>2. /\ p \in Views /\ p.row = [h.row EXCEPT ![m] = new] /\ p.index = Entries(p.row)
        /\ Has(p.row) = Has(h.row) \cup {m} /\ p.size = h.size
    BY ZenonT(40), <2>1, PlaceIs DEF p
  <2>3. p.row = g
    BY <2>1, <2>2
  <2>. HIDE DEF g
  <2>. QED
    BY <2>1, <2>2, <2>3
<1>9. ASSUME ZSound', ShownAt(k, g) PROVE held' = [held EXCEPT ![k][m] = new]
  <2>1. held' = [held EXCEPT ![k] = g]
    BY <1>9, ZHeldNext
  <2>2. held[k] = r
    BY ZHeldIs DEF r
  <2>. HIDE DEF held
  <2>3. held' = [held EXCEPT ![k] = [held[k] EXCEPT ![m] = new]]
    BY <2>1, <2>2
  <2>. QED
    BY <2>3
<1>10. held[k] = r
  BY ZHeldIs DEF r
<1>11. Z!ZSets!ZIncrBy(k, m, n) <=>
          LET w == IF m \in Z!ZSets!In(k) THEN Z!ZSets!Plus(held[k][m], n) ELSE n
          IN  /\ w \in Scores
              /\ held' = IF m \in Z!ZSets!In(k) /\ Z!ZSets!Number(w) = Z!ZSets!Number(held[k][m])
                         THEN held ELSE [held EXCEPT ![k][m] = w]
              /\ ret' = Z!ZSets!Number(w)
  BY DEF Z!ZSets!ZIncrBy
<1>12. m \in Z!ZSets!In(k) <=> r[m] # Absent
  BY ZHeldIs DEF Has, r
<1>13. UNCHANGED <<meta, row, index>> => ZSound' /\ held' = held
  BY ZKept
<1>. HIDE DEF held
<1>14. Z!ZSets!ZIncrBy(k, m, n) <=>
          /\ new \in Scores
          /\ held' = IF r[m] # Absent /\ Z!Number(new) = Z!Number(r[m])
                     THEN held ELSE [held EXCEPT ![k][m] = new]
          /\ ret' = Z!Number(new)
  BY <1>5, <1>6, <1>10, <1>11, <1>12
<1>15. CASE r[m] = Absent
  <2>. DEFINE v == [p EXCEPT !.size = @ + 1]
  <2>1. v.row = g /\ v.index = Entries(g) /\ v.size = h.size + 1
    BY <1>8 DEF Views
  <2>2. m \notin Has(r) /\ IsFiniteSet(Has(r))
    BY <1>15, HasFinite DEF Has
  <2>3. v.size = Cardinality(Has(g))
    <3>1. Cardinality(Has(r) \cup {m}) = Cardinality(Has(r)) + 1
      BY <2>2, FS_AddElement
    <3>. QED
      BY <1>1, <1>8, <2>1, <3>1
  <2>4. Z!Commit(k, v)
    BY <1>2, <1>15
  <2>. HIDE DEF v, g
  <2>5. ZSound' /\ ShownAt(k, g)
    BY <1>7, <2>1, <2>3, <2>4, ZCommitted
  <2>. QED
    BY <1>2, <1>9, <1>14, <1>15, <2>5
<1>16. CASE r[m] # Absent /\ Z!Number(new) = Z!Number(r[m])
  BY <1>2, <1>13, <1>14, <1>16
<1>17. CASE r[m] # Absent /\ Z!Number(new) # Z!Number(r[m])
  <2>1. Has(g) = Has(r)
    BY <1>8, <1>17 DEF Has
  <2>2. p.size = Cardinality(Has(g))
    BY <1>1, <1>8, <2>1
  <2>3. Z!Commit(k, p)
    BY <1>2, <1>17
  <2>. HIDE DEF g
  <2>4. ZSound' /\ ShownAt(k, g)
    BY <1>7, <1>8, <2>2, <2>3, ZCommitted
  <2>. QED
    BY <1>2, <1>9, <1>14, <1>17, <2>4
<1>. QED
  BY <1>15, <1>16, <1>17

LEMMA ZVanishStep ==
    ASSUME Z!ZSetAssumption, ZSound, NEW k \in Keys, Z!Lapse(k) \/ Z!Erase(k)
    PROVE  ZSound' /\ Z!ZSets!Without(k, Members, ret)
<1>1. ZFits(meta[k], row[k], index[k]) /\ meta \in [Keys -> Z!Metas \cup {Absent}]
      /\ row \in [Keys -> Scorings] /\ index \in [Keys -> SUBSET (Scores \X Members)]
  BY DEF ZSound
<1>2. ZSound' /\ ShownAt(k, Z!NoRows) /\ ret' = ret
  <2>1. CASE Z!Lapse(k)
    <3>. DEFINE m == [meta[k] EXCEPT !.lapsed = TRUE]
    <3>1. meta[k] # Absent /\ meta' = [meta EXCEPT ![k].lapsed = TRUE] /\ UNCHANGED <<row, index, ret>>
      BY <2>1 DEF Z!Lapse, Z!Live
    <3>2. meta[k] \in Z!Metas
      BY <1>1, <3>1
    <3>3. m \in Z!Metas /\ m.size = meta[k].size /\ m.lapsed
      BY <3>2 DEF Z!Metas
    <3>4. m # Absent
      BY <3>3, ZAssumed
    <3>5. ZFits(m, row[k], index[k])
      BY <1>1, <3>1, <3>3, <3>4 DEF ZFits
    <3>6. meta' = [meta EXCEPT ![k] = m]
      BY <3>1
    <3>7. row' = [row EXCEPT ![k] = row[k]] /\ index' = [index EXCEPT ![k] = index[k]]
      BY <1>1, <3>1
    <3>. HIDE DEF m
    <3>8. ZSound' /\ ShownAt(k, IF m # Absent /\ ~m.lapsed THEN row[k] ELSE Z!NoRows)
      BY <3>5, <3>6, <3>7, ZWritten
    <3>. QED
      BY <3>1, <3>3, <3>8
  <2>2. CASE Z!Erase(k)
    <3>. DEFINE x == {}
    <3>1. /\ meta' = [meta EXCEPT ![k] = Absent] /\ row' = [row EXCEPT ![k] = Z!NoRows]
          /\ index' = [index EXCEPT ![k] = x] /\ ret' = ret
      BY <2>2 DEF Z!Erase
    <3>2. ZFits(Absent, Z!NoRows, x)
      BY NoRowsIs DEF ZFits
    <3>. HIDE DEF x
    <3>3. ZSound' /\ ShownAt(k, IF Absent # Absent /\ ~Absent.lapsed THEN Z!NoRows ELSE Z!NoRows)
      BY <3>1, <3>2, ZWritten
    <3>. QED
      BY <3>1, <3>3
  <2>. QED
    BY <2>1, <2>2
<1>3. Cut(Shown(k), Members) = Z!NoRows
  BY DEF Cut, Z!NoRows
<1>. QED
  BY <1>2, <1>3, ZWithout

----------------------------------------------------------------------------
(* ZADD: pair after pair from the back.                                    *)

\* The members of the last i pairs; what becomes of each; the members added
\* and changed; and the view that says so.
NamedIn(ps, i) == {ps[j].member : j \in Len(ps) - i + 1 .. Len(ps)}
Want(r, ps, o, m) ==
    IF "incr" \in o /\ r[m] # Absent THEN Z!Plus(r[m], Z!ZSets!LastFor(ps, m))
    ELSE Z!ZSets!LastFor(ps, m)
News(r, ps, o, i) == {m \in NamedIn(ps, i) \ Has(r) : "xx" \notin o}
Moves(r, ps, o, i) ==
    {m \in NamedIn(ps, i) \cap Has(r) : Z!ZSets!Allowed(o, r[m], Want(r, ps, o, m))}
Rescored(r, ps, o, S) == [m \in Members |-> IF m \in S THEN Want(r, ps, o, m) ELSE r[m]]

AddsUp(r, ps, o, i, h) ==
    /\ h \in Views
    /\ h.index = Entries(h.row)
    /\ h.row = Rescored(r, ps, o, News(r, ps, o, i) \cup Moves(r, ps, o, i))
    /\ Has(h.row) = Has(r) \cup News(r, ps, o, i)
    /\ h.size = Cardinality(Has(h.row))
    /\ h.added = Cardinality(News(r, ps, o, i))
    /\ h.changed = Cardinality(Moves(r, ps, o, i))

\* One turn of the loop.
Again(ps, i) == \E j \in Len(ps) - i + 2 .. Len(ps) : ps[j].member = ps[Len(ps) - i + 1].member
AddNext(ps, o, i, h) == IF Again(ps, i) THEN h ELSE Z!AddOne(h, ps[Len(ps) - i + 1], o)

LEMMA PairsAre ==
    ASSUME Z!ZSetAssumption, NEW ps \in Additions
    PROVE  /\ Len(ps) \in Nat /\ DOMAIN ps = 1 .. Len(ps)
           /\ \A i \in 1 .. Len(ps) : ps[i].member \in Members /\ ps[i].score \in Scores
<1>. DEFINE R == [member : Members, score : Scores]
<1>1. ps \in Seq(R)
  BY DEF Z!ZSetAssumption
<1>2. \A p \in R : p.member \in Members /\ p.score \in Scores
  OBVIOUS
<1>. HIDE DEF R
<1>3. Len(ps) \in Nat /\ DOMAIN ps = 1 .. Len(ps) /\ \A i \in 1 .. Len(ps) : ps[i] \in R
  BY <1>1
<1>. QED
  BY <1>2, <1>3

\* The last pair of a member is the one the abstract ZADD takes.
LEMMA LastForIs ==
    ASSUME Z!ZSetAssumption, NEW ps \in Additions, NEW i \in 1 .. Len(ps), ~Again(ps, i)
    PROVE  Z!ZSets!LastFor(ps, ps[Len(ps) - i + 1].member) = ps[Len(ps) - i + 1].score
<1>. DEFINE n == Len(ps)
            l == n - i + 1
            m == ps[l].member
<1>1. n \in Nat /\ DOMAIN ps = 1 .. n
  BY PairsAre
<1>. HIDE DEF n
<1>2. l \in 1 .. n /\ n - i + 2 = l + 1 /\ l \in Int
  BY <1>1 DEF n
<1>3. \A j \in l + 1 .. n : ps[j].member # m
  BY <1>2 DEF Again, n
<1>. HIDE DEF l
<1>4. \A j \in DOMAIN ps : ps[j].member = m => j <= l
  BY <1>1, <1>2, <1>3
<1>5. \A j \in DOMAIN ps : ps[j].member = m /\ (\A x \in DOMAIN ps : ps[x].member = m => x <= j) => j = l
  BY <1>1, <1>2, <1>4
<1>6. (CHOOSE j \in DOMAIN ps : ps[j].member = m /\ \A x \in DOMAIN ps : ps[x].member = m => x <= j) = l
  BY <1>1, <1>2, <1>4, <1>5
<1>. QED
  BY <1>6 DEF Z!ZSets!LastFor, l, n

\* A member named again further on adds nothing, another one adds itself.
LEMMA NamedGrows ==
    ASSUME Z!ZSetAssumption, NEW ps \in Additions, NEW i \in 1 .. Len(ps)
    PROVE  /\ NamedIn(ps, i) = NamedIn(ps, i - 1) \cup {ps[Len(ps) - i + 1].member}
           /\ Again(ps, i) <=> ps[Len(ps) - i + 1].member \in NamedIn(ps, i - 1)
<1>. DEFINE n == Len(ps)
            l == n - i + 1
<1>1. n \in Nat
  BY PairsAre
<1>2. l \in 1 .. n /\ n - i + 2 = l + 1 /\ n - (i - 1) + 1 = l + 1 /\ l .. n = {l} \cup (l + 1) .. n
  BY <1>1
<1>3. /\ NamedIn(ps, i) = {ps[j].member : j \in l .. n}
      /\ NamedIn(ps, i - 1) = {ps[j].member : j \in l + 1 .. n}
      /\ Again(ps, i) <=> \E j \in l + 1 .. n : ps[j].member = ps[l].member
  BY <1>2 DEF NamedIn, Again
<1>. HIDE DEF l, n
<1>4. NamedIn(ps, i) = NamedIn(ps, i - 1) \cup {ps[l].member}
  BY <1>2, <1>3
<1>5. Again(ps, i) <=> ps[l].member \in NamedIn(ps, i - 1)
  BY <1>3
<1>. QED
  BY <1>4, <1>5 DEF l, n

LEMMA AddsFinite ==
    ASSUME Z!ZSetAssumption, NEW ps \in Additions, NEW r, NEW o, NEW i \in 0 .. Len(ps)
    PROVE  /\ NamedIn(ps, i) \subseteq Members
           /\ News(r, ps, o, i) \subseteq Members /\ Moves(r, ps, o, i) \subseteq Has(r)
           /\ IsFiniteSet(News(r, ps, o, i)) /\ IsFiniteSet(Moves(r, ps, o, i))
           /\ Cardinality(News(r, ps, o, i)) \in Nat /\ Cardinality(Moves(r, ps, o, i)) \in Nat
<1>1. NamedIn(ps, i) \subseteq Members
  <2>1. Len(ps) \in Nat /\ \A j \in 1 .. Len(ps) : ps[j].member \in Members
    BY PairsAre
  <2>2. \A j \in Len(ps) - i + 1 .. Len(ps) : j \in 1 .. Len(ps)
    BY <2>1
  <2>. QED
    BY <2>1, <2>2 DEF NamedIn
<1>2. News(r, ps, o, i) \subseteq Members /\ Moves(r, ps, o, i) \subseteq Has(r)
  BY <1>1 DEF News, Moves
<1>. DEFINE N == News(r, ps, o, i)
            M == Moves(r, ps, o, i)
<1>3. IsFiniteSet(Members) /\ IsFiniteSet(Has(r))
  BY ZAssumed, HasFinite
<1>4. N \subseteq Members /\ M \subseteq Has(r)
  BY <1>2
<1>. HIDE DEF N, M
<1>5. IsFiniteSet(N) /\ IsFiniteSet(M)
  BY <1>3, <1>4, FS_Subset
<1>6. Cardinality(N) \in Nat /\ Cardinality(M) \in Nat
  BY <1>5, FS_CardinalityType
<1>. QED
  BY <1>1, <1>4, <1>5, <1>6 DEF N, M

\* The bars of the loop are those of the options: an increment that goes the
\* wrong way makes a score that does.
LEMMA BarredIs ==
    ASSUME Z!ZSetAssumption, NEW r \in Codes, NEW ps \in Additions, NEW o,
           NEW i \in 1 .. Len(ps), ~Again(ps, i),
           NEW p, p = ps[Len(ps) - i + 1], NEW old, old = r[p.member], old # Absent,
           NEW new, new = IF "incr" \in o THEN Z!Plus(old, p.score) ELSE p.score
    PROVE  /\ new = Want(r, ps, o, p.member) /\ new \in Int
           /\ Z!ZSets!Allowed(o, old, new) <=>
                 ~(\/ "nx" \in o
                   \/ "incr" \in o /\ "lt" \in o /\ Z!Number(p.score) >= 0
                   \/ "incr" \in o /\ "gt" \in o /\ Z!Number(p.score) <= 0
                   \/ "gt" \in o /\ Z!Number(new) <= Z!Number(old)
                   \/ "lt" \in o /\ Z!Number(new) >= Z!Number(old)
                   \/ Z!Number(new) = Z!Number(old))
<1>1. Z!ZSets!LastFor(ps, p.member) = p.score
  BY LastForIs
<1>2. new = Want(r, ps, o, p.member)
  BY <1>1 DEF Want
<1>3. p.member \in Members /\ p.score \in Int
  <2>1. Len(ps) - i + 1 \in 1 .. Len(ps)
    BY PairsAre
  <2>. QED
    BY <2>1, PairsAre, ZAssumed
<1>4. old \in Int
  BY <1>3 DEF Codes
<1>5. new \in Int /\ ("incr" \in o => Z!Number(new) = Z!Number(old) + Z!Number(p.score))
  BY <1>3, <1>4, PlusIs
<1>. DEFINE a == Z!Number(old)
            b == Z!Number(new)
            c == Z!Number(p.score)
<1>6. a \in Int /\ b \in Int /\ c \in Int /\ Z!ZSets!Number(old) = a /\ Z!ZSets!Number(new) = b
  BY <1>3, <1>4, <1>5, NumberIs
<1>7. Z!ZSets!Allowed(o, old, new) <=>
         /\ "nx" \notin o /\ ("gt" \in o => b > a) /\ ("lt" \in o => b < a) /\ b # a
  BY <1>6 DEF Z!ZSets!Allowed
<1>8. "incr" \in o => b = a + c
  BY <1>5
<1>. HIDE DEF a, b, c
<1>9. ("incr" \in o /\ c >= 0 => b >= a) /\ ("incr" \in o /\ c <= 0 => b <= a)
  BY <1>6, <1>8
<1>10. (b > a <=> ~(b <= a)) /\ (b < a <=> ~(b >= a))
  BY <1>6
<1>11. Z!ZSets!Allowed(o, old, new) <=>
          ~(\/ "nx" \in o
            \/ "incr" \in o /\ "lt" \in o /\ c >= 0
            \/ "incr" \in o /\ "gt" \in o /\ c <= 0
            \/ "gt" \in o /\ b <= a
            \/ "lt" \in o /\ b >= a
            \/ b = a)
  BY <1>7, <1>9, <1>10
<1>. QED
  BY <1>2, <1>5, <1>11 DEF a, b, c

\* One pair more: the view goes on saying what became of each.
LEMMA ZAddOneStep ==
    ASSUME Z!ZSetAssumption, NEW r \in Codes, NEW ps \in Additions, NEW o,
           NEW i \in 1 .. Len(ps), NEW h, AddsUp(r, ps, o, i - 1, h)
    PROVE  AddsUp(r, ps, o, i, AddNext(ps, o, i, h))
<1>. DEFINE n == Len(ps)
            p == ps[n - i + 1]
            m == p.member
            A == News(r, ps, o, i - 1)
            C == Moves(r, ps, o, i - 1)
            B == News(r, ps, o, i)
            D == Moves(r, ps, o, i)
            w == Want(r, ps, o, m)
            old == h.row[m]
            new == IF old # Absent /\ "incr" \in o THEN Z!Plus(old, p.score) ELSE p.score
            barred == \/ "incr" \in o /\ "lt" \in o /\ Z!Number(p.score) >= 0
                      \/ "incr" \in o /\ "gt" \in o /\ Z!Number(p.score) <= 0
                      \/ "gt" \in o /\ Z!Number(new) <= Z!Number(old)
                      \/ "lt" \in o /\ Z!Number(new) >= Z!Number(old)
                      \/ Z!Number(new) = Z!Number(old)
<1>1. /\ h \in Views /\ h.index = Entries(h.row) /\ h.row = Rescored(r, ps, o, A \cup C)
      /\ Has(h.row) = Has(r) \cup A /\ h.size = Cardinality(Has(h.row))
      /\ h.added = Cardinality(A) /\ h.changed = Cardinality(C)
  BY DEF AddsUp
<1>2. m \in Members /\ p.score \in Int /\ p.score # Absent
  <2>1. n - i + 1 \in 1 .. n
    BY PairsAre
  <2>. QED
    BY <2>1, PairsAre, ZAssumed
<1>3. NamedIn(ps, i) = NamedIn(ps, i - 1) \cup {m} /\ (Again(ps, i) <=> m \in NamedIn(ps, i - 1))
  BY NamedGrows
<1>4. i - 1 \in 0 .. n /\ i \in 0 .. n
  BY PairsAre
<1>5. CASE Again(ps, i)
  <2>1. NamedIn(ps, i) = NamedIn(ps, i - 1)
    BY <1>3, <1>5
  <2>2. B = A /\ D = C
    BY <2>1 DEF News, Moves
  <2>3. AddNext(ps, o, i, h) = h
    BY <1>5 DEF AddNext
  <2>. HIDE DEF A, C, B, D
  <2>. QED
    BY <1>1, <2>2, <2>3 DEF AddsUp, B, D
<1>6. CASE ~Again(ps, i)
  <2>1. m \notin A /\ m \notin C
    BY <1>3, <1>6 DEF News, Moves
  <2>2. h.row \in Codes /\ old = r[m]
    <3>1. h.row \in Codes
      BY <1>1 DEF Views
    <3>. QED
      BY <1>1, <1>2, <2>1, <3>1 DEF Rescored
  <2>3. AddNext(ps, o, i, h) =
           IF old = Absent
           THEN IF "xx" \in o THEN h
                ELSE [Z!Place(h, m, p.score) EXCEPT !.size = @ + 1, !.added = @ + 1]
           ELSE IF "nx" \in o \/ barred THEN h
           ELSE [Z!Place(h, m, new) EXCEPT !.changed = @ + 1]
    BY <1>6 DEF AddNext, Z!AddOne
  <2>4. m \in Has(r) <=> old # Absent
    BY <1>2, <2>2 DEF Has
  <2>5. B = IF old = Absent /\ "xx" \notin o THEN A \cup {m} ELSE A
    BY <1>3, <2>4 DEF News
  <2>6. D = IF old # Absent /\ Z!ZSets!Allowed(o, old, w) THEN C \cup {m} ELSE C
    BY <1>3, <2>2, <2>4 DEF Moves
  <2>7. old # Absent => /\ new = w /\ new \in Int
                        /\ Z!ZSets!Allowed(o, old, new) <=> ~("nx" \in o \/ barred)
    <3>1. ASSUME old # Absent PROVE new = IF "incr" \in o THEN Z!Plus(old, p.score) ELSE p.score
      BY <3>1
    <3>2. ASSUME old # Absent
          PROVE  /\ new = w /\ new \in Int
                 /\ Z!ZSets!Allowed(o, old, new) <=>
                       ~(\/ "nx" \in o
                         \/ "incr" \in o /\ "lt" \in o /\ Z!Number(p.score) >= 0
                         \/ "incr" \in o /\ "gt" \in o /\ Z!Number(p.score) <= 0
                         \/ "gt" \in o /\ Z!Number(new) <= Z!Number(old)
                         \/ "lt" \in o /\ Z!Number(new) >= Z!Number(old)
                         \/ Z!Number(new) = Z!Number(old))
      <4>1. new = IF "incr" \in o THEN Z!Plus(old, p.score) ELSE p.score
        BY <3>1, <3>2
      <4>2. old = r[p.member] /\ p = ps[Len(ps) - i + 1]
        BY <2>2
      <4>. HIDE DEF new, old, p
      <4>. QED
        BY <1>6, <3>2, <4>1, <4>2, BarredIs DEF w, m
    <3>. QED
      BY <3>2
  <2>8. old = Absent => w = p.score
    <3>1. Z!ZSets!LastFor(ps, m) = p.score
      BY <1>6, LastForIs
    <3>. QED
      BY <2>2, <3>1 DEF Want
  <2>9. /\ IsFiniteSet(A) /\ IsFiniteSet(C) /\ Cardinality(A) \in Nat /\ Cardinality(C) \in Nat
    BY <1>4, AddsFinite
  <2>10. h.size \in Nat /\ h.added \in Nat /\ h.changed \in Nat /\ IsFiniteSet(Has(h.row))
    BY <1>1, HasFinite DEF Views
  <2>11. w \in Int => Rescored(r, ps, o, A \cup C \cup {m}) = [h.row EXCEPT ![m] = w]
    BY <1>1, <1>2 DEF Rescored
  <2>12. CASE old = Absent /\ "xx" \notin o
    <3>. DEFINE q == Z!Place(h, m, p.score)
                v == [q EXCEPT !.size = @ + 1, !.added = @ + 1]
    <3>1. /\ q \in Views /\ q.row = [h.row EXCEPT ![m] = p.score] /\ q.index = Entries(q.row)
          /\ Has(q.row) = Has(h.row) \cup {m} /\ q.size = h.size
          /\ q.added = h.added /\ q.changed = h.changed
      <4>. DEFINE s == p.score
                  t == Z!Place(h, m, s)
      <4>1. m \in Members /\ s \in Int
        BY <1>2
      <4>. HIDE DEF m, s
      <4>2. /\ t \in Views /\ t.row = [h.row EXCEPT ![m] = s] /\ t.index = Entries(t.row)
            /\ Has(t.row) = Has(h.row) \cup {m} /\ t.size = h.size
            /\ t.added = h.added /\ t.changed = h.changed
        BY ZenonT(40), <1>1, <4>1, PlaceIs
      <4>3. q = t
        BY DEF s
      <4>. HIDE DEF q, t
      <4>. QED
        BY <4>2, <4>3 DEF s
    <3>2. AddNext(ps, o, i, h) = v
      BY <2>3, <2>12
    <3>3. B = A \cup {m} /\ D = C
      BY <2>5, <2>6, <2>12
    <3>4. m \notin Has(h.row)
      BY <1>1, <2>1, <2>4, <2>12
    <3>. HIDE DEF q, A, C, B, D, w, old, new, p, m
    <3>5. /\ v \in Views /\ v.row = q.row /\ v.index = q.index /\ v.size = h.size + 1
          /\ v.added = h.added + 1 /\ v.changed = h.changed
      <4>. DEFINE a == q.size + 1
                  b == q.added + 1
      <4>1. a \in Nat /\ b \in Nat
        BY <2>10, <3>1
      <4>2. v = [q EXCEPT !.size = a, !.added = b]
        OBVIOUS
      <4>3. /\ v \in Views /\ v.row = q.row /\ v.index = q.index /\ v.size = a
            /\ v.added = b /\ v.changed = q.changed
        <5>. HIDE DEF a, b, v
        <5>. QED
          BY <3>1, <4>1, <4>2 DEF Views
      <4>. QED
        BY <3>1, <4>3
    <3>6. v.row = Rescored(r, ps, o, B \cup D)
      <4>1. B \cup D = A \cup C \cup {m}
        BY <3>3
      <4>. QED
        BY <1>2, <2>8, <2>11, <2>12, <3>1, <3>5, <4>1
    <3>7. Has(v.row) = Has(r) \cup B /\ v.size = Cardinality(Has(v.row))
      <4>1. Cardinality(Has(h.row) \cup {m}) = Cardinality(Has(h.row)) + 1
        BY <2>10, <3>4, FS_AddElement
      <4>. QED
        BY <1>1, <3>1, <3>3, <3>5, <4>1
    <3>8. v.added = Cardinality(B) /\ v.changed = Cardinality(D)
      <4>1. Cardinality(A \cup {m}) = Cardinality(A) + 1
        BY <2>1, <2>9, FS_AddElement
      <4>. QED
        BY <1>1, <3>3, <3>5, <4>1
    <3>9. v.index = Entries(v.row)
      BY <3>1, <3>5
    <3>. HIDE DEF v
    <3>. QED
      BY <3>2, <3>5, <3>6, <3>7, <3>8, <3>9 DEF AddsUp, B, D
  <2>13. CASE old # Absent /\ ~("nx" \in o \/ barred)
    <3>. DEFINE q == Z!Place(h, m, new)
                v == [q EXCEPT !.changed = @ + 1]
    <3>1. /\ q \in Views /\ q.row = [h.row EXCEPT ![m] = new] /\ q.index = Entries(q.row)
          /\ Has(q.row) = Has(h.row) \cup {m} /\ q.size = h.size
          /\ q.added = h.added /\ q.changed = h.changed
      <4>1. new \in Int
        BY <2>7, <2>13
      <4>. HIDE DEF new, m
      <4>2. m \in Members
        BY <1>2
      <4>. QED
        BY ZenonT(40), <1>1, <4>1, <4>2, PlaceIs
    <3>2. AddNext(ps, o, i, h) = v
      BY <2>3, <2>13
    <3>3. new = w /\ new \in Int
      BY <2>7, <2>13
    <3>. HIDE DEF barred
    <3>4. B = A /\ D = C \cup {m}
      <4>1. Z!ZSets!Allowed(o, old, w)
        BY <2>7, <2>13, <3>3
      <4>. QED
        BY <2>5, <2>6, <2>13, <4>1
    <3>5. m \in Has(h.row)
      BY <1>1, <2>4, <2>13
    <3>. HIDE DEF q, A, C, B, D, w, old, new, p, m
    <3>6. /\ v \in Views /\ v.row = q.row /\ v.index = q.index /\ v.size = h.size
          /\ v.added = h.added /\ v.changed = h.changed + 1
      BY <2>10, <3>1 DEF Views
    <3>7. v.row = Rescored(r, ps, o, B \cup D)
      <4>1. B \cup D = A \cup C \cup {m}
        BY <3>4
      <4>. QED
        BY <2>11, <3>1, <3>3, <3>6, <4>1
    <3>8. Has(v.row) = Has(r) \cup B /\ v.size = Cardinality(Has(v.row))
      <4>1. Has(v.row) = Has(h.row)
        BY <3>1, <3>5, <3>6
      <4>. QED
        BY <1>1, <3>4, <3>6, <4>1
    <3>9. v.added = Cardinality(B) /\ v.changed = Cardinality(D)
      <4>1. Cardinality(C \cup {m}) = Cardinality(C) + 1
        BY <2>1, <2>9, FS_AddElement
      <4>. QED
        BY <1>1, <3>4, <3>6, <4>1
    <3>10. v.index = Entries(v.row)
      BY <3>1, <3>6
    <3>. HIDE DEF v
    <3>. QED
      BY <3>2, <3>6, <3>7, <3>8, <3>9, <3>10 DEF AddsUp, B, D
  <2>14. CASE (old = Absent /\ "xx" \in o) \/ (old # Absent /\ ("nx" \in o \/ barred))
    <3>1. AddNext(ps, o, i, h) = h
      BY <2>3, <2>14
    <3>. HIDE DEF barred
    <3>2. B = A /\ D = C
      <4>1. old # Absent => ~Z!ZSets!Allowed(o, old, w)
        BY <2>7, <2>14
      <4>. QED
        BY <2>5, <2>6, <2>14, <4>1
    <3>. HIDE DEF A, C, B, D
    <3>. QED
      BY <1>1, <3>1, <3>2 DEF AddsUp, B, D
  <2>. HIDE DEF barred, old
  <2>. QED
    BY <2>12, <2>13, <2>14
<1>. QED
  BY <1>5, <1>6

\* The loop's function exists, and its last value is what AddAll says.
LEMMA AddAllIs ==
    ASSUME Z!ZSetAssumption, NEW k \in Keys, NEW ps \in Additions, NEW o
    PROVE  \E f : /\ f[0] = Z!Prepared(k) /\ f[Len(ps)] = Z!AddAll(k, ps, o)
                  /\ \A i \in 1 .. Len(ps) : f[i] = AddNext(ps, o, i, f[i - 1])
<1>. DEFINE n == Len(ps)
            v == Z!Prepared(k)
            Step(i, x) == AddNext(ps, o, i, x)
            Body(N, g) == [i \in 0 .. N |-> IF i = 0 THEN v ELSE Step(i, g[i - 1])]
            P(N) == \E g : g = Body(N, g)
<1>1. n \in Nat
  BY PairsAre
<1>. HIDE DEF Step, v, n
<1>2. P(0)
  <2>. DEFINE g == [i \in 0 .. 0 |-> v]
  <2>1. \A i \in 0 .. 0 : i = 0
    OBVIOUS
  <2>2. g = Body(0, g)
    BY <2>1
  <2>. QED
    BY <2>2
<1>3. ASSUME NEW N \in Nat, P(N) PROVE P(N + 1)
  <2>1. PICK g : g = Body(N, g)
    BY <1>3
  <2>. DEFINE h == [i \in 0 .. N + 1 |-> IF i = N + 1 THEN Step(N + 1, g[N]) ELSE g[i]]
  <2>2. \A i \in 0 .. N : g[i] = IF i = 0 THEN v ELSE Step(i, g[i - 1])
    BY <2>1
  <2>3. ASSUME NEW i \in 0 .. N + 1 PROVE h[i] = IF i = 0 THEN v ELSE Step(i, h[i - 1])
    <3>1. CASE i = N + 1
      <4>1. i # 0 /\ i - 1 = N /\ N \in 0 .. N + 1 /\ N # N + 1 /\ i - 1 \in 0 .. N + 1
        BY <3>1
      <4>2. h[i] = Step(i, g[N]) /\ h[N] = g[N]
        BY <3>1, <4>1
      <4>. HIDE DEF h
      <4>. QED
        BY <4>1, <4>2
    <3>2. CASE i = 0
      <4>1. i \in 0 .. N /\ i # N + 1
        BY <3>2
      <4>. QED
        BY <2>2, <3>2, <4>1
    <3>3. CASE i # N + 1 /\ i # 0
      <4>1. i \in 0 .. N /\ i - 1 \in 0 .. N + 1 /\ i - 1 # N + 1
        BY <3>3
      <4>2. h[i] = g[i] /\ h[i - 1] = g[i - 1]
        BY <3>3, <4>1
      <4>. HIDE DEF h
      <4>. QED
        BY <2>2, <3>3, <4>1, <4>2
    <3>. QED
      BY <3>1, <3>2, <3>3
  <2>4. h = Body(N + 1, h)
    BY <2>3
  <2>. QED
    BY <2>4
<1>4. P(n)
  <2>. DEFINE S == {N \in Nat : ~P(N)}
  <2>. HIDE DEF P
  <2>1. CASE S = {}
    BY <1>1, <2>1
  <2>2. CASE S # {}
    <3>1. PICK N \in S : \A x \in S : N <= x
      <4>1. S \subseteq Nat
        OBVIOUS
      <4>. HIDE DEF S
      <4>. QED
        BY <2>2, <4>1, LeastOf
    <3>2. N \in Nat /\ ~P(N) /\ N # 0
      BY <1>2
    <3>3. N - 1 \in Nat /\ N - 1 \notin S /\ (N - 1) + 1 = N
      <4>1. N - 1 \in Nat /\ ~(N <= N - 1) /\ (N - 1) + 1 = N
        BY <3>2
      <4>. QED
        BY <3>1, <4>1
    <3>4. P(N - 1)
      BY <3>3
    <3>5. P((N - 1) + 1)
      BY <1>3, <3>3, <3>4
    <3>. QED
      BY <3>2, <3>3, <3>5
  <2>. QED
    BY <2>1, <2>2
<1>. DEFINE after == CHOOSE g : g = Body(n, g)
<1>5. after = Body(n, after)
  BY <1>4
<1>6. Z!AddAll(k, ps, o) = after[n]
  BY Zenon DEF Z!AddAll, AddNext, Again, n, v, Step
<1>. HIDE DEF after
<1>7. after[0] = v /\ \A i \in 1 .. n : after[i] = Step(i, after[i - 1])
  <2>1. 0 \in 0 .. n /\ \A i \in 1 .. n : i \in 0 .. n /\ i # 0
    BY <1>1
  <2>. QED
    BY <1>5, <2>1
<1>. QED
  BY <1>6, <1>7 DEF n, v, Step

LEMMA AddAllSays ==
    ASSUME Z!ZSetAssumption, ZSound, NEW k \in Keys, NEW ps \in Additions, NEW o
    PROVE  AddsUp(Shown(k), ps, o, Len(ps), Z!AddAll(k, ps, o))
<1>. DEFINE r == Shown(k)
            n == Len(ps)
            Good(i, h) == AddsUp(r, ps, o, i, h)
<1>1. PICK f : /\ f[0] = Z!Prepared(k) /\ f[n] = Z!AddAll(k, ps, o)
               /\ \A i \in 1 .. n : f[i] = AddNext(ps, o, i, f[i - 1])
  BY AddAllIs
<1>2. n \in Nat /\ r \in Scorings /\ r \in Codes
  BY PairsAre, ShownIs
<1>3. Good(0, f[0])
  <2>. DEFINE h == f[0]
  <2>1. /\ h \in Views /\ h.row = r /\ h.index = Entries(r) /\ h.size = Cardinality(Has(r))
        /\ h.added = 0 /\ h.changed = 0
    BY <1>1, ZPreparedIs
  <2>2. News(r, ps, o, 0) = {} /\ Moves(r, ps, o, 0) = {}
    <3>1. n - 0 + 1 .. n = {}
      BY <1>2
    <3>2. NamedIn(ps, 0) = {}
      BY <3>1 DEF NamedIn
    <3>. QED
      BY <3>2 DEF News, Moves
  <2>3. Rescored(r, ps, o, {}) = r
    BY <1>2 DEF Rescored, Scorings
  <2>. DEFINE A == News(r, ps, o, 0)
              C == Moves(r, ps, o, 0)
  <2>4. A = {} /\ C = {} /\ A \cup C = {} /\ Cardinality(A) = 0 /\ Cardinality(C) = 0
    BY <2>2, FS_EmptySet
  <2>. HIDE DEF h, r, A, C
  <2>5. /\ h.index = Entries(h.row) /\ h.row = Rescored(r, ps, o, A \cup C)
        /\ Has(h.row) = Has(r) \cup A /\ h.size = Cardinality(Has(h.row))
        /\ h.added = Cardinality(A) /\ h.changed = Cardinality(C)
    BY <2>1, <2>3, <2>4
  <2>. QED
    BY <2>1, <2>5 DEF AddsUp, A, C, h
<1>4. ASSUME NEW i \in 1 .. n, Good(i - 1, f[i - 1]) PROVE Good(i, f[i])
  BY <1>1, <1>2, <1>4, ZAddOneStep
<1>. HIDE DEF Good, n
<1>5. Good(n, f[n])
  <2>. DEFINE S == {i \in 0 .. n : ~Good(i, f[i])}
  <2>1. CASE S = {}
    BY <1>2, <2>1
  <2>2. CASE S # {}
    <3>1. PICK i \in S : \A x \in S : i <= x
      <4>1. S \subseteq Nat
        BY <1>2
      <4>. HIDE DEF S
      <4>. QED
        BY <2>2, <4>1, LeastOf
    <3>2. i \in 1 .. n /\ ~Good(i, f[i])
      BY <1>2, <1>3
    <3>3. i - 1 \in 0 .. n /\ ~(i <= i - 1)
      BY <1>2, <3>2
    <3>4. Good(i - 1, f[i - 1])
      BY <3>1, <3>3
    <3>. QED
      BY <1>4, <3>2, <3>4
  <2>. QED
    BY <2>1, <2>2
<1>. QED
  BY <1>1, <1>5 DEF Good, n, r

LEMMA ZAddStep ==
    ASSUME Z!ZSetAssumption, ZSound, NEW k \in Keys, NEW ps \in Additions, NEW o, Z!ZAdd(k, ps, o)
    PROVE  /\ "incr" \in o => Len(ps) = 1
           /\ ZSound' /\ Z!ZSets!ZAdd(k, ps, o)
<1>. DEFINE r == Shown(k)
            h == Z!AddAll(k, ps, o)
            A == News(r, ps, o, Len(ps))
            C == Moves(r, ps, o, Len(ps))
            g == Rescored(r, ps, o, A \cup C)
            held == [i \in Keys |-> [m \in Members |-> Z!ScoreOf(i, m)]]
<1>1. /\ "incr" \in o => Len(ps) = 1
      /\ \A m \in Members : h.row[m] \in Scores \cup {Absent}
      /\ IF h.added + h.changed > 0 THEN Z!Commit(k, h) ELSE UNCHANGED <<meta, row, index>>
      /\ ret' = h.added + (IF "ch" \in o THEN h.changed ELSE 0)
  BY DEF Z!ZAdd
<1>2. r \in Scorings /\ r \in Codes /\ held[k] = r /\ Z!ZSets!In(k) = Has(r)
  BY ShownIs, ZHeldIs
<1>3. AddsUp(r, ps, o, Len(ps), h)
  BY AddAllSays
<1>4. /\ h.row = g /\ h.index = Entries(g) /\ Has(g) = Has(r) \cup A /\ h.size = Cardinality(Has(g))
      /\ h.added = Cardinality(A) /\ h.changed = Cardinality(C)
  BY <1>3 DEF AddsUp
<1>5. /\ A \subseteq Members /\ C \subseteq Has(r) /\ IsFiniteSet(A) /\ IsFiniteSet(C)
      /\ Cardinality(A) \in Nat /\ Cardinality(C) \in Nat
  <2>1. Len(ps) \in 0 .. Len(ps)
    BY PairsAre
  <2>. QED
    BY <2>1, AddsFinite
<1>6. g \in Scorings /\ \A m \in A \cup C : g[m] = Want(r, ps, o, m) /\ m \in Has(g)
  <2>1. \A m \in A \cup C : g[m] = Want(r, ps, o, m) /\ m \in Has(g)
    BY <1>4, <1>5 DEF Rescored, Has
  <2>2. g \in [Members -> Scores \cup {Absent}]
    BY <1>1, <1>4 DEF Rescored
  <2>. QED
    BY <2>1, <2>2 DEF Scorings
<1>7. \A m \in A \cup C : Want(r, ps, o, m) \in Scores
  <2>. HIDE DEF g, A, C
  <2>. QED
    BY <1>6, ScoringIsCode
<1>8. ZSound' /\ held' = [held EXCEPT ![k] = g]
  <2>1. CASE h.added + h.changed > 0
    <3>1. Z!Commit(k, h)
      BY <1>1, <2>1
    <3>. HIDE DEF h, g
    <3>2. h.row \in Scorings /\ h.index = Entries(h.row) /\ h.size = Cardinality(Has(h.row))
      BY <1>4, <1>6
    <3>3. ZSound' /\ ShownAt(k, h.row)
      BY <3>1, <3>2, ZCommitted
    <3>4. ZSound' /\ ShownAt(k, g)
      BY <1>4, <3>3
    <3>. QED
      BY <3>4, ZHeldNext
  <2>2. CASE ~(h.added + h.changed > 0)
    <3>1. UNCHANGED <<meta, row, index>>
      BY <1>1, <2>2
    <3>2. Cardinality(A) = 0 /\ Cardinality(C) = 0
      <4>. HIDE DEF A, C, h
      <4>. QED
        BY <1>4, <1>5, <2>2
    <3>3. A \cup C = {}
      <4>. HIDE DEF A, C
      <4>. QED
        BY <1>5, <3>2, FS_EmptySet
    <3>4. g = r
      <4>. HIDE DEF A, C, r
      <4>. QED
        BY <1>2, <3>3 DEF Rescored, Scorings
    <3>5. ZSound' /\ held' = held
      BY <3>1, ZKept
    <3>6. held = [held EXCEPT ![k] = r]
      BY <1>2
    <3>. HIDE DEF held, g, r
    <3>. QED
      BY <3>4, <3>5, <3>6
  <2>. QED
    BY <2>1, <2>2
<1>. DEFINE named == {p.member : p \in Z!ZSets!ToSet(ps)}
            want(m) == IF "incr" \in o /\ m \in Z!ZSets!In(k)
                       THEN Z!ZSets!Plus(held[k][m], Z!ZSets!LastFor(ps, m))
                       ELSE Z!ZSets!LastFor(ps, m)
            added == {m \in named \ Z!ZSets!In(k) : "xx" \notin o}
            changed == {m \in named \cap Z!ZSets!In(k) : Z!ZSets!Allowed(o, held[k][m], want(m))}
<1>9. named = NamedIn(ps, Len(ps)) /\ named \subseteq Members
  <2>1. Len(ps) \in Nat /\ DOMAIN ps = 1 .. Len(ps) /\ Len(ps) - Len(ps) + 1 = 1
    BY PairsAre
  <2>2. Z!ZSets!ToSet(ps) = {ps[i] : i \in 1 .. Len(ps)}
    BY <2>1, ZToSet
  <2>3. NamedIn(ps, Len(ps)) = {ps[j].member : j \in 1 .. Len(ps)}
    BY <2>1 DEF NamedIn
  <2>4. named = {ps[j].member : j \in 1 .. Len(ps)}
    BY <2>2
  <2>. QED
    BY <2>3, <2>4, PairsAre
<1>10. ASSUME NEW m \in named PROVE want(m) = Want(r, ps, o, m)
  <2>1. m \in Z!ZSets!In(k) <=> r[m] # Absent
    BY <1>2, <1>9, <1>10 DEF Has
  <2>2. CASE "incr" \in o /\ r[m] # Absent
    <3>1. \E i \in DOMAIN ps : ps[i].member = m /\ \A j \in DOMAIN ps : ps[j].member = m => j <= i
      <4>1. Len(ps) = 1 /\ DOMAIN ps = {1}
        BY <1>1, <2>2, PairsAre
      <4>2. PICK j \in 1 .. Len(ps) : ps[j].member = m
        <5>1. Len(ps) - Len(ps) + 1 = 1
          BY <4>1
        <5>. QED
          BY <1>9, <1>10, <5>1 DEF NamedIn
      <4>3. j = 1
        BY <4>1
      <4>. QED
        BY <4>1, <4>2, <4>3
    <3>2. PICK i \in DOMAIN ps : Z!ZSets!LastFor(ps, m) = ps[i].score
      BY <3>1 DEF Z!ZSets!LastFor
    <3>3. Z!ZSets!LastFor(ps, m) \in Int
      BY <3>2, PairsAre, ZAssumed
    <3>4. r[m] \in Int
      BY <1>2, <1>9, <1>10, <2>2 DEF Codes
    <3>. QED
      BY <1>2, <2>1, <2>2, <3>3, <3>4, PlusIs DEF Want
  <2>3. CASE ~("incr" \in o /\ r[m] # Absent)
    BY <2>1, <2>3 DEF Want
  <2>. QED
    BY <2>2, <2>3
<1>11. added = A
  BY <1>2, <1>9 DEF News
<1>12. changed = C
  <2>1. \A m \in named : want(m) = Want(r, ps, o, m)
    BY <1>10
  <2>. HIDE DEF want, named
  <2>. QED
    BY <1>2, <1>9, <2>1 DEF Moves
<1>13. \A m \in A \cup C : want(m) = Want(r, ps, o, m)
  BY <1>9, <1>10 DEF News, Moves
<1>14. Z!ZSets!ZAdd(k, ps, o) <=>
          /\ \A m \in added \cup changed : want(m) \in Scores
          /\ held' = [held EXCEPT ![k] = [m \in Members |-> IF m \in added \cup changed
                                                            THEN want(m) ELSE held[k][m]]]
          /\ ret' = Z!ZSets!Cardinality(added)
                    + (IF "ch" \in o THEN Z!ZSets!Cardinality(changed) ELSE 0)
  BY Zenon DEF Z!ZSets!ZAdd
<1>15. [m \in Members |-> IF m \in A \cup C THEN want(m) ELSE held[k][m]] = g
  <2>. HIDE DEF want, A, C, held, r
  <2>. QED
    BY <1>2, <1>13 DEF Rescored
<1>16. Z!ZSets!Cardinality(A) = Cardinality(A) /\ Z!ZSets!Cardinality(C) = Cardinality(C)
  BY ZCardinality
<1>. HIDE DEF held, want, added, changed, A, C, g, h, r
<1>17. Z!ZSets!ZAdd(k, ps, o)
  BY <1>1, <1>4, <1>7, <1>8, <1>11, <1>12, <1>13, <1>14, <1>15, <1>16
<1>. QED
  BY <1>1, <1>8, <1>17

----------------------------------------------------------------------------
(* What holds of sorted sets.                                              *)

LEMMA ZInit ==
    ASSUME Z!ZSetAssumption, Z!Init
    PROVE  ZSound /\ Z!ZSets!Init
<1>1. \A k \in Keys : meta[k] = Absent /\ row[k] = Z!NoRows /\ index[k] = {}
  BY DEF Z!Init
<1>2. ZSound
  <2>1. ZFits(Absent, Z!NoRows, {})
    BY NoRowsIs DEF ZFits
  <2>2. \A k \in Keys : ZFits(meta[k], row[k], index[k])
    BY <1>1, <2>1
  <2>. QED
    BY <2>2, NoRowsIs DEF ZSound, Z!Init
<1>3. \A k \in Keys, m \in Members : Z!ScoreOf(k, m) = Absent
  BY <1>1 DEF Z!ScoreOf, Z!Live
<1>4. Z!ZSets!Init
  BY <1>3 DEF Z!ZSets!Init, Z!Init
<1>. QED
  BY <1>2, <1>4

LEMMA ZCallStep ==
    ASSUME Z!ZSetAssumption, ZSound, NEW k \in Keys, Z!Call(k)
    PROVE  ZSound' /\ Z!ZSets!Call(k)
<1>1. CASE \E ps \in Additions, o \in Options : asked' = <<"add", k, ps, o>> /\ Z!ZAdd(k, ps, o)
  BY <1>1, ZAddStep DEF Z!ZSets!Call
<1>2. CASE \E ms \in Removals : asked' = <<"rem", k, ms>> /\ Z!ZRem(k, ms)
  BY <1>2, ZRemStep DEF Z!ZSets!Call
<1>3. CASE \E m \in Members, n \in Steps : asked' = <<"incr", k, m, n>> /\ Z!ZIncrBy(k, m, n)
  BY <1>3, ZIncrByStep DEF Z!ZSets!Call
<1>4. CASE \E n \in Counts, high \in BOOLEAN : asked' = <<"pop", k, n, high>> /\ Z!ZPop(k, n, high)
  BY <1>4, ZPopStep DEF Z!ZSets!Call
<1>5. CASE \E r \in Ranks : asked' = <<"remrank", k, r>> /\ Z!ZRemRangeByRank(k, r)
  BY <1>5, ZRemRankStep DEF Z!ZSets!Call
<1>6. CASE \E s \in Spans : \/ asked' = <<"remscore", k, s>> /\ Z!ZRemRangeByScore(k, s)
                            \/ asked' = <<"remlex", k, s>> /\ Z!ZRemRangeByLex(k, s)
  BY <1>6, ZRemScoreStep, ZRemLexStep DEF Z!ZSets!Call
<1>7. CASE \E op \in {"union", "inter", "diff"}, src \in Sources, agg \in {"sum", "min", "max"} :
              asked' = <<"store", op, k, src, agg>> /\ Z!Store(op, k, src, agg)
  BY <1>7, ZStoreStep DEF Z!ZSets!Call
<1>8. CASE asked' = <<"vanish", k>> /\ (Z!Lapse(k) \/ Z!Erase(k))
  BY <1>8, ZVanishStep DEF Z!ZSets!Call
<1>. QED
  BY <1>1, <1>2, <1>3, <1>4, <1>5, <1>6, <1>7, <1>8 DEF Z!Call

LEMMA ZNextStep ==
    ASSUME Z!ZSetAssumption, ZSound, [Z!Next]_(Z!vars)
    PROVE  ZSound' /\ [Z!ZSets!ZNext]_(Z!ZSets!vars)
<1>1. ASSUME NEW k \in Keys, Z!Call(k) PROVE ZSound' /\ Z!ZSets!ZNext
  BY <1>1, ZCallStep DEF Z!ZSets!ZNext
<1>2. ASSUME NEW src \in Sources, NEW n \in Counts, NEW high \in BOOLEAN,
             asked' = <<"mpop", [i \in DOMAIN src |-> src[i].key], n, high>>,
             Z!ZMPop([i \in DOMAIN src |-> src[i].key], n, high)
      PROVE  ZSound' /\ Z!ZSets!ZNext
  <2>. DEFINE ks == [i \in DOMAIN src |-> src[i].key]
  <2>1. ZSound' /\ Z!ZSets!ZMPop(ks, n, high)
    BY <1>2, ZMPopStep
  <2>. QED
    BY <1>2, <2>1 DEF Z!ZSets!ZNext
<1>3. CASE UNCHANGED Z!vars
  <2>1. UNCHANGED <<meta, row, index>> /\ UNCHANGED <<asked, ret>>
    BY <1>3 DEF Z!vars
  <2>2. ZSound' /\ UNCHANGED [i \in Keys |-> [m \in Members |-> Z!ScoreOf(i, m)]]
    BY <2>1, ZKept
  <2>3. UNCHANGED Z!ZSets!vars
    BY <2>1, <2>2 DEF Z!ZSets!vars
  <2>. QED
    BY <2>2, <2>3
<1>4. CASE Z!Next
  BY <1>1, <1>2, <1>4 DEF Z!Next
<1>. QED
  BY <1>3, <1>4

LEMMA ZReadsAre ==
    ASSUME Z!ZSetAssumption, ZSound
    PROVE  Z!ReadsExact
<1>. SUFFICES ASSUME NEW k \in Keys, NEW min \in Scores, NEW max \in Scores,
                     NEW minex \in BOOLEAN, NEW maxex \in BOOLEAN, min <= max
              PROVE  Z!ByScore(k, [min |-> min, max |-> max, minex |-> minex, maxex |-> maxex]) =
                        {e \in Z!Ordered(k) :
                           Z!Check(Z!Number(e[1]), [min |-> Z!Number(min), max |-> Z!Number(max),
                                                    minex |-> minex, maxex |-> maxex])}
  BY DEF Z!ReadsExact
<1>. DEFINE s == [min |-> min, max |-> max, minex |-> minex, maxex |-> maxex]
<1>1. min \in Int /\ max \in Int
  BY ZAssumed
<1>2. s \in [min : Int, max : Int, minex : BOOLEAN, maxex : BOOLEAN] /\ ~(s.min = 0 /\ s.max = -1)
  BY <1>1
<1>. DEFINE q == [min |-> Z!Number(min), max |-> Z!Number(max), minex |-> minex, maxex |-> maxex]
<1>3. ASSUME NEW x PROVE Z!Check(x, Z!Numbers(s)) <=> Z!Check(x, q)
  <2>1. Z!Check(x, Z!Numbers(s)) <=> /\ IF minex THEN Z!Number(min) < x ELSE Z!Number(min) <= x
                                     /\ IF maxex THEN x < Z!Number(max) ELSE x <= Z!Number(max)
    BY DEF Z!Check, Z!Numbers
  <2>2. Z!Check(x, q) <=> /\ IF minex THEN Z!Number(min) < x ELSE Z!Number(min) <= x
                          /\ IF maxex THEN x < Z!Number(max) ELSE x <= Z!Number(max)
    BY DEF Z!Check
  <2>. QED
    BY <2>1, <2>2
<1>4. Z!Ordered(k) = Entries(Shown(k))
  BY ShownIs
<1>. HIDE DEF s, q
<1>5. Z!ByScore(k, s) = {e \in Entries(Shown(k)) : Z!Check(Z!Number(e[1]), Z!Numbers(s))}
  BY <1>2, ByScoreIs
<1>. QED
  BY <1>3, <1>4, <1>5 DEF s, q

\* The order of the rows is one.
LEMMA EntriesOrdered ==
    ASSUME Z!ZSetAssumption, NEW r \in Codes, NEW a \in Entries(r), NEW b \in Entries(r)
    PROVE  /\ a # b => Z!InOrder(a, b) \/ Z!InOrder(b, a)
           /\ Z!InOrder(a, b) <=> a[1] < b[1] \/ (a[1] = b[1] /\ a[2] < b[2])
           /\ a[1] \in Int /\ a[2] \in Nat /\ b[1] \in Int /\ b[2] \in Nat
<1>1. /\ a = <<a[1], a[2]>> /\ b = <<b[1], b[2]>>
      /\ a[1] \in Int /\ a[2] \in Nat /\ b[1] \in Int /\ b[2] \in Nat
  BY EntriesAre
<1>2. a # b => a[1] # b[1] \/ a[2] # b[2]
  BY <1>1
<1>. QED
  BY <1>1, <1>2 DEF Z!InOrder

\* Where no other zero is about, each walk stops at the member itself.
LEMMA WalksStop ==
    ASSUME Z!ZSetAssumption, NEW r \in Codes, NEW e \in Entries(r),
           \A x \in Entries(r) : Z!Number(x[1]) = Z!Number(e[1]) => x[1] = e[1]
    PROVE  LET up == {x \in Entries(r) : \/ Z!Number(x[1]) > Z!Number(e[1])
                                         \/ Z!Number(x[1]) = Z!Number(e[1]) /\ x[2] >= e[2]}
               down == {x \in Entries(r) : \/ Z!Number(x[1]) < Z!Number(e[1])
                                           \/ Z!Number(x[1]) = Z!Number(e[1]) /\ x[2] <= e[2]}
           IN  /\ up # {} /\ (CHOOSE x \in up : \A y \in up : ~Z!InOrder(y, x)) = e
               /\ down # {} /\ (CHOOSE x \in down : \A y \in down : ~Z!InOrder(x, y)) = e
<1>. DEFINE up == {x \in Entries(r) : \/ Z!Number(x[1]) > Z!Number(e[1])
                                      \/ Z!Number(x[1]) = Z!Number(e[1]) /\ x[2] >= e[2]}
            down == {x \in Entries(r) : \/ Z!Number(x[1]) < Z!Number(e[1])
                                        \/ Z!Number(x[1]) = Z!Number(e[1]) /\ x[2] <= e[2]}
<1>1. e[1] \in Int /\ e[2] \in Nat /\ Z!Number(e[1]) \in Int
  BY EntriesAre, NumberIs
<1>2. e \in up /\ e \in down
  BY <1>1
<1>3. ASSUME NEW x \in up PROVE ~Z!InOrder(x, e) /\ (x # e => Z!InOrder(e, x))
  <2>1. x \in Entries(r) /\ x[1] \in Int /\ x[2] \in Nat /\ Z!Number(x[1]) \in Int
    BY EntriesAre, NumberIs
  <2>2. x[1] > e[1] \/ (x[1] = e[1] /\ x[2] >= e[2])
    BY <1>1, <2>1, NumberOrder
  <2>3. ~Z!InOrder(x, e)
    BY <1>1, <2>1, <2>2 DEF Z!InOrder
  <2>. QED
    BY <2>1, <2>3, EntriesOrdered
<1>4. ASSUME NEW x \in down PROVE ~Z!InOrder(e, x) /\ (x # e => Z!InOrder(x, e))
  <2>1. x \in Entries(r) /\ x[1] \in Int /\ x[2] \in Nat /\ Z!Number(x[1]) \in Int
    BY EntriesAre, NumberIs
  <2>2. x[1] < e[1] \/ (x[1] = e[1] /\ x[2] <= e[2])
    BY <1>1, <2>1, NumberOrder
  <2>3. ~Z!InOrder(e, x)
    BY <1>1, <2>1, <2>2 DEF Z!InOrder
  <2>. QED
    BY <2>1, <2>3, EntriesOrdered
<1>. HIDE DEF up, down
<1>5. (CHOOSE x \in up : \A y \in up : ~Z!InOrder(y, x)) = e
  BY <1>2, <1>3
<1>6. (CHOOSE x \in down : \A y \in down : ~Z!InOrder(x, y)) = e
  BY <1>2, <1>4
<1>. QED
  BY <1>2, <1>5, <1>6 DEF up, down

LEMMA ZRanksAre ==
    ASSUME Z!ZSetAssumption, ZSound
    PROVE  Z!RanksExact
<1>. SUFFICES ASSUME NEW k \in Keys, NEW e \in Z!Ordered(k),
                     \A x \in Z!Ordered(k) : Z!Number(x[1]) = Z!Number(e[1]) => x[1] = e[1]
              PROVE  /\ Z!ZRank(k, e[2]) = Z!Cardinality(Z!Ahead(Z!Ordered(k), e))
                     /\ Z!ZRevRank(k, e[2]) = Z!Size(k) - 1 - Z!Cardinality(Z!Ahead(Z!Ordered(k), e))
  BY DEF Z!RanksExact
<1>. DEFINE r == Shown(k)
            m == e[2]
            t == e[1]
            up == {x \in Entries(r) : \/ Z!Number(x[1]) > Z!Number(t)
                                      \/ Z!Number(x[1]) = Z!Number(t) /\ x[2] >= m}
            down == {x \in Entries(r) : \/ Z!Number(x[1]) < Z!Number(t)
                                        \/ Z!Number(x[1]) = Z!Number(t) /\ x[2] <= m}
            f == CHOOSE x \in up : \A y \in up : ~Z!InOrder(y, x)
            l == CHOOSE x \in down : \A y \in down : ~Z!InOrder(x, y)
<1>1. r \in Codes /\ Z!Ordered(k) = Entries(r) /\ Z!Size(k) = Cardinality(Has(r))
  BY ShownIs
<1>2. m \in Has(r) /\ m \in Members /\ t = r[m] /\ e = <<r[m], m>> /\ t # Absent
  BY <1>1, EntriesAre DEF Has
<1>3. Z!ScoreOf(k, m) = t
  BY <1>2, ShownIs
<1>4. up # {} /\ f = e /\ down # {} /\ l = e
  BY <1>1, WalksStop
<1>5. Z!ZRank(k, m) = IF t = Absent \/ up = {} THEN Absent
                      ELSE IF f[2] = m THEN Z!Cardinality(Z!Ahead(Z!Ordered(k), f)) ELSE Absent
  BY <1>1, <1>3 DEF Z!ZRank
<1>6. Z!ZRevRank(k, m) = IF t = Absent \/ down = {} THEN Absent
                         ELSE IF l[2] = m THEN Z!Cardinality({x \in Z!Ordered(k) : Z!InOrder(l, x)})
                         ELSE Absent
  BY <1>1, <1>3 DEF Z!ZRevRank
<1>. HIDE DEF up, down, f, l
<1>7. /\ Z!ZRank(k, m) = Z!Cardinality(Z!Ahead(Entries(r), e))
      /\ Z!ZRevRank(k, m) = Z!Cardinality({x \in Entries(r) : Z!InOrder(e, x)})
  BY <1>1, <1>2, <1>4, <1>5, <1>6
<1>8. /\ Z!Cardinality(Z!Ahead(Entries(r), e)) = Cardinality(Earlier(r, m))
      /\ Z!Cardinality({x \in Entries(r) : Z!InOrder(e, x)}) = Cardinality(Later(r, m))
  BY <1>1, <1>2, AheadIs, ZCardinality
<1>9. Cardinality(Later(r, m)) = Cardinality(Has(r)) - 1 - Cardinality(Earlier(r, m))
  BY <1>1, <1>2, PlacesBothWays
<1>. HIDE DEF r, m
<1>. QED
  BY <1>1, <1>7, <1>8, <1>9 DEF m

LEMMA ZRowsAre ==
    ASSUME Z!ZSetAssumption, ZSound
    PROVE  Z!BoundsExact
<1>. SUFFICES ASSUME NEW k \in Keys
              PROVE  /\ index[k] = {<<row[k][m], m>> : m \in {x \in Members : row[k][x] # Absent}}
                     /\ IF meta[k] = Absent THEN index[k] = {}
                        ELSE meta[k].size > 0 /\ meta[k].size = Z!Cardinality(index[k])
  BY DEF Z!BoundsExact
<1>. DEFINE r == row[k]
<1>1. ZFits(meta[k], r, index[k])
  BY DEF ZSound
<1>2. r \in Codes /\ index[k] = Entries(r)
  BY <1>1, ScoringIsCode DEF ZFits
<1>3. Cardinality(index[k]) = Cardinality(Has(r))
  <2>1. Cardinality({e[2] : e \in Entries(r)}) = Cardinality(Entries(r))
    BY <1>2, NamesOf
  <2>2. {e[2] : e \in Entries(r)} = {m \in Has(r) : <<r[m], m>> \in Entries(r)}
    BY <1>2, NamesOf
  <2>3. {m \in Has(r) : <<r[m], m>> \in Entries(r)} = Has(r)
    BY <1>2, EntriesAre DEF Has
  <2>. QED
    BY <1>2, <2>1, <2>2, <2>3
<1>4. Z!Cardinality(index[k]) = Cardinality(Has(r))
  BY <1>3, ZCardinality
<1>5. IF meta[k] = Absent THEN index[k] = {}
      ELSE meta[k].size > 0 /\ meta[k].size = Cardinality(Has(r))
  BY <1>1, <1>2 DEF ZFits, Entries
<1>. QED
  BY <1>2, <1>4, <1>5 DEF Entries, Has

(* The records and the two kinds of rows of sorted sets have their types.  *)
THEOREM ZTypeCorrect ==
    ASSUME Z!ZSetAssumption
    PROVE  Z!Spec => []Z!TypeOK
<1>1. Z!Init => ZSound
  BY ZInit
<1>2. ZSound /\ [Z!Next]_(Z!vars) => ZSound'
  BY ZNextStep
<1>3. ZSound => Z!TypeOK
  BY DEF ZSound, Scorings, Z!TypeOK
<1>. QED
  BY <1>1, <1>2, <1>3, PTL DEF Z!Spec

(* After every command the row of a member and the row that puts it in     *)
(* order say the same score, no old score's row is left, and the record    *)
(* counts the members and goes with the last of them (commit_zset_batch,   *)
(* what zadd, zincrby, the pops, the range removals and the stores of the  *)
(* algebra write).                                                         *)
THEOREM ZRowsExact ==
    ASSUME Z!ZSetAssumption
    PROVE  Z!Spec => []Z!BoundsExact
<1>1. Z!Init => ZSound
  BY ZInit
<1>2. ZSound /\ [Z!Next]_(Z!vars) => ZSound'
  BY ZNextStep
<1>3. ZSound => Z!BoundsExact
  BY ZRowsAre
<1>. QED
  BY <1>1, <1>2, <1>3, PTL DEF Z!Spec

(* A range of scores, cut from the rows by the keys of its bounds and then *)
(* checked, has the members whose numbers lie in it and no other, with     *)
(* either zero for a bound and either zero for a score                     *)
(* (score_range_bounds, ziter_range_byscore).                              *)
THEOREM ZReadsExact ==
    ASSUME Z!ZSetAssumption
    PROVE  Z!Spec => []Z!ReadsExact
<1>1. Z!Init => ZSound
  BY ZInit
<1>2. ZSound /\ [Z!Next]_(Z!vars) => ZSound'
  BY ZNextStep
<1>3. ZSound => Z!ReadsExact
  BY ZReadsAre
<1>. QED
  BY <1>1, <1>2, <1>3, PTL DEF Z!Spec

(* The walks of ZRANK and ZREVRANK stop at the member they look for, and   *)
(* what they have passed is its rank from either end, unless another       *)
(* member has the zero of the other sign (zrank_with_score).               *)
THEOREM ZRanksExact ==
    ASSUME Z!ZSetAssumption
    PROVE  Z!Spec => []Z!RanksExact
<1>1. Z!Init => ZSound
  BY ZInit
<1>2. ZSound /\ [Z!Next]_(Z!vars) => ZSound'
  BY ZNextStep
<1>3. ZSound => Z!RanksExact
  BY ZRanksAre
<1>. QED
  BY <1>1, <1>2, <1>3, PTL DEF Z!Spec

(* The store, with its record, its rows of members and its rows in order,  *)
(* implements sorted sets under every command: every batch of pairs with   *)
(* its options, every increment, every removal by name, rank, score or     *)
(* range of names, every pop, and every algebra of one or two keys, over   *)
(* an operand too (embed/src/api/zset).                                    *)
THEOREM ZStoreImplementsRedisZSets ==
    ASSUME Z!ZSetAssumption
    PROVE  Z!Spec => Z!ImplementsRedisZSets
<1>1. Z!Init => ZSound /\ Z!ZSets!Init
  BY ZInit
<1>2. ZSound /\ [Z!Next]_(Z!vars) => ZSound' /\ [Z!ZSets!ZNext]_(Z!ZSets!vars)
  BY ZNextStep
<1>. QED
  BY <1>1, <1>2, PTL DEF Z!Spec, Z!ImplementsRedisZSets
==============================================================================
