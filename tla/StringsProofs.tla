---------------------------- MODULE StringsProofs ----------------------------
(***************************************************************************)
(* Proofs about Strings: with one client, at most one live value lies at a *)
(* key and no write under way would leave two (OneLive), and every command *)
(* does what RedisStrings says of it, at the moment of its read.  After    *)
(* them the hashes, the other kind whose parts run out by themselves: one  *)
(* instance of HashStore on the same clock.                                *)
(***************************************************************************)
EXTENDS Strings, Ranks

-----------------------------------------------------------------------------
(* Bytes, numerals and rows.                                               *)

LEMMA NumeralsDiffer ==
    \A i, j \in 1 .. 10 : i # j => Numerals[i] # Numerals[j]
<1>1. /\ Numerals[1] = "0" /\ Numerals[2] = "1" /\ Numerals[3] = "2" /\ Numerals[4] = "3"
      /\ Numerals[5] = "4" /\ Numerals[6] = "5" /\ Numerals[7] = "6" /\ Numerals[8] = "7"
      /\ Numerals[9] = "8" /\ Numerals[10] = "9"
  BY DEF Numerals
<1>2. \A i \in 1 .. 10 : \/ i = 1 \/ i = 2 \/ i = 3 \/ i = 4 \/ i = 5
                        \/ i = 6 \/ i = 7 \/ i = 8 \/ i = 9 \/ i = 10
  OBVIOUS
<1>3. ASSUME NEW i \in 1 .. 10, NEW j \in 1 .. 10, Numerals[i] = Numerals[j] PROVE i = j
  BY <1>1, <1>2, <1>3
<1>. QED
  BY <1>3

LEMMA IntRangeIs ==
    ASSUME StringsAssumption
    PROVE  /\ IntRange \subseteq -9 .. 8 /\ IntRange \subseteq Int
           /\ \A n \in IntRange : n < 0 => 1 - n \in 1 .. 10
           /\ \A n \in IntRange : n >= 0 => n + 1 \in 1 .. 10
BY DEF StringsAssumption, IntRange

LEMMA DecimalIs ==
    ASSUME StringsAssumption, NEW n \in IntRange
    PROVE  Decimal(n) \in Seq(Bytes) /\ Len(Decimal(n)) \in 1 .. 2
<1>1. n \in Int
  BY IntRangeIs
<1>2. \A i \in 1 .. Len(Decimal(n)) : Decimal(n)[i] \in Bytes
  <2>1. BytesOf(Decimal(n)) \subseteq Bytes
    BY DEF Bytes
  <2>. QED
    BY <2>1 DEF BytesOf
<1>3. CASE n < 0
  <2>1. Decimal(n) = <<"-", Numerals[1 - n]>>
    BY <1>3 DEF Decimal
  <2>. QED
    BY <1>2, <2>1
<1>4. CASE n >= 0
  <2>1. Decimal(n) = <<Numerals[n + 1]>>
    BY <1>1, <1>4 DEF Decimal
  <2>. QED
    BY <1>2, <2>1
<1>. QED
  BY <1>1, <1>3, <1>4

LEMMA DecimalsDiffer ==
    ASSUME StringsAssumption, NEW m \in IntRange, NEW n \in IntRange, Decimal(m) = Decimal(n)
    PROVE  m = n
<1>1. /\ m \in Int /\ n \in Int
      /\ m < 0 => 1 - m \in 1 .. 10
      /\ n < 0 => 1 - n \in 1 .. 10
      /\ m >= 0 => m + 1 \in 1 .. 10
      /\ n >= 0 => n + 1 \in 1 .. 10
  BY IntRangeIs
<1>2. CASE m < 0 /\ n < 0
  <2>1. Numerals[1 - m] = Numerals[1 - n]
    BY <1>2 DEF Decimal
  <2>. QED
    BY <1>1, <1>2, <2>1, NumeralsDiffer
<1>3. CASE m >= 0 /\ n >= 0
  <2>1. Numerals[m + 1] = Numerals[n + 1]
    BY <1>1, <1>3 DEF Decimal
  <2>. QED
    BY <1>1, <1>3, <2>1, NumeralsDiffer
<1>4. CASE ~(m < 0 <=> n < 0)
  BY <1>1, <1>4 DEF Decimal
<1>. QED
  BY <1>1, <1>2, <1>3, <1>4

LEMMA ValuesAre ==
    ASSUME StringsAssumption, NEW v \in Values
    PROVE  v \in Seq(Bytes) /\ Len(v) <= MaxLen
BY DEF StringsAssumption

LEMMA ConcatIs ==
    ASSUME NEW S, NEW s \in Seq(S), NEW t \in Seq(S)
    PROVE  s \o t \in Seq(S) /\ Len(s \o t) = Len(s) + Len(t)
OBVIOUS

LEMMA ZerosAre ==
    ASSUME NEW n \in Nat
    PROVE  /\ Zeros(n) \in Seq(Bytes) /\ Len(Zeros(n)) = n
           /\ \A i \in 1 .. n : Zeros(n)[i] = Nul
BY DEF Zeros, Bytes

LEMMA ConcatAt ==
    ASSUME NEW S, NEW s \in Seq(S), NEW t \in Seq(S), NEW i \in 1 .. Len(s) + Len(t)
    PROVE  (s \o t)[i] = IF i <= Len(s) THEN s[i] ELSE t[i - Len(s)]
OBVIOUS

\* setrange's first and last piece.
Before(old, off) == IF off < Len(old) THEN SubSeq(old, 1, off) ELSE old \o Zeros(off - Len(old))
Behind(old, end) == SubSeq(old, end + 1, Len(old))

LEMMA HeadIs ==
    ASSUME NEW old \in Seq(Bytes), NEW off \in Nat
    PROVE  /\ Before(old, off) \in Seq(Bytes) /\ Len(Before(old, off)) = off
           /\ \A i \in 1 .. off : Before(old, off)[i] = IF i <= Len(old) THEN old[i] ELSE Nul
<1>1. CASE off < Len(old)
  <2>1. Before(old, off) = SubSeq(old, 1, off)
    BY <1>1 DEF Before
  <2>. QED
    BY <1>1, <2>1
<1>2. CASE off >= Len(old)
  <2>. DEFINE z == Zeros(off - Len(old))
  <2>1. off - Len(old) \in Nat /\ Len(old) \in Nat
    BY <1>2
  <2>2. /\ z \in Seq(Bytes) /\ Len(z) = off - Len(old)
        /\ \A i \in 1 .. (off - Len(old)) : z[i] = Nul
    BY <2>1, ZerosAre
  <2>3. Before(old, off) = old \o z
    BY <1>2, <2>1 DEF Before
  <2>. HIDE DEF z
  <2>4. old \o z \in Seq(Bytes) /\ Len(old \o z) = Len(old) + Len(z)
    BY <2>2, ConcatIs
  <2>5. ASSUME NEW i \in 1 .. off PROVE (old \o z)[i] = IF i <= Len(old) THEN old[i] ELSE Nul
    <3>1. i \in 1 .. Len(old) + Len(z)
      BY <2>1, <2>2
    <3>2. (old \o z)[i] = IF i <= Len(old) THEN old[i] ELSE z[i - Len(old)]
      BY <2>2, <3>1, ConcatAt
    <3>3. ~(i <= Len(old)) => i - Len(old) \in 1 .. (off - Len(old))
      BY <2>1
    <3>. QED
      BY <2>2, <3>2, <3>3
  <2>. QED
    BY <2>1, <2>2, <2>3, <2>4, <2>5
<1>. QED
  BY <1>1, <1>2

LEMMA TailIs ==
    ASSUME NEW old \in Seq(Bytes), NEW end \in Nat
    PROVE  /\ Behind(old, end) \in Seq(Bytes)
           /\ end >= Len(old) => Len(Behind(old, end)) = 0
           /\ end < Len(old) => /\ Len(Behind(old, end)) = Len(old) - end
                               /\ \A i \in (end + 1) .. Len(old) : Behind(old, end)[i - end] = old[i]
<1>1. Behind(old, end) \in Seq(Bytes)
  BY DEF Behind
<1>2. CASE end >= Len(old)
  BY <1>1, <1>2 DEF Behind
<1>3. CASE end < Len(old)
  <2>1. Len(Behind(old, end)) = Len(old) - end
    BY <1>3 DEF Behind
  <2>2. ASSUME NEW i \in (end + 1) .. Len(old) PROVE Behind(old, end)[i - end] = old[i]
    <3>1. i - end \in 1 .. (Len(old) - end) /\ (end + 1) + (i - end) - 1 = i
      BY <1>3
    <3>2. Behind(old, end)[i - end] = old[(end + 1) + (i - end) - 1]
      BY <1>3, <3>1 DEF Behind
    <3>. QED
      BY <3>1, <3>2
  <2>. QED
    BY <1>1, <1>3, <2>1, <2>2
<1>. QED
  BY <1>1, <1>2, <1>3

LEMMA SpliceIs ==
    ASSUME NEW old \in Seq(Bytes), NEW off \in Nat, NEW v \in Seq(Bytes)
    PROVE  /\ Splice(old, off, v) \in Seq(Bytes)
           /\ Len(Splice(old, off, v)) =
                 IF off + Len(v) > Len(old) THEN off + Len(v) ELSE Len(old)
           /\ \A i \in 1 .. Len(Splice(old, off, v)) :
                 Splice(old, off, v)[i] =
                    IF i > off /\ i <= off + Len(v) THEN v[i - off]
                    ELSE IF i <= Len(old) THEN old[i] ELSE Nul
<1>. DEFINE end == off + Len(v)
            head == Before(old, off)
            tail == Behind(old, end)
            front == head \o v
<1>1. Len(old) \in Nat /\ Len(v) \in Nat /\ end \in Nat
  OBVIOUS
<1>2. /\ head \in Seq(Bytes) /\ Len(head) = off
      /\ \A i \in 1 .. off : head[i] = IF i <= Len(old) THEN old[i] ELSE Nul
  BY HeadIs
<1>3. /\ tail \in Seq(Bytes)
      /\ end >= Len(old) => Len(tail) = 0
      /\ end < Len(old) => /\ Len(tail) = Len(old) - end
                          /\ \A i \in (end + 1) .. Len(old) : tail[i - end] = old[i]
  BY <1>1, TailIs
<1>4. Splice(old, off, v) = front \o tail
  BY DEF Splice, Before, Behind
<1>. HIDE DEF head, tail
<1>5. front \in Seq(Bytes) /\ Len(front) = end
  BY <1>2, ConcatIs
<1>6. ASSUME NEW i \in 1 .. end PROVE front[i] = IF i <= off THEN head[i] ELSE v[i - off]
  BY <1>2, <1>6, ConcatAt
<1>. HIDE DEF front
<1>7. front \o tail \in Seq(Bytes) /\ Len(front \o tail) = end + Len(tail)
  BY <1>3, <1>5, ConcatIs
<1>8. ASSUME NEW i \in 1 .. end + Len(tail)
      PROVE (front \o tail)[i] = IF i <= end THEN front[i] ELSE tail[i - end]
  BY <1>3, <1>5, <1>8, ConcatAt
<1>9. Len(tail) \in Nat
  BY <1>3
<1>10. Len(front \o tail) = IF end > Len(old) THEN end ELSE Len(old)
  <2>. HIDE DEF end
  <2>1. CASE end >= Len(old)
    BY <1>1, <1>3, <1>7, <2>1
  <2>2. CASE end < Len(old)
    <3>1. Len(front \o tail) = end + (Len(old) - end)
      BY <1>3, <1>7, <2>2
    <3>. QED
      BY <1>1, <2>2, <3>1
  <2>. QED
    BY <1>1, <2>1, <2>2
<1>11. ASSUME NEW i \in 1 .. end + Len(tail)
       PROVE  (front \o tail)[i] = IF i > off /\ i <= end THEN v[i - off]
                                   ELSE IF i <= Len(old) THEN old[i] ELSE Nul
  <2>1. CASE i <= end
    <3>1. i \in 1 .. end /\ (i <= off => i \in 1 .. off)
      BY <1>1, <2>1
    <3>2. (front \o tail)[i] = IF i <= off THEN head[i] ELSE v[i - off]
      BY <1>6, <1>8, <2>1, <3>1
    <3>3. ~(i <= off) <=> i > off
      BY <3>1
    <3>. HIDE DEF end
    <3>. QED
      BY <1>2, <2>1, <3>1, <3>2, <3>3
  <2>2. CASE i > end
    <3>. HIDE DEF end
    <3>1. end < Len(old)
      BY <1>1, <1>3, <1>9, <2>2
    <3>2. Len(tail) = Len(old) - end
      BY <1>3, <3>1
    <3>3. i \in (end + 1) .. Len(old) /\ i <= Len(old) /\ ~(i <= end)
      BY <1>1, <2>2, <3>2
    <3>4. (front \o tail)[i] = tail[i - end]
      BY <1>8, <3>3
    <3>. QED
      BY <1>3, <3>1, <3>3, <3>4
  <2>3. i \in Int
    BY <1>1, <1>9
  <2>4. i <= end \/ i > end
    BY <1>1, <2>3
  <2>. HIDE DEF end
  <2>. QED
    BY <2>1, <2>2, <2>4
<1>. QED
  BY <1>4, <1>7, <1>10, <1>11

-----------------------------------------------------------------------------
(* The invariant, and what a call may do to it.                            *)

Shaped == DOMAIN batch = Procs /\ DOMAIN reply = Procs /\ DOMAIN asked = Procs

Inv == TypeOK /\ OneLive /\ Shaped

\* A batch over the rows of K that knows what it writes over.
Good(K, b) ==
    /\ b \in BatchesOn(K)
    /\ \A k \in K : b.rows[k] # Absent => Len(b.rows[k].val) <= MaxLen
    /\ \A k \in K : OtherLive(k) => k \in b.clean

\* What a call comes to: an answer, or such a batch.
Outcome(p) ==
    \/ \E r : Answer(p, r)
    \/ \E K \in SUBSET Keys : \E b, r : Good(K, b) /\ Decide(p, b, r)

LEMMA FoundAt ==
    ASSUME StringsAssumption, TypeOK, NEW k \in Keys
    PROVE  /\ now \in Nat
           /\ other[k] # Absent => other[k] \in Nat /\ other[k] \in Expiries
           /\ Live(k) => /\ str[k] \in Rows /\ str[k].val \in Seq(Bytes)
                         /\ Len(str[k].val) <= MaxLen
                         /\ str[k].exp \in Expiries /\ str[k].exp \in Nat
           /\ OldVal(k) \in Seq(Bytes) /\ Len(OldVal(k)) <= MaxLen
           /\ OldExp(k) \in Expiries /\ OldExp(k) \in Nat
<1>1. /\ now \in Nat /\ Expiries \subseteq Nat /\ 0 \in Expiries /\ MaxLen \in Nat
      /\ other[k] # Absent => other[k] \in Expiries
  BY DEF StringsAssumption, TypeOK
<1>2. ASSUME Live(k) PROVE /\ str[k] \in Rows /\ str[k].val \in Seq(Bytes)
                           /\ Len(str[k].val) <= MaxLen /\ str[k].exp \in Expiries
  <2>1. str[k] \in Rows /\ Len(str[k].val) <= MaxLen
    BY <1>2 DEF TypeOK, Live
  <2>. QED
    BY <2>1 DEF Rows
<1>3. << >> \in Seq(Bytes) /\ Len(<< >>) = 0
  OBVIOUS
<1>4. CASE Live(k)
  <2>1. OldVal(k) = str[k].val /\ OldExp(k) = str[k].exp
    BY <1>4 DEF OldVal, OldExp
  <2>. QED
    BY <1>1, <1>2, <1>4, <2>1
<1>5. CASE ~Live(k)
  <2>1. OldVal(k) = << >> /\ OldExp(k) = 0
    BY <1>5 DEF OldVal, OldExp
  <2>2. OldVal(k) \in Seq(Bytes) /\ Len(OldVal(k)) = 0
    BY <1>3, <2>1
  <2>3. OldExp(k) \in Expiries /\ OldExp(k) \in Nat
    BY <1>1, <2>1
  <2>4. 0 <= MaxLen
    BY <1>1
  <2>. QED
    BY <1>1, <1>5, <2>2, <2>3, <2>4
<1>. QED
  BY <1>4, <1>5

LEMMA RawIs ==
    ASSUME NEW k
    PROVE  /\ Raw(k) = "some" <=> Live(k)
           /\ Raw(k) = "wrongtype" <=> ~Live(k) /\ OtherLive(k)
           /\ Raw(k) = "none" <=> ~Live(k) /\ ~OtherLive(k)
BY DEF Raw

LEMMA RowIs ==
    ASSUME StringsAssumption, NEW v \in Seq(Bytes), NEW e \in Expiries
    PROVE  /\ Row(v, e) \in Rows /\ Row(v, e) # Absent
           /\ Row(v, e).val = v /\ Row(v, e).exp = e
BY DEF Row, Rows, StringsAssumption

LEMMA PutGood ==
    ASSUME StringsAssumption, NEW k \in Keys, NEW row \in Rows \cup {Absent}, NEW clean,
           row # Absent => Len(row.val) <= MaxLen, OtherLive(k) => clean
    PROVE  Good({k}, Put(k, row, clean))
<1>1. [x \in {k} |-> row] \in [{k} -> Rows \cup {Absent}] /\ [x \in {k} |-> row][k] = row
  OBVIOUS
<1>2. Found(IF clean THEN {k} ELSE {}) \in SUBSET {k}
  BY DEF Found
<1>3. OtherLive(k) => k \in Found(IF clean THEN {k} ELSE {})
  BY DEF Found, OtherLive
<1>. QED
  BY <1>1, <1>2, <1>3 DEF Good, BatchesOn, Put

-----------------------------------------------------------------------------
(* Steps keep the invariant.                                               *)

LEMMA InitInv == ASSUME StringsAssumption PROVE Init => Inv
<1>. SUFFICES ASSUME Init PROVE Inv
  OBVIOUS
<1>1. TypeOK
  BY DEF Init, TypeOK, StringsAssumption, NoBatch
<1>2. OneLive
  BY DEF Init, OneLive, Live, NoBatch
<1>3. Shaped
  BY DEF Init, Shaped
<1>. QED
  BY <1>1, <1>2, <1>3 DEF Inv

\* The clock kills and revives nothing.
LEMMA DeadStaysDead ==
    ASSUME StringsAssumption, now \in Nat, now' \in Nat, now <= now', NEW e \in Nat, Passed(e)
    PROVE  Passed(e)'
BY DEF Passed

LEMMA TickKeeps ==
    ASSUME StringsAssumption, Inv, Tick
    PROVE  Inv'
<1>1. now \in Nat /\ now' \in 0 .. MaxNow /\ now <= now' /\ now' \in Nat
  BY DEF Inv, TypeOK, Tick, StringsAssumption
<1>2. str' = str /\ other' = other /\ batch' = batch /\ reply' = reply /\ asked' = asked
  BY DEF Tick
<1>3. TypeOK'
  BY <1>1, <1>2 DEF Inv, TypeOK, NoBatch
<1>4. ASSUME NEW k \in Keys PROVE (Live(k)' => Live(k)) /\ (OtherLive(k)' => OtherLive(k))
  <2>1. /\ str[k] # Absent => str[k].exp \in Nat
        /\ other[k] # Absent => other[k] \in Nat
    BY DEF Inv, TypeOK, Rows, StringsAssumption
  <2>2. str'[k] = str[k] /\ other'[k] = other[k]
    BY <1>2
  <2>. QED
    BY <1>1, <2>1, <2>2, DeadStaysDead DEF Live, OtherLive
<1>5. \A p \in Procs : batch[p] # NoBatch => DOMAIN batch[p].rows \subseteq Keys
  BY DEF Inv, TypeOK, BatchesOn
<1>6. OneLive'
  BY <1>2, <1>4, <1>5 DEF Inv, OneLive, NoBatch
<1>. QED
  BY <1>2, <1>3, <1>6 DEF Inv, Shaped

LEMMA AnswerKeeps ==
    ASSUME StringsAssumption, Inv, DOMAIN asked' = Procs, NEW p, NEW r, Answer(p, r)
    PROVE  Inv'
<1>1. now' = now /\ str' = str /\ other' = other /\ batch' = batch /\ DOMAIN reply' = DOMAIN reply
  BY DEF Answer
<1>2. \A k : (Live(k)' <=> Live(k)) /\ (OtherLive(k)' <=> OtherLive(k))
  BY <1>1 DEF Live, OtherLive, Passed
<1>. QED
  BY <1>1, <1>2 DEF Inv, TypeOK, OneLive, Shaped, NoBatch

LEMMA DecideKeeps ==
    ASSUME StringsAssumption, Inv, DOMAIN asked' = Procs, NEW p \in Procs,
           NEW K \in SUBSET Keys, NEW b, NEW r, Good(K, b), Decide(p, b, r)
    PROVE  Inv'
<1>1. /\ now' = now /\ str' = str /\ other' = other
      /\ batch' = [batch EXCEPT ![p] = b] /\ DOMAIN reply' = DOMAIN reply
  BY DEF Decide
<1>2. /\ DOMAIN batch' = Procs /\ batch'[p] = b
      /\ \A q \in Procs \ {p} : batch'[q] = batch[q]
  BY <1>1 DEF Inv, Shaped
<1>3. \A k : (Live(k)' <=> Live(k)) /\ (OtherLive(k)' <=> OtherLive(k))
  BY <1>1 DEF Live, OtherLive, Passed
<1>4. DOMAIN b.rows = K /\ b \in BatchesOn(K)
  BY DEF Good, BatchesOn
<1>5. TypeOK'
  <2>1. ASSUME NEW q \in Procs, batch'[q] # NoBatch
        PROVE  /\ \E X \in SUBSET Keys : batch'[q] \in BatchesOn(X)
               /\ \A k \in DOMAIN batch'[q].rows :
                     batch'[q].rows[k] # Absent => Len(batch'[q].rows[k].val) <= MaxLen
    BY <1>2, <1>4, <2>1 DEF Good, Inv, TypeOK
  <2>. QED
    BY <1>1, <2>1 DEF Inv, TypeOK, NoBatch
<1>6. OneLive'
  <2>1. \A k \in K : OtherLive(k) => k \in b.clean
    BY DEF Good
  <2>2. ASSUME NEW q \in Procs, batch'[q] # NoBatch, NEW k \in DOMAIN batch'[q].rows, OtherLive(k)
        PROVE  k \in batch'[q].clean
    BY <1>2, <1>4, <2>1, <2>2 DEF Inv, OneLive
  <2>. QED
    BY <1>1, <1>3, <2>2 DEF Inv, OneLive, NoBatch
<1>. QED
  BY <1>1, <1>2, <1>5, <1>6 DEF Inv, Shaped

LEMMA WriteKeeps ==
    ASSUME StringsAssumption, Inv, NEW p \in Procs, Procs = {p}, Write(p)
    PROVE  Inv'
<1>1. PICK K \in SUBSET Keys : batch[p] \in BatchesOn(K)
  BY DEF Write, Inv, TypeOK
<1>2. /\ batch[p] # NoBatch /\ now' = now /\ reply' = reply /\ asked' = asked
      /\ str' = [k \in Keys |-> IF k \in DOMAIN batch[p].rows THEN batch[p].rows[k] ELSE str[k]]
      /\ other' = [k \in Keys |-> IF k \in batch[p].clean THEN Absent ELSE other[k]]
      /\ batch' = [batch EXCEPT ![p] = NoBatch]
  BY DEF Write
<1>3. DOMAIN batch[p].rows = K /\ batch[p].rows \in [K -> Rows \cup {Absent}]
      /\ batch[p].clean \subseteq K
  BY <1>1 DEF BatchesOn
<1>4. /\ DOMAIN batch' = Procs /\ \A q \in Procs : batch'[q] = NoBatch
  BY <1>2 DEF Inv, Shaped
<1>5. /\ \A k \in K : str'[k] = batch[p].rows[k]
      /\ \A k \in Keys \ K : str'[k] = str[k] /\ other'[k] = other[k]
      /\ \A k \in Keys : other'[k] = other[k] \/ other'[k] = Absent
      /\ \A k \in batch[p].clean : other'[k] = Absent
  BY <1>2, <1>3
<1>6. TypeOK'
  <2>1. str' \in [Keys -> Rows \cup {Absent}] /\ other' \in [Keys -> Expiries \cup {Absent}]
    BY <1>2, <1>3 DEF Inv, TypeOK
  <2>2. \A k \in Keys : str'[k] # Absent => Len(str'[k].val) <= MaxLen
    BY <1>2, <1>3, <1>5 DEF Inv, TypeOK
  <2>. QED
    BY <1>2, <1>4, <2>1, <2>2 DEF Inv, TypeOK, NoBatch
<1>7. ASSUME NEW k \in Keys PROVE ~(Live(k)' /\ OtherLive(k)')
  <2>1. OtherLive(k)' => OtherLive(k) /\ k \notin batch[p].clean
    BY <1>2, <1>5 DEF OtherLive, Passed
  <2>2. k \in K => ~(OtherLive(k) /\ k \notin batch[p].clean)
    BY <1>2, <1>3 DEF Inv, OneLive
  <2>3. k \notin K => (Live(k)' <=> Live(k))
    BY <1>2, <1>5 DEF Live, Passed
  <2>. QED
    BY <2>1, <2>2, <2>3 DEF Inv, OneLive
<1>. QED
  BY <1>2, <1>4, <1>6, <1>7 DEF Inv, OneLive, Shaped, NoBatch

\* A value of another type comes or goes where there is no live string.
LEMMA OtherKeeps ==
    ASSUME StringsAssumption, Inv, NEW p \in Procs, Procs = {p}, batch[p] = NoBatch,
           NEW k \in Keys, NEW x \in Expiries \cup {Absent},
           ~Live(k), other' = [other EXCEPT ![k] = x],
           DOMAIN asked' = Procs, DOMAIN reply' = Procs, UNCHANGED <<now, str, batch>>
    PROVE  Inv'
<1>1. /\ other' \in [Keys -> Expiries \cup {Absent}]
      /\ \A j \in Keys \ {k} : other'[j] = other[j]
  BY DEF Inv, TypeOK
<1>2. TypeOK'
  BY <1>1 DEF Inv, TypeOK, NoBatch
<1>3. \A j \in Keys : (Live(j)' <=> Live(j)) /\ (j # k => (OtherLive(j)' <=> OtherLive(j)))
  BY <1>1 DEF Live, OtherLive, Passed
<1>4. \A q \in Procs : batch'[q] = NoBatch
  OBVIOUS
<1>5. \A j \in Keys : ~(Live(j)' /\ OtherLive(j)')
  BY <1>3 DEF Inv, OneLive
<1>. QED
  BY <1>2, <1>4, <1>5 DEF Inv, OneLive, Shaped, NoBatch

-----------------------------------------------------------------------------
(* Every call comes to an answer or to a batch that knows what it writes   *)
(* over.                                                                   *)

LEMMA Answers ==
    ASSUME NEW p, NEW r, Answer(p, r)
    PROVE  Outcome(p)
BY DEF Outcome

LEMMA Decides ==
    ASSUME StringsAssumption, NEW p, NEW k \in Keys, NEW row \in Rows \cup {Absent}, NEW clean,
           row # Absent => Len(row.val) <= MaxLen, OtherLive(k) => clean,
           NEW r, Decide(p, Put(k, row, clean), r)
    PROVE  Outcome(p)
BY PutGood DEF Outcome

\* A command that writes the bytes s where it found no other type, and
\* cleans only what it may have missed.
LEMMA Writes ==
    ASSUME StringsAssumption, Inv, NEW p, NEW k \in Keys, NEW s \in Seq(Bytes), Len(s) <= MaxLen,
           NEW e \in Expiries, NEW clean, OtherLive(k) => clean,
           NEW r, Decide(p, Put(k, Row(s, e), clean), r)
    PROVE  Outcome(p)
BY RowIs, Decides

LEMMA SetOutcome ==
    ASSUME StringsAssumption, Inv, NEW p, NEW k \in Keys, NEW v \in Values, NEW o \in SetOptions,
           Set(p, k, v, o)
    PROVE  Outcome(p)
<1>1. v \in Seq(Bytes) /\ Len(v) <= MaxLen /\ o.exp \in Expiries
  BY ValuesAre DEF StringsAssumption, Options
<1>2. Kept(k, o) \in Expiries
  BY <1>1, FoundAt DEF Kept, Inv
<1>3. OtherLive(k) => Raw(k) = "wrongtype"
  BY RawIs DEF Inv, OneLive
<1>4. ASSUME NEW r, Decide(p, Put(k, Row(v, o.exp), TRUE), r) PROVE Outcome(p)
  BY <1>1, <1>4, Writes
<1>5. ASSUME NEW r, Decide(p, Put(k, Row(v, Kept(k, o)), Raw(k) = "wrongtype"), r) PROVE Outcome(p)
  BY <1>1, <1>2, <1>3, <1>5, Writes
<1>. QED
  BY <1>4, <1>5, Answers, Zenon DEF Set

\* GET, STRLEN and GETRANGE answer.
LEMMA ReadOutcome ==
    ASSUME NEW p, NEW k, NEW r, Get(p, k) \/ StrLen(p, k) \/ GetRange(p, k, r)
    PROVE  Outcome(p)
BY Answers, Zenon DEF Get, StrLen, GetRange

LEMMA GetExOutcome ==
    ASSUME StringsAssumption, Inv, NEW p, NEW k \in Keys, NEW e \in Expiries, GetEx(p, k, e)
    PROVE  Outcome(p)
<1>1. /\ OldVal(k) \in Seq(Bytes) /\ Len(OldVal(k)) <= MaxLen
      /\ Raw(k) = "some" => ~OtherLive(k)
  BY FoundAt, RawIs DEF Inv, OneLive
<1>2. ASSUME Raw(k) = "some", NEW r, Decide(p, Put(k, Row(OldVal(k), e), FALSE), r)
      PROVE  Outcome(p)
  BY <1>1, <1>2, Writes
<1>. QED
  BY <1>2, Answers, Zenon DEF GetEx

\* GETDEL, DELEX and CAD delete a string they have found.
LEMMA Deletes ==
    ASSUME StringsAssumption, Inv, NEW p, NEW k \in Keys, Raw(k) = "some",
           NEW r, Decide(p, Put(k, Absent, FALSE), r)
    PROVE  Outcome(p)
<1>1. ~OtherLive(k)
  BY RawIs DEF Inv, OneLive
<1>. QED
  BY <1>1, Decides

LEMMA DeleteOutcome ==
    ASSUME StringsAssumption, Inv, NEW p, NEW k \in Keys, NEW os, GetDel(p, k) \/ DelEx(p, k, os)
    PROVE  Outcome(p)
BY Deletes, Answers, Zenon DEF GetDel, DelEx

LEMMA IncrByOutcome ==
    ASSUME StringsAssumption, Inv, NEW p, NEW k \in Keys, NEW n, IncrBy(p, k, n)
    PROVE  Outcome(p)
<1>1. ASSUME NEW m, m \in IntRange,
             NEW r, Decide(p, Put(k, Row(Formatted(m), OldExp(k)), ~Live(k)), r)
      PROVE  Outcome(p)
  <2>1. Formatted(m) \in Seq(Bytes) /\ Len(Formatted(m)) <= MaxLen
    <3>1. Formatted(m) \in Seq(Bytes) /\ Len(Formatted(m)) \in 1 .. 2
      BY <1>1, DecimalIs DEF Formatted
    <3>2. \A i \in 1 .. 2 : i <= MaxLen
      BY DEF StringsAssumption
    <3>. QED
      BY <3>1, <3>2
  <2>2. OldExp(k) \in Expiries /\ (OtherLive(k) => ~Live(k))
    BY FoundAt DEF Inv, OneLive
  <2>. QED
    BY <1>1, <2>1, <2>2, Writes
<1>. QED
  BY <1>1, Answers, Zenon DEF IncrBy

LEMMA RewriteOutcome ==
    ASSUME StringsAssumption, Inv, NEW p, NEW k \in Keys, NEW s \in Seq(Bytes), Len(s) <= MaxLen,
           Rewrite(p, k, s)
    PROVE  Outcome(p)
<1>1. OldExp(k) \in Expiries /\ (OtherLive(k) => ~Live(k))
  BY FoundAt DEF Inv, OneLive
<1>. QED
  BY <1>1, Writes DEF Rewrite

LEMMA AppendOutcome ==
    ASSUME StringsAssumption, Inv, NEW p, NEW k \in Keys, NEW v \in Values, AppendTo(p, k, v)
    PROVE  Outcome(p)
<1>1. OldVal(k) \in Seq(Bytes) /\ v \in Seq(Bytes)
  BY FoundAt, ValuesAre DEF Inv
<1>2. OldVal(k) \o v \in Seq(Bytes) /\ Len(OldVal(k) \o v) = Len(OldVal(k)) + Len(v)
  BY <1>1, ConcatIs
<1>3. ASSUME ~(Len(OldVal(k)) + Len(v) > MaxLen), Rewrite(p, k, OldVal(k) \o v) PROVE Outcome(p)
  <2>1. Len(OldVal(k) \o v) <= MaxLen
    BY <1>1, <1>2, <1>3 DEF StringsAssumption
  <2>. QED
    BY <1>2, <1>3, <2>1, RewriteOutcome
<1>. QED
  BY <1>3, Answers, Zenon DEF AppendTo

LEMMA SetRangeOutcome ==
    ASSUME StringsAssumption, Inv, NEW p, NEW k \in Keys, NEW off \in Offsets, NEW v \in Values,
           SetRange(p, k, off, v)
    PROVE  Outcome(p)
<1>1. /\ OldVal(k) \in Seq(Bytes) /\ Len(OldVal(k)) <= MaxLen
      /\ v \in Seq(Bytes) /\ off \in Nat /\ MaxLen \in Nat
  BY FoundAt, ValuesAre DEF Inv, StringsAssumption
<1>2. ASSUME off + Len(v) <= MaxLen, Rewrite(p, k, Splice(OldVal(k), off, v)) PROVE Outcome(p)
  <2>1. /\ Splice(OldVal(k), off, v) \in Seq(Bytes)
        /\ Len(Splice(OldVal(k), off, v)) =
              IF off + Len(v) > Len(OldVal(k)) THEN off + Len(v) ELSE Len(OldVal(k))
    BY <1>1, SpliceIs
  <2>2. Len(Splice(OldVal(k), off, v)) <= MaxLen
    BY <1>1, <1>2, <2>1
  <2>. QED
    BY <1>2, <2>1, <2>2, RewriteOutcome
<1>. QED
  BY <1>2, Answers, Zenon DEF SetRange

LEMMA CompareOutcome ==
    ASSUME StringsAssumption, Inv, NEW p, NEW k \in Keys, NEW old \in Values,
           NEW row \in Rows \cup {Absent}, row # Absent => Len(row.val) <= MaxLen,
           Compare(p, k, old, row)
    PROVE  Outcome(p)
<1>. DEFINE b == [Put(k, row, FALSE) EXCEPT !.expects = <<k, old>>]
<1>1. ASSUME Raw(k) = "some" PROVE Good({k}, b)
  <2>1. Good({k}, Put(k, row, FALSE))
    BY <1>1, PutGood, RawIs DEF Inv, OneLive
  <2>2. b \in BatchesOn({k}) /\ b.rows = Put(k, row, FALSE).rows /\ b.clean = Put(k, row, FALSE).clean
    BY <2>1 DEF Good, BatchesOn
  <2>. HIDE DEF b
  <2>. QED
    BY <2>1, <2>2 DEF Good
<1>2. ASSUME Raw(k) = "some", NEW r, Decide(p, b, r) PROVE Outcome(p)
  <2>. HIDE DEF b
  <2>. QED
    BY <1>1, <1>2 DEF Outcome
<1>. QED
  BY <1>2, Answers, Zenon DEF Compare

LEMMA CasOutcome ==
    ASSUME StringsAssumption, Inv, NEW p, NEW k \in Keys, NEW old \in Values,
           NEW v \in Values, NEW e \in Expiries, Cas(p, k, old, v, e) \/ Cad(p, k, old)
    PROVE  Outcome(p)
<1>1. Row(v, e) \in Rows /\ Len(Row(v, e).val) <= MaxLen
  BY ValuesAre, RowIs
<1>. QED
  BY <1>1, CompareOutcome DEF Cas, Cad

\* The pair of a key that stands.
Last(kvs, k) == CHOOSE i \in 1 .. Len(kvs) :
                    kvs[i][1] = k /\ \A j \in (i + 1) .. Len(kvs) : kvs[j][1] # k

LEMMA LastIs ==
    ASSUME NEW kvs, Len(kvs) \in Nat, NEW k \in Named(kvs)
    PROVE  /\ Last(kvs, k) \in 1 .. Len(kvs) /\ kvs[Last(kvs, k)][1] = k
           /\ \A j \in (Last(kvs, k) + 1) .. Len(kvs) : kvs[j][1] # k
<1>. DEFINE I == {i \in 1 .. Len(kvs) : kvs[i][1] = k}
<1>1. I \subseteq Nat /\ IsFiniteSet(I) /\ I # {}
  <2>1. IsFiniteSet(1 .. Len(kvs))
    BY FS_Interval
  <2>2. IsFiniteSet(I)
    BY <2>1, FS_Subset
  <2>. QED
    BY <2>2 DEF Named
<1>2. PICK m \in I : \A x \in I : x <= m
  BY <1>1, GreatestOf
<1>3. m \in 1 .. Len(kvs) /\ kvs[m][1] = k
  BY <1>2
<1>4. ASSUME NEW j \in (m + 1) .. Len(kvs) PROVE kvs[j][1] # k
  <2>1. j \in 1 .. Len(kvs) /\ ~(j <= m)
    BY <1>3
  <2>. QED
    BY <1>2, <2>1
<1>. QED
  BY <1>3, <1>4 DEF Last

LEMMA PairsAre ==
    ASSUME StringsAssumption, NEW kvs \in Pairs
    PROVE  /\ Len(kvs) \in Nat /\ Named(kvs) \subseteq Keys
           /\ \A i \in 1 .. Len(kvs) : kvs[i][1] \in Keys /\ kvs[i][2] \in Values
BY DEF StringsAssumption, Named

LEMMA RowsOfIs ==
    ASSUME StringsAssumption, TypeOK, NEW kvs \in Pairs, NEW o \in SetOptions
    PROVE  /\ RowsOf(kvs, o) \in [Named(kvs) -> Rows]
           /\ \A k \in Named(kvs) :
                 /\ RowsOf(kvs, o)[k] = Row(kvs[Last(kvs, k)][2], Kept(k, o))
                 /\ RowsOf(kvs, o)[k].val = kvs[Last(kvs, k)][2]
                 /\ RowsOf(kvs, o)[k].exp = Kept(k, o)
                 /\ RowsOf(kvs, o)[k] # Absent
                 /\ Len(RowsOf(kvs, o)[k].val) <= MaxLen
<1>1. RowsOf(kvs, o) = [k \in Named(kvs) |-> Row(kvs[Last(kvs, k)][2], Kept(k, o))]
  BY DEF RowsOf, Last
<1>2. ASSUME NEW k \in Named(kvs)
      PROVE  LET row == Row(kvs[Last(kvs, k)][2], Kept(k, o))
             IN  /\ row \in Rows /\ row # Absent
                 /\ row.val = kvs[Last(kvs, k)][2] /\ row.exp = Kept(k, o)
                 /\ Len(row.val) <= MaxLen
  <2>1. k \in Keys /\ kvs[Last(kvs, k)][2] \in Values
    BY PairsAre, LastIs
  <2>2. Kept(k, o) \in Expiries
    BY <2>1, FoundAt DEF Kept, StringsAssumption, Options
  <2>. QED
    BY <2>1, <2>2, ValuesAre, RowIs
<1>. QED
  BY <1>1, <1>2

LEMMA MSetOutcome ==
    ASSUME StringsAssumption, Inv, NEW p, NEW kvs \in Pairs, NEW o \in MSetOptions,
           MSet(p, kvs, o)
    PROVE  Outcome(p)
<1>. DEFINE K == Named(kvs)
            b == [rows |-> RowsOf(kvs, o), clean |-> Found(K), expects |-> Absent]
<1>1. K \in SUBSET Keys /\ o \in SetOptions /\ TypeOK
  BY PairsAre DEF MSetOptions, Inv
<1>2. RowsOf(kvs, o) \in [K -> Rows] /\ \A k \in K : Len(RowsOf(kvs, o)[k].val) <= MaxLen
  BY <1>1, RowsOfIs
<1>3. Found(K) \subseteq K /\ \A k \in K : OtherLive(k) => k \in Found(K)
  BY DEF Found, OtherLive
<1>4. Good(K, b)
  <2>1. /\ b.rows = RowsOf(kvs, o) /\ b.clean = Found(K) /\ b.expects = Absent
        /\ b = [rows |-> b.rows, clean |-> b.clean, expects |-> b.expects]
    OBVIOUS
  <2>. HIDE DEF b, K
  <2>. QED
    BY <1>2, <1>3, <2>1 DEF Good, BatchesOn
<1>5. ASSUME NEW r, Decide(p, b, r) PROVE Outcome(p)
  <2>. HIDE DEF b, K
  <2>. QED
    BY <1>1, <1>4, <1>5 DEF Outcome
<1>. QED
  BY <1>5, Answers, Zenon DEF MSet

LEMMA CallKeeps ==
    ASSUME StringsAssumption, Inv, NEW p \in Procs, Procs = {p}, NEW k \in Keys, Call(p, k)
    PROVE  Inv'
<1>1. DOMAIN asked' = Procs
  BY DEF Call, Asks, Inv, Shaped
<1>2. ASSUME Outcome(p) PROVE Inv'
  BY <1>1, <1>2, AnswerKeeps, DecideKeeps DEF Outcome
<1>3. ASSUME NEW e \in Expiries, PutOther(p, k, e) PROVE Inv'
  BY <1>1, <1>3, OtherKeeps DEF PutOther, Inv, Shaped
<1>4. ASSUME DropOther(p, k) PROVE Inv'
  BY <1>1, <1>4, OtherKeeps DEF DropOther, Inv, Shaped
<1>5. ASSUME NEW n, IncrBy(p, k, n) PROVE Inv'
  BY <1>2, <1>5, IncrByOutcome
<1>6. ASSUME NEW n, DecrBy(p, k, n) PROVE Inv'
  BY <1>5, <1>6 DEF DecrBy
<1>7. ASSUME NEW v \in Values, Cad(p, k, v) PROVE Inv'
  <2>1. 0 \in Expiries
    BY DEF StringsAssumption
  <2>. QED
    BY <1>2, <1>7, <2>1, CasOutcome
<1>. QED
  BY <1>2, <1>3, <1>4, <1>5, <1>6, <1>7, SetOutcome, ReadOutcome, GetExOutcome, DeleteOutcome,
     AppendOutcome, SetRangeOutcome, CasOutcome, Zenon DEF Call

LEMMA NextKeeps ==
    ASSUME StringsAssumption, Procs = {Client}, Inv, [Next]_vars
    PROVE  Inv'
<1>1. Client \in Procs
  OBVIOUS
<1>2. ASSUME NEW p \in Procs, CallMSet(p) PROVE Inv'
  <2>1. DOMAIN asked' = Procs
    BY <1>2 DEF CallMSet, Asks, Inv, Shaped
  <2>2. Outcome(p)
    BY <1>2, MSetOutcome DEF CallMSet
  <2>. QED
    BY <1>2, <2>1, <2>2, AnswerKeeps, DecideKeeps DEF Outcome
<1>3. CASE UNCHANGED vars
  <2>1. \A k : (Live(k)' <=> Live(k)) /\ (OtherLive(k)' <=> OtherLive(k))
    BY <1>3 DEF vars, Live, OtherLive, Passed
  <2>. QED
    BY <1>3, <2>1 DEF vars, Inv, TypeOK, OneLive, Shaped, NoBatch
<1>4. ASSUME NEW p \in Procs PROVE Procs = {p}
  OBVIOUS
<1>. QED
  BY <1>2, <1>3, <1>4, TickKeeps, WriteKeeps, CallKeeps DEF Next

LEMMA Invariance ==
    ASSUME StringsAssumption, Procs = {Client}
    PROVE  Spec => []Inv
<1>1. Init => Inv
  BY InitInv
<1>2. Inv /\ [Next]_vars => Inv'
  BY NextKeeps
<1>. QED
  BY <1>1, <1>2, PTL DEF Spec

(* The variables keep their types, and no command makes a string longer    *)
(* than MAX_STRING_SIZE (append, setrange, incrby_ex, mset_internal).      *)
THEOREM TypeCorrect ==
    ASSUME StringsAssumption, Procs = {Client}
    PROVE  Spec => []TypeOK
<1>1. Inv => TypeOK
  BY DEF Inv
<1>. QED
  BY <1>1, Invariance, PTL

(* With one client at most one live thing lies at a key, and no batch under *)
(* way would leave two, whatever expires between its reading and its        *)
(* writing: set_internal and the rest clean what they found beside a dead   *)
(* row, and what they did not find cannot come alive.                       *)
THEOREM OneLiveValue ==
    ASSUME StringsAssumption, Procs = {Client}
    PROVE  Spec => []OneLive
<1>1. Inv => OneLive
  BY DEF Inv
<1>. QED
  BY <1>1, Invariance, PTL

-----------------------------------------------------------------------------
(* What a key holds, in the terms of RedisStrings.                         *)

\* Between calls the client sees the rows and the headers as they are.
LEMMA HeldIdle ==
    ASSUME batch[Client] = NoBatch, NEW k \in Keys
    PROVE  Held(k) = IF Live(k)
                     THEN [type |-> "string", val |-> str[k].val, exp |-> str[k].exp]
                     ELSE IF OtherLive(k) THEN [type |-> "other", exp |-> other[k]]
                     ELSE [type |-> "none"]
BY Zenon DEF Held, StrThen, OtherThen, Pending, Live, OtherLive

LEMMA KindIs ==
    ASSUME batch[Client] = NoBatch, NEW k \in Keys
    PROVE  /\ Abstract!IsString(k) <=> Raw(k) = "some"
           /\ Abstract!IsOther(k) <=> Raw(k) = "wrongtype"
           /\ Abstract!IsFree(k) <=> Raw(k) = "none"
           /\ Live(k) => Held(k).val = str[k].val /\ Held(k).exp = str[k].exp
           /\ Abstract!Bytes(k) = OldVal(k)
           /\ (IF Abstract!IsString(k) THEN Held(k).exp ELSE 0) = OldExp(k)
<1>1. CASE Live(k)
  <2>1. Held(k) = [type |-> "string", val |-> str[k].val, exp |-> str[k].exp]
    BY <1>1, HeldIdle
  <2>2. /\ Held(k).type = "string" /\ Held(k).val = str[k].val /\ Held(k).exp = str[k].exp
        /\ Raw(k) = "some" /\ OldVal(k) = str[k].val /\ OldExp(k) = str[k].exp
    BY <1>1, <2>1 DEF Raw, OldVal, OldExp
  <2>. QED
    BY <1>1, <2>2 DEF Abstract!IsString, Abstract!IsOther, Abstract!IsFree, Abstract!Bytes
<1>2. CASE ~Live(k) /\ OtherLive(k)
  <2>1. Held(k) = [type |-> "other", exp |-> other[k]]
    BY <1>2, HeldIdle
  <2>2. Held(k).type = "other" /\ Raw(k) = "wrongtype" /\ OldVal(k) = << >> /\ OldExp(k) = 0
    BY <1>2, <2>1 DEF Raw, OldVal, OldExp
  <2>. QED
    BY <1>2, <2>2 DEF Abstract!IsString, Abstract!IsOther, Abstract!IsFree, Abstract!Bytes
<1>3. CASE ~Live(k) /\ ~OtherLive(k)
  <2>1. Held(k) = [type |-> "none"]
    BY <1>3, HeldIdle
  <2>2. Held(k).type = "none" /\ Raw(k) = "none" /\ OldVal(k) = << >> /\ OldExp(k) = 0
    BY <1>3, <2>1 DEF Raw, OldVal, OldExp
  <2>. QED
    BY <1>3, <2>2 DEF Abstract!IsString, Abstract!IsOther, Abstract!IsFree, Abstract!Bytes
<1>. QED
  BY <1>1, <1>2, <1>3

\* An answer keeps what the keys hold.
LEMMA KeepRefines ==
    ASSUME Shaped, Client \in Procs, NEW r, Answer(Client, r)
    PROVE  Abstract!Keep(r)
<1>1. UNCHANGED <<now, str, other, batch>> /\ reply'[Client] = r
  BY DEF Answer, Shaped
<1>2. \A k : Held(k)' = Held(k)
  BY <1>1 DEF Held, StrThen, OtherThen, Pending, Passed
<1>. QED
  BY <1>1, <1>2 DEF Abstract!Keep

\* The string a row is.
Written(row) == IF row = Absent THEN [type |-> "none"]
                ELSE [type |-> "string", val |-> row.val, exp |-> row.exp]

\* What of a row is alive.
LEMMA WrittenAlive ==
    ASSUME NEW row
    PROVE  Abstract!Alive(Written(row), now) =
              IF row # Absent /\ ~Passed(row.exp) THEN Written(row) ELSE [type |-> "none"]
<1>1. CASE row = Absent
  BY <1>1 DEF Written, Abstract!Alive, Abstract!Nothing
<1>2. CASE row # Absent
  <2>1. Written(row).type # "none" /\ Written(row).exp = row.exp
    BY <1>2 DEF Written
  <2>. QED
    BY <1>2, <2>1 DEF Abstract!Alive, Abstract!Nothing, Passed
<1>. QED
  BY <1>1, <1>2

\* A batch puts its rows, or leaves nothing where a row is dead.
LEMMA BatchSeen ==
    ASSUME Shaped, Client \in Procs, NEW K, NEW b, NEW r,
           b # Absent, DOMAIN b.rows = K, b.clean \subseteq K,
           \A k \in K : OtherLive(k) => k \in b.clean, Decide(Client, b, r)
    PROVE  /\ now' = now /\ reply'[Client] = r
           /\ \A j \in Keys :
                 Held(j)' = IF j \in K THEN Abstract!Alive(Written(b.rows[j]), now) ELSE Held(j)
<1>1. /\ UNCHANGED <<now, str, other>> /\ reply'[Client] = r
      /\ batch[Client] = NoBatch /\ batch'[Client] = b /\ b # NoBatch
  BY DEF Decide, Shaped, NoBatch
<1>2. ASSUME NEW j \in Keys, j \notin K PROVE Held(j)' = Held(j)
  <2>1. j \notin DOMAIN b.rows /\ j \notin b.clean
    BY <1>2
  <2>2. StrThen(j)' = StrThen(j) /\ OtherThen(j)' = OtherThen(j)
    BY <1>1, <2>1 DEF StrThen, OtherThen, Pending
  <2>. QED
    BY <1>1, <2>2 DEF Held, Passed
<1>3. ASSUME NEW j \in K PROVE Held(j)' = Abstract!Alive(Written(b.rows[j]), now)
  <2>1. StrThen(j)' = b.rows[j]
    BY <1>1 DEF StrThen, Pending
  <2>2. ~(OtherThen(j)' # Absent /\ ~Passed(OtherThen(j))')
    BY <1>1 DEF OtherThen, Pending, OtherLive, Passed
  <2>3. Passed(StrThen(j).exp)' <=> Passed(b.rows[j].exp)
    BY <1>1, <2>1 DEF Passed
  <2>4. Held(j)' = IF b.rows[j] # Absent /\ ~Passed(b.rows[j].exp) THEN Written(b.rows[j])
                   ELSE [type |-> "none"]
    BY <2>1, <2>2, <2>3, Zenon DEF Held, Written
  <2>. QED
    BY <2>4, WrittenAlive
<1>. QED
  BY <1>1, <1>2, <1>3

\* A batch over one row.
LEMMA BatchRefines ==
    ASSUME Shaped, Client \in Procs, NEW k \in Keys, NEW b, NEW row, NEW r,
           b # Absent, b.rows = [x \in {k} |-> row], b.clean \subseteq {k},
           OtherLive(k) => k \in b.clean, Decide(Client, b, r)
    PROVE  Abstract!Put(k, Written(row), r)
<1>1. DOMAIN b.rows = {k} /\ b.rows[k] = row
  OBVIOUS
<1>2. /\ now' = now /\ reply'[Client] = r
      /\ \A j \in Keys :
            Held(j)' = IF j \in {k} THEN Abstract!Alive(Written(b.rows[j]), now) ELSE Held(j)
  BY <1>1, BatchSeen
<1>3. [j \in Keys |-> Held(j)'] = [[j \in Keys |-> Held(j)] EXCEPT ![k] = Abstract!Alive(Written(row), now)]
  BY <1>1, <1>2
<1>. QED
  BY <1>2, <1>3 DEF Abstract!Put

LEMMA PutRefines ==
    ASSUME StringsAssumption, Shaped, Client \in Procs, NEW k \in Keys,
           NEW row \in Rows \cup {Absent}, row # Absent => Len(row.val) <= MaxLen,
           NEW clean, OtherLive(k) => clean, NEW r, Decide(Client, Put(k, row, clean), r)
    PROVE  Abstract!Put(k, Written(row), r)
<1>1. Good({k}, Put(k, row, clean))
  BY PutGood
<1>2. /\ Put(k, row, clean) # Absent /\ Put(k, row, clean).rows = [x \in {k} |-> row]
      /\ Put(k, row, clean).clean \subseteq {k}
      /\ OtherLive(k) => k \in Put(k, row, clean).clean
  <2>1. Put(k, row, clean) # Absent
    BY <1>1 DEF Good, StringsAssumption
  <2>2. Put(k, row, clean).rows = [x \in {k} |-> row]
    BY DEF Put
  <2>. QED
    BY <1>1, <2>1, <2>2 DEF Good, BatchesOn
<1>. QED
  BY <1>2, BatchRefines

LEMMA RowRefines ==
    ASSUME StringsAssumption, Shaped, Client \in Procs, NEW k \in Keys,
           NEW s \in Seq(Bytes), Len(s) <= MaxLen, NEW e \in Expiries,
           NEW clean, OtherLive(k) => clean, NEW r, Decide(Client, Put(k, Row(s, e), clean), r)
    PROVE  Abstract!Put(k, Abstract!String(s, e), r)
<1>1. Row(s, e) \in Rows /\ Len(Row(s, e).val) <= MaxLen
  BY RowIs
<1>2. Written(Row(s, e)) = Abstract!String(s, e)
  BY RowIs DEF Written, Abstract!String
<1>. QED
  BY <1>1, <1>2, PutRefines

LEMMA DeleteRefines ==
    ASSUME StringsAssumption, Inv, Client \in Procs, NEW k \in Keys, Raw(k) = "some",
           NEW r, Decide(Client, Put(k, Absent, FALSE), r)
    PROVE  Abstract!Put(k, Abstract!Nothing, r)
<1>1. ~OtherLive(k)
  BY RawIs DEF Inv, OneLive
<1>2. Written(Absent) = Abstract!Nothing
  BY DEF Written, Abstract!Nothing
<1>. QED
  BY <1>1, <1>2, PutRefines DEF Inv

-----------------------------------------------------------------------------
(* Every command does what RedisStrings says of it.                        *)

\* What every command is at when it reads.
At(k) == StringsAssumption /\ Inv /\ Client \in Procs /\ batch[Client] = NoBatch /\ k \in Keys

LEMMA RawAt ==
    ASSUME NEW k \in Keys
    PROVE  Raw(k) \in {"some", "wrongtype", "none"}
BY DEF Raw

LEMMA SameAnswers ==
    /\ Abstract!Nil = Nil /\ Abstract!Ok = Ok /\ Abstract!WrongType = WrongType
    /\ Abstract!NotInteger = NotInteger /\ Abstract!Overflow = Overflow
    /\ Abstract!TooLong = TooLong
    /\ \A x : Abstract!Num(x) = Num(x) /\ Abstract!Str(x) = Str(x)
BY DEF Abstract!Nil, Abstract!Ok, Abstract!WrongType, Abstract!NotInteger, Abstract!Overflow,
       Abstract!TooLong, Abstract!Num, Abstract!Str,
       Nil, Ok, WrongType, NotInteger, Overflow, TooLong, Num, Str

LEMMA MetMatches ==
    ASSUME NEW k, At(k), NEW o
    PROVE  Met(k, o) <=> Abstract!Matches(k, o)
<1>1. /\ Abstract!IsString(k) <=> Live(k)
      /\ Abstract!IsFree(k) <=> Raw(k) = "none"
      /\ Live(k) => [j \in Keys |-> Held(j)][k].val = str[k].val
  BY KindIs, RawIs DEF At
<1>. QED
  BY <1>1, Zenon DEF Met, Abstract!Matches

LEMMA SetRefines ==
    ASSUME NEW k, At(k), NEW v \in Values, NEW o \in SetOptions, Set(Client, k, v, o)
    PROVE  Abstract!Set(k, v, o)
<1>. DEFINE old == IF Live(k) THEN Str(str[k].val) ELSE Nil
            refused == Raw(k) = "wrongtype" /\ (o.get \/ o.cond \in {"ifeq", "ifne"})
            said == IF o.get THEN old ELSE Ok
            no == IF o.get THEN old ELSE Nil
<1>0. /\ StringsAssumption /\ Inv /\ Shaped /\ Client \in Procs /\ batch[Client] = NoBatch /\ k \in Keys
      /\ v \in Seq(Bytes) /\ Len(v) <= MaxLen /\ o.exp \in Expiries
  BY ValuesAre DEF At, Inv, StringsAssumption, Options
<1>1. Kept(k, o) \in Expiries
  BY <1>0, FoundAt DEF Kept, Inv
<1>2. OtherLive(k) => Raw(k) = "wrongtype"
  BY <1>0, RawIs DEF Inv, OneLive
<1>3. Abstract!Set(k, v, o) <=>
         IF refused THEN Abstract!Keep(WrongType)
         ELSE IF Met(k, o) THEN Abstract!Put(k, Abstract!String(v, Kept(k, o)), said)
         ELSE Abstract!Keep(no)
  <2>. DEFINE H == [j \in Keys |-> Held(j)]
              was == IF Abstract!IsString(k) THEN Abstract!Str(H[k].val) ELSE Abstract!Nil
              exp == IF o.keep THEN IF Abstract!IsString(k) THEN H[k].exp ELSE 0 ELSE o.exp
  <2>1. Abstract!Set(k, v, o) <=>
           IF Abstract!IsOther(k) /\ (o.get \/ o.cond \in {"ifeq", "ifne"})
           THEN Abstract!Keep(Abstract!WrongType)
           ELSE IF Abstract!Matches(k, o)
           THEN Abstract!Put(k, Abstract!String(v, exp), IF o.get THEN was ELSE Abstract!Ok)
           ELSE Abstract!Keep(IF o.get THEN was ELSE Abstract!Nil)
    BY Zenon DEF Abstract!Set
  <2>2. (Abstract!IsOther(k) <=> Raw(k) = "wrongtype") /\ was = old /\ exp = Kept(k, o)
    BY <1>0, KindIs, RawIs, SameAnswers DEF Kept
  <2>3. (Met(k, o) <=> Abstract!Matches(k, o))
    BY MetMatches
  <2>. HIDE DEF old, was, exp
  <2>. QED
    BY <2>1, <2>2, <2>3, SameAnswers
<1>4. ASSUME IsFastPath(o), Decide(Client, Put(k, Row(v, o.exp), TRUE), Ok) PROVE Abstract!Set(k, v, o)
  <2>1. ~refused /\ Met(k, o) /\ Kept(k, o) = o.exp /\ said = Ok
    BY <1>4 DEF IsFastPath, Met, Kept
  <2>2. Abstract!Put(k, Abstract!String(v, o.exp), Ok)
    BY <1>0, <1>4, RowRefines
  <2>. HIDE DEF refused, said
  <2>. QED
    BY <1>3, <2>1, <2>2
<1>5. ASSUME ~refused, Met(k, o), Decide(Client, Put(k, Row(v, Kept(k, o)), Raw(k) = "wrongtype"), said)
      PROVE  Abstract!Set(k, v, o)
  <2>. HIDE DEF refused, said
  <2>1. Abstract!Put(k, Abstract!String(v, Kept(k, o)), said)
    BY <1>0, <1>1, <1>2, <1>5, RowRefines
  <2>. QED
    BY <1>3, <1>5, <2>1
<1>6. ASSUME refused, Answer(Client, WrongType) PROVE Abstract!Set(k, v, o)
  <2>. HIDE DEF refused, said
  <2>. QED
    BY <1>0, <1>3, <1>6, KeepRefines
<1>7. ASSUME ~refused, ~Met(k, o), Answer(Client, no) PROVE Abstract!Set(k, v, o)
  <2>. HIDE DEF refused, said, no
  <2>. QED
    BY <1>0, <1>3, <1>7, KeepRefines
<1>. QED
  BY <1>4, <1>5, <1>6, <1>7, Zenon DEF Set

LEMMA GetRefines ==
    ASSUME NEW k, At(k), Get(Client, k)
    PROVE  Abstract!Get(k)
<1>0. /\ Shaped /\ Client \in Procs /\ batch[Client] = NoBatch /\ k \in Keys
  BY DEF At, Inv
<1>1. CASE Raw(k) = "some"
  <2>1. Live(k) /\ OldVal(k) = str[k].val
    BY <1>1, RawIs DEF OldVal
  <2>2. Abstract!Keep(Str(OldVal(k)))
    BY <1>0, <1>1, KeepRefines DEF Get
  <2>3. Abstract!IsString(k) /\ ~Abstract!IsOther(k) /\ [j \in Keys |-> Held(j)][k].val = OldVal(k)
    BY <1>0, <1>1, <2>1, KindIs
  <2>. QED
    BY <2>2, <2>3, SameAnswers DEF Abstract!Get
<1>2. CASE Raw(k) = "none"
  <2>1. Abstract!Keep(Nil)
    BY <1>0, <1>2, KeepRefines DEF Get
  <2>2. ~Abstract!IsString(k) /\ ~Abstract!IsOther(k)
    BY <1>0, <1>2, KindIs
  <2>. QED
    BY <2>1, <2>2, SameAnswers DEF Abstract!Get
<1>3. CASE Raw(k) = "wrongtype"
  <2>1. Abstract!Keep(WrongType)
    BY <1>0, <1>3, KeepRefines DEF Get
  <2>2. Abstract!IsOther(k)
    BY <1>0, <1>3, KindIs
  <2>. QED
    BY <2>1, <2>2, SameAnswers DEF Abstract!Get, Abstract!Refuse
<1>. QED
  BY <1>0, <1>1, <1>2, <1>3, RawAt

LEMMA Refuses ==
    ASSUME NEW k, At(k), Raw(k) = "wrongtype", Answer(Client, WrongType)
    PROVE  Abstract!Refuse(k)
<1>1. Abstract!Keep(WrongType)
  BY KeepRefines DEF At, Inv
<1>. QED
  BY <1>1, KindIs, SameAnswers DEF At, Abstract!Refuse

LEMMA GetExRefines ==
    ASSUME NEW k, At(k), NEW e \in Expiries, GetEx(Client, k, e)
    PROVE  Abstract!GetEx(k, e)
<1>0. /\ StringsAssumption /\ Inv /\ Shaped /\ Client \in Procs /\ batch[Client] = NoBatch /\ k \in Keys
  BY DEF At, Inv
<1>1. ASSUME Raw(k) = "some", Decide(Client, Put(k, Row(OldVal(k), e), FALSE), Str(OldVal(k)))
      PROVE  Abstract!GetEx(k, e)
  <2>1. Live(k) /\ OldVal(k) = str[k].val /\ ~OtherLive(k)
    BY <1>0, <1>1, RawIs DEF OldVal, Inv, OneLive
  <2>2. OldVal(k) \in Seq(Bytes) /\ Len(OldVal(k)) <= MaxLen
    BY <1>0, FoundAt DEF Inv
  <2>3. Abstract!Put(k, Abstract!String(OldVal(k), e), Str(OldVal(k)))
    BY <1>0, <1>1, <2>1, <2>2, RowRefines
  <2>4. Held(k) = [type |-> "string", val |-> str[k].val, exp |-> str[k].exp]
    BY <1>0, <2>1, HeldIdle
  <2>5. [[j \in Keys |-> Held(j)][k] EXCEPT !.exp = e] = Abstract!String(OldVal(k), e)
    BY <1>0, <2>1, <2>4 DEF Abstract!String
  <2>6. Abstract!IsString(k) /\ [j \in Keys |-> Held(j)][k].val = OldVal(k)
    BY <1>0, <1>1, <2>1, KindIs
  <2>. QED
    BY <2>3, <2>5, <2>6, SameAnswers DEF Abstract!GetEx
<1>2. ASSUME Raw(k) = "none", Answer(Client, Nil) PROVE Abstract!GetEx(k, e)
  <2>1. Abstract!Keep(Nil) /\ Abstract!IsFree(k)
    BY <1>0, <1>2, KeepRefines, KindIs
  <2>. QED
    BY <2>1, SameAnswers DEF Abstract!GetEx
<1>3. ASSUME Raw(k) = "wrongtype", Answer(Client, WrongType) PROVE Abstract!GetEx(k, e)
  BY <1>3, Refuses DEF Abstract!GetEx
<1>. QED
  BY <1>1, <1>2, <1>3 DEF GetEx

LEMMA GetDelRefines ==
    ASSUME NEW k, At(k), GetDel(Client, k)
    PROVE  Abstract!GetDel(k)
<1>0. /\ StringsAssumption /\ Inv /\ Shaped /\ Client \in Procs /\ batch[Client] = NoBatch /\ k \in Keys
  BY DEF At, Inv
<1>1. ASSUME Raw(k) = "some", Decide(Client, Put(k, Absent, FALSE), Str(OldVal(k)))
      PROVE  Abstract!GetDel(k)
  <2>1. Abstract!Put(k, Abstract!Nothing, Str(OldVal(k)))
    BY <1>0, <1>1, DeleteRefines
  <2>2. Abstract!IsString(k) /\ [j \in Keys |-> Held(j)][k].val = OldVal(k)
    BY <1>0, <1>1, KindIs, RawIs DEF OldVal
  <2>. QED
    BY <2>1, <2>2, SameAnswers DEF Abstract!GetDel
<1>2. ASSUME Raw(k) = "none", Answer(Client, Nil) PROVE Abstract!GetDel(k)
  <2>1. Abstract!Keep(Nil) /\ Abstract!IsFree(k)
    BY <1>0, <1>2, KeepRefines, KindIs
  <2>. QED
    BY <2>1, SameAnswers DEF Abstract!GetDel
<1>3. ASSUME Raw(k) = "wrongtype", Answer(Client, WrongType) PROVE Abstract!GetDel(k)
  BY <1>3, Refuses DEF Abstract!GetDel
<1>. QED
  BY <1>1, <1>2, <1>3 DEF GetDel

LEMMA DelExRefines ==
    ASSUME NEW k, At(k), NEW os, DelEx(Client, k, os)
    PROVE  Abstract!DelEx(k, os)
<1>0. /\ StringsAssumption /\ Inv /\ Shaped /\ Client \in Procs /\ batch[Client] = NoBatch /\ k \in Keys
  BY DEF At, Inv
<1>1. ASSUME Raw(k) = "some", \A i \in 1 .. Len(os) : Met(k, os[i]),
             Decide(Client, Put(k, Absent, FALSE), Num(1))
      PROVE  Abstract!DelEx(k, os)
  <2>1. Abstract!Put(k, Abstract!Nothing, Num(1)) /\ Abstract!IsString(k)
    BY <1>0, <1>1, DeleteRefines, KindIs
  <2>2. \A i \in 1 .. Len(os) : Abstract!Matches(k, os[i])
    BY <1>1, MetMatches
  <2>. QED
    BY <2>1, <2>2, SameAnswers DEF Abstract!DelEx
<1>2. ASSUME Raw(k) = "some", \E i \in 1 .. Len(os) : ~Met(k, os[i]), Answer(Client, Num(0))
      PROVE  Abstract!DelEx(k, os)
  <2>1. Abstract!Keep(Num(0)) /\ Abstract!IsString(k)
    BY <1>0, <1>2, KeepRefines, KindIs
  <2>2. ~ \A i \in 1 .. Len(os) : Abstract!Matches(k, os[i])
    BY <1>2, MetMatches
  <2>. QED
    BY <2>1, <2>2, SameAnswers DEF Abstract!DelEx
<1>3. ASSUME Raw(k) = "none", Answer(Client, Num(0)) PROVE Abstract!DelEx(k, os)
  <2>1. Abstract!Keep(Num(0)) /\ Abstract!IsFree(k)
    BY <1>0, <1>3, KeepRefines, KindIs
  <2>. QED
    BY <2>1, SameAnswers DEF Abstract!DelEx
<1>4. ASSUME Raw(k) = "wrongtype", Answer(Client, WrongType) PROVE Abstract!DelEx(k, os)
  BY <1>4, Refuses DEF Abstract!DelEx
<1>. QED
  BY <1>1, <1>2, <1>3, <1>4 DEF DelEx

LEMMA CompareRefines ==
    ASSUME NEW k, At(k), NEW old \in Values, NEW row \in Rows \cup {Absent},
           row # Absent => Len(row.val) <= MaxLen, Compare(Client, k, old, row)
    PROVE  \/ Abstract!Refuse(k)
           \/ Abstract!IsFree(k) /\ Abstract!Keep(Num(-1))
           \/ Abstract!IsString(k) /\ Held(k).val # old /\ Abstract!Keep(Num(0))
           \/ Abstract!IsString(k) /\ Held(k).val = old /\ Abstract!Put(k, Written(row), Num(1))
<1>0. /\ StringsAssumption /\ Inv /\ Shaped /\ Client \in Procs /\ batch[Client] = NoBatch /\ k \in Keys
  BY DEF At, Inv
<1>. DEFINE b == [Put(k, row, FALSE) EXCEPT !.expects = <<k, old>>]
<1>1. ASSUME Raw(k) = "some" PROVE Abstract!IsString(k) /\ Held(k).val = OldVal(k) /\ ~OtherLive(k)
  BY <1>0, <1>1, KindIs, RawIs DEF OldVal, Inv, OneLive
<1>2. ASSUME Raw(k) = "some", OldVal(k) = old, Decide(Client, b, Num(1))
      PROVE  Abstract!IsString(k) /\ Held(k).val = old /\ Abstract!Put(k, Written(row), Num(1))
  <2>1. Good({k}, Put(k, row, FALSE))
    BY <1>0, <1>1, <1>2, PutGood
  <2>2. /\ b \in BatchesOn({k}) /\ b.rows = Put(k, row, FALSE).rows
        /\ b.clean = Put(k, row, FALSE).clean
    BY <1>0, <2>1 DEF Good, BatchesOn
  <2>3. b # Absent /\ b.rows = [x \in {k} |-> row] /\ b.clean \subseteq {k}
    <3>1. Put(k, row, FALSE).rows = [x \in {k} |-> row]
      BY DEF Put
    <3>2. Absent \notin BatchesOn({k})
      BY <1>0 DEF StringsAssumption
    <3>. HIDE DEF b
    <3>. QED
      BY <2>2, <3>1, <3>2 DEF BatchesOn
  <2>. HIDE DEF b
  <2>. QED
    BY <1>0, <1>1, <1>2, <2>3, BatchRefines
<1>3. ASSUME Raw(k) = "some", OldVal(k) # old, Answer(Client, Num(0))
      PROVE  Abstract!IsString(k) /\ Held(k).val # old /\ Abstract!Keep(Num(0))
  BY <1>0, <1>1, <1>3, KeepRefines
<1>4. ASSUME Raw(k) = "none", Answer(Client, Num(-1))
      PROVE  Abstract!IsFree(k) /\ Abstract!Keep(Num(-1))
  BY <1>0, <1>4, KeepRefines, KindIs
<1>. QED
  BY <1>2, <1>3, <1>4, Refuses, Zenon DEF Compare

LEMMA CasRefines ==
    ASSUME NEW k, At(k), NEW old \in Values, NEW v \in Values, NEW e \in Expiries,
           Cas(Client, k, old, v, e)
    PROVE  Abstract!Cas(k, old, v, e)
<1>0. StringsAssumption /\ k \in Keys /\ v \in Seq(Bytes) /\ Len(v) <= MaxLen
  BY ValuesAre DEF At
<1>1. /\ Row(v, e) \in Rows /\ Len(Row(v, e).val) <= MaxLen
      /\ Written(Row(v, e)) = Abstract!String(v, e)
  BY <1>0, RowIs DEF Written, Abstract!String
<1>2. [j \in Keys |-> Held(j)][k] = Held(k)
  BY <1>0
<1>3. \/ Abstract!Refuse(k)
      \/ Abstract!IsFree(k) /\ Abstract!Keep(Num(-1))
      \/ Abstract!IsString(k) /\ Held(k).val # old /\ Abstract!Keep(Num(0))
      \/ Abstract!IsString(k) /\ Held(k).val = old /\ Abstract!Put(k, Written(Row(v, e)), Num(1))
  BY <1>1, CompareRefines DEF Cas
<1>. QED
  BY <1>1, <1>2, <1>3, SameAnswers DEF Abstract!Cas

LEMMA CadRefines ==
    ASSUME NEW k, At(k), NEW old \in Values, Cad(Client, k, old)
    PROVE  Abstract!Cad(k, old)
<1>1. Written(Absent) = Abstract!Nothing
  BY DEF Written, Abstract!Nothing
<1>2. [j \in Keys |-> Held(j)][k] = Held(k)
  BY DEF At
<1>3. \/ Abstract!Refuse(k)
      \/ Abstract!IsFree(k) /\ Abstract!Keep(Num(-1))
      \/ Abstract!IsString(k) /\ Held(k).val # old /\ Abstract!Keep(Num(0))
      \/ Abstract!IsString(k) /\ Held(k).val = old /\ Abstract!Put(k, Written(Absent), Num(1))
  BY CompareRefines DEF Cad
<1>. QED
  BY <1>1, <1>2, <1>3, SameAnswers DEF Abstract!Cad

LEMMA SameNumerals ==
    /\ Abstract!IntRange = IntRange
    /\ \A n : Abstract!Decimal(n) = Decimal(n)
<1>1. Abstract!IntRange = IntRange
  BY DEF Abstract!IntRange, IntRange
<1>2. Abstract!Numerals = Numerals
  BY DEF Abstract!Numerals, Numerals
<1>3. ASSUME NEW n PROVE Abstract!Decimal(n) = Decimal(n)
  BY <1>2, Zenon DEF Abstract!Decimal, Decimal
<1>. QED
  BY <1>1, <1>3

\* Bytes written behind the old header: INCRBY, APPEND and SETRANGE.
LEMMA BehindRefines ==
    ASSUME NEW k, At(k), NEW s \in Seq(Bytes), Len(s) <= MaxLen,
           NEW r, Decide(Client, Put(k, Row(s, OldExp(k)), ~Live(k)), r)
    PROVE  Abstract!Put(k, Abstract!String(s, OldExp(k)), r)
<1>1. /\ StringsAssumption /\ Inv /\ Shaped /\ Client \in Procs /\ k \in Keys
  BY DEF At, Inv
<1>2. OldExp(k) \in Expiries /\ (OtherLive(k) => ~Live(k))
  BY <1>1, FoundAt DEF Inv, OneLive
<1>. QED
  BY <1>1, <1>2, RowRefines

LEMMA IncrByRefines ==
    ASSUME NEW k, At(k), NEW n \in Int, IncrBy(Client, k, n)
    PROVE  Abstract!IncrBy(k, n)
<1>. DEFINE H == [j \in Keys |-> Held(j)]
            number == {i \in Abstract!IntRange :
                         IF Abstract!IsFree(k) THEN i = 0 ELSE Abstract!Bytes(k) = Abstract!Decimal(i)}
            exp == IF Abstract!IsString(k) THEN H[k].exp ELSE 0
<1>0. /\ StringsAssumption /\ Inv /\ Shaped /\ Client \in Procs /\ batch[Client] = NoBatch /\ k \in Keys
  BY DEF At, Inv
<1>1. Abstract!IncrBy(k, n) <=>
         \/ Abstract!Refuse(k)
         \/ ~Abstract!IsOther(k) /\ number = {} /\ Abstract!Keep(Abstract!NotInteger)
         \/ \E i \in number :
               IF i + n \in Abstract!IntRange
               THEN Abstract!Put(k, Abstract!String(Abstract!Decimal(i + n), exp), Abstract!Num(i + n))
               ELSE Abstract!Keep(Abstract!Overflow)
  BY Zenon DEF Abstract!IncrBy
<1>2. exp = OldExp(k) /\ H[k] = Held(k)
  BY <1>0, KindIs
<1>3. number = {i \in IntRange : IF Raw(k) = "none" THEN i = 0 ELSE OldVal(k) = Decimal(i)}
  BY <1>0, KindIs, SameNumerals
<1>. HIDE DEF number, exp, H
<1>4. ASSUME Raw(k) = "wrongtype", Answer(Client, WrongType) PROVE Abstract!IncrBy(k, n)
  BY <1>1, <1>4, Refuses
<1>5. ASSUME Raw(k) = "some", ~Parses(OldVal(k)), Answer(Client, NotInteger)
      PROVE  Abstract!IncrBy(k, n)
  <2>1. number = {}
    BY <1>3, <1>5 DEF Parses, Formatted
  <2>2. Abstract!Keep(NotInteger) /\ ~Abstract!IsOther(k)
    BY <1>0, <1>5, KeepRefines, KindIs
  <2>. QED
    BY <1>1, <2>1, <2>2, SameAnswers
<1>6. ASSUME Raw(k) = "none" \/ (Raw(k) = "some" /\ Parses(OldVal(k)))
      PROVE  \E i \in number : i + n = Sum(k, n)
  <2>1. CASE Raw(k) = "none"
    <3>1. 0 \in IntRange /\ ~Live(k)
      BY <1>0, <2>1, RawIs DEF StringsAssumption, IntRange
    <3>2. 0 \in number
      BY <1>3, <2>1, <3>1
    <3>3. Sum(k, n) = 0 + n
      BY <3>1 DEF Sum
    <3>. QED
      BY <3>2, <3>3
  <2>2. CASE Raw(k) = "some" /\ Parses(OldVal(k))
    <3>1. Live(k) /\ OldVal(k) = str[k].val
      BY <2>2, RawIs DEF OldVal
    <3>2. Parsed(OldVal(k)) \in IntRange /\ Formatted(Parsed(OldVal(k))) = OldVal(k)
      BY <2>2 DEF Parses, Parsed
    <3>3. Parsed(OldVal(k)) \in number
      BY <1>3, <2>2, <3>2 DEF Formatted
    <3>4. Sum(k, n) = n + Parsed(OldVal(k))
      BY <3>1, Zenon DEF Sum
    <3>5. Parsed(OldVal(k)) \in Int
      BY <1>0, <3>2, IntRangeIs
    <3>. QED
      BY <3>3, <3>4, <3>5
  <2>. QED
    BY <1>6, <2>1, <2>2
<1>7. ASSUME Raw(k) = "none" \/ (Raw(k) = "some" /\ Parses(OldVal(k))),
             Sum(k, n) \in IntRange,
             Decide(Client, Put(k, Row(Formatted(Sum(k, n)), OldExp(k)), ~Live(k)), Num(Sum(k, n)))
      PROVE  Abstract!IncrBy(k, n)
  <2>1. PICK i \in number : i + n = Sum(k, n)
    BY <1>6, <1>7
  <2>2. Decimal(Sum(k, n)) \in Seq(Bytes) /\ Len(Decimal(Sum(k, n))) <= MaxLen
    <3>1. Decimal(Sum(k, n)) \in Seq(Bytes) /\ Len(Decimal(Sum(k, n))) \in 1 .. 2
      BY <1>0, <1>7, DecimalIs
    <3>2. \A j \in 1 .. 2 : j <= MaxLen
      BY <1>0 DEF StringsAssumption
    <3>. QED
      BY <3>1, <3>2
  <2>3. Abstract!Put(k, Abstract!String(Decimal(Sum(k, n)), OldExp(k)), Num(Sum(k, n)))
    BY <1>7, <2>2, BehindRefines DEF Formatted
  <2>4. /\ i + n \in Abstract!IntRange
        /\ Abstract!Put(k, Abstract!String(Abstract!Decimal(i + n), exp), Abstract!Num(i + n))
    BY <1>2, <1>7, <2>1, <2>3, SameNumerals, SameAnswers
  <2>. QED
    BY <1>1, <2>4
<1>8. ASSUME Raw(k) = "none" \/ (Raw(k) = "some" /\ Parses(OldVal(k))),
             Sum(k, n) \notin IntRange, Answer(Client, Overflow)
      PROVE  Abstract!IncrBy(k, n)
  <2>1. PICK i \in number : i + n = Sum(k, n)
    BY <1>6, <1>8
  <2>2. i + n \notin Abstract!IntRange /\ Abstract!Keep(Abstract!Overflow)
    BY <1>0, <1>8, <2>1, SameNumerals, SameAnswers, KeepRefines
  <2>. QED
    BY <1>1, <2>2
<1>. QED
  BY <1>4, <1>5, <1>7, <1>8, Zenon DEF IncrBy

\* The least integer has no negation in the code's width:
\* DECRBY is exact for every other decrement.
LEMMA DecrByRefines ==
    ASSUME NEW k, At(k), NEW n \in Int, n # -(MaxInt + 1), DecrBy(Client, k, n)
    PROVE  Abstract!IncrBy(k, -n)
<1>1. Negated(n) = -n /\ -n \in Int
  BY DEF Negated
<1>. QED
  BY <1>1, IncrByRefines DEF DecrBy

LEMMA RewriteRefines ==
    ASSUME NEW k, At(k), NEW s \in Seq(Bytes), Len(s) <= MaxLen, Raw(k) # "wrongtype",
           Rewrite(Client, k, s)
    PROVE  ~Abstract!IsOther(k) /\ Abstract!Extend(k, s)
<1>1. batch[Client] = NoBatch /\ k \in Keys /\ MaxLen \in Nat
  BY DEF At, StringsAssumption
<1>2. Abstract!Put(k, Abstract!String(s, OldExp(k)), Num(Len(s)))
  BY BehindRefines DEF Rewrite
<1>3. ~(Len(s) > MaxLen)
  BY <1>1
<1>4. /\ ~Abstract!IsOther(k)
      /\ (IF Abstract!IsString(k) THEN [j \in Keys |-> Held(j)][k].exp ELSE 0) = OldExp(k)
  BY <1>1, KindIs
<1>. QED
  BY <1>2, <1>3, <1>4, SameAnswers, Zenon DEF Abstract!Extend

LEMMA AppendRefines ==
    ASSUME NEW k, At(k), NEW v \in Values, AppendTo(Client, k, v)
    PROVE  Abstract!AppendTo(k, v)
<1>0. /\ StringsAssumption /\ TypeOK /\ Shaped /\ Client \in Procs /\ batch[Client] = NoBatch
      /\ k \in Keys /\ MaxLen \in Nat
  BY DEF At, Inv, StringsAssumption
<1>1. OldVal(k) \in Seq(Bytes) /\ v \in Seq(Bytes)
  BY <1>0, FoundAt, ValuesAre
<1>2. OldVal(k) \o v \in Seq(Bytes) /\ Len(OldVal(k) \o v) = Len(OldVal(k)) + Len(v)
  BY <1>1, ConcatIs
<1>3. Abstract!Bytes(k) = OldVal(k)
  BY <1>0, KindIs
<1>4. ASSUME Raw(k) # "wrongtype", Len(OldVal(k)) + Len(v) > MaxLen, Answer(Client, TooLong)
      PROVE  Abstract!AppendTo(k, v)
  <2>1. ~Abstract!IsOther(k) /\ Abstract!Keep(TooLong)
    BY <1>0, <1>4, KeepRefines, KindIs
  <2>2. Len(OldVal(k) \o v) > MaxLen
    BY <1>2, <1>4
  <2>. QED
    BY <1>3, <2>1, <2>2, SameAnswers DEF Abstract!AppendTo, Abstract!Extend
<1>5. ASSUME Raw(k) # "wrongtype", ~(Len(OldVal(k)) + Len(v) > MaxLen),
             Rewrite(Client, k, OldVal(k) \o v)
      PROVE  Abstract!AppendTo(k, v)
  <2>1. Len(OldVal(k) \o v) <= MaxLen
    BY <1>0, <1>1, <1>2, <1>5
  <2>2. ~Abstract!IsOther(k) /\ Abstract!Extend(k, OldVal(k) \o v)
    BY <1>2, <1>5, <2>1, RewriteRefines
  <2>. QED
    BY <1>3, <2>2 DEF Abstract!AppendTo
<1>6. ASSUME Raw(k) = "wrongtype", Answer(Client, WrongType) PROVE Abstract!AppendTo(k, v)
  BY <1>6, Refuses DEF Abstract!AppendTo
<1>. QED
  BY <1>4, <1>5, <1>6, Zenon DEF AppendTo

LEMMA StrLenRefines ==
    ASSUME NEW k, At(k), StrLen(Client, k)
    PROVE  Abstract!StrLen(k)
<1>0. Shaped /\ Client \in Procs /\ batch[Client] = NoBatch /\ k \in Keys
  BY DEF At, Inv
<1>1. ASSUME Raw(k) # "wrongtype", Answer(Client, Num(Len(OldVal(k)))) PROVE Abstract!StrLen(k)
  <2>1. ~Abstract!IsOther(k) /\ Abstract!Keep(Num(Len(OldVal(k)))) /\ Abstract!Bytes(k) = OldVal(k)
    BY <1>0, <1>1, KeepRefines, KindIs
  <2>. QED
    BY <2>1, SameAnswers DEF Abstract!StrLen
<1>2. ASSUME Raw(k) = "wrongtype", Answer(Client, WrongType) PROVE Abstract!StrLen(k)
  BY <1>2, Refuses DEF Abstract!StrLen
<1>. QED
  BY <1>1, <1>2 DEF StrLen

LEMMA OverlayIs ==
    ASSUME NEW old \in Seq(Bytes), NEW off \in Nat, NEW v \in Seq(Bytes)
    PROVE  Abstract!Overlay(old, off, v) = Splice(old, off, v)
<1>. DEFINE end == off + Len(v)
            n == IF end > Len(old) THEN end ELSE Len(old)
            s == Splice(old, off, v)
<1>1. /\ s \in Seq(Bytes) /\ Len(s) = n
      /\ \A i \in 1 .. n : s[i] = IF i > off /\ i <= end THEN v[i - off]
                                  ELSE IF i <= Len(old) THEN old[i] ELSE Nul
  BY SpliceIs
<1>2. Abstract!Overlay(old, off, v) =
         [i \in 1 .. n |-> IF i > off /\ i <= end THEN v[i - off]
                           ELSE IF i <= Len(old) THEN old[i] ELSE Nul]
  BY DEF Abstract!Overlay
<1>. HIDE DEF end, n, s
<1>3. s = [i \in 1 .. n |-> s[i]]
  BY <1>1
<1>. QED
  BY <1>1, <1>2, <1>3 DEF s

LEMMA SetRangeRefines ==
    ASSUME NEW k, At(k), NEW off \in Offsets, NEW v \in Values, SetRange(Client, k, off, v)
    PROVE  Abstract!SetRange(k, off, v)
<1>0. /\ StringsAssumption /\ TypeOK /\ Shaped /\ Client \in Procs /\ batch[Client] = NoBatch
      /\ k \in Keys /\ MaxLen \in Nat /\ off \in Nat
  BY DEF At, Inv, StringsAssumption
<1>1. OldVal(k) \in Seq(Bytes) /\ Len(OldVal(k)) <= MaxLen /\ v \in Seq(Bytes)
  BY <1>0, FoundAt, ValuesAre
<1>2. Abstract!Bytes(k) = OldVal(k) /\ Abstract!Overlay(OldVal(k), off, v) = Splice(OldVal(k), off, v)
  BY <1>0, <1>1, KindIs, OverlayIs
<1>3. ASSUME off + Len(v) > MaxLen, Answer(Client, TooLong) PROVE Abstract!SetRange(k, off, v)
  BY <1>0, <1>3, KeepRefines, SameAnswers DEF Abstract!SetRange
<1>4. ASSUME off + Len(v) <= MaxLen, Raw(k) = "wrongtype", Answer(Client, WrongType)
      PROVE  Abstract!SetRange(k, off, v)
  BY <1>4, Refuses DEF Abstract!SetRange
<1>5. ASSUME off + Len(v) <= MaxLen, Raw(k) = "none", v = << >>, Answer(Client, Num(0))
      PROVE  Abstract!SetRange(k, off, v)
  <2>1. Abstract!IsFree(k) /\ Abstract!Keep(Abstract!Num(0))
    BY <1>0, <1>5, KeepRefines, KindIs, SameAnswers
  <2>. QED
    BY <1>5, <2>1, Zenon DEF Abstract!SetRange
<1>6. ASSUME off + Len(v) <= MaxLen, Raw(k) # "wrongtype", ~(Raw(k) = "none" /\ v = << >>),
             Rewrite(Client, k, Splice(OldVal(k), off, v))
      PROVE  Abstract!SetRange(k, off, v)
  <2>1. /\ Splice(OldVal(k), off, v) \in Seq(Bytes)
        /\ Len(Splice(OldVal(k), off, v)) =
              IF off + Len(v) > Len(OldVal(k)) THEN off + Len(v) ELSE Len(OldVal(k))
    BY <1>0, <1>1, SpliceIs
  <2>2. Len(Splice(OldVal(k), off, v)) <= MaxLen
    BY <1>0, <1>1, <1>6, <2>1
  <2>3. ~Abstract!IsOther(k) /\ Abstract!Extend(k, Splice(OldVal(k), off, v))
    BY <1>6, <2>1, <2>2, RewriteRefines
  <2>4. ~(Abstract!IsFree(k) /\ v = << >>)
    BY <1>0, <1>6, KindIs
  <2>. QED
    BY <1>2, <1>6, <2>3, <2>4, Zenon DEF Abstract!SetRange
<1>. QED
  BY <1>3, <1>4, <1>5, <1>6, Zenon DEF SetRange

LEMMA GetRangeRefines ==
    ASSUME NEW k, At(k), NEW r \in Ranges, GetRange(Client, k, r)
    PROVE  Abstract!GetRange(k, r)
<1>. DEFINE len == Len(Abstract!Bytes(k))
            from == IF r[1] < 0 THEN len + r[1] ELSE r[1]
            to == IF r[2] < 0 THEN len + r[2] ELSE r[2]
            within == {i \in 0 .. (len - 1) : from <= i /\ i <= to}
            first == IF from < 0 THEN 0 ELSE from
            last == IF to >= len THEN len - 1 ELSE to
            n == Normalized(r, Len(OldVal(k)))
<1>0. /\ StringsAssumption /\ TypeOK /\ Shaped /\ Client \in Procs /\ batch[Client] = NoBatch
      /\ k \in Keys /\ r[1] \in Int /\ r[2] \in Int
  BY DEF At, Inv, StringsAssumption
<1>1. /\ Abstract!Bytes(k) = OldVal(k) /\ OldVal(k) \in Seq(Bytes)
      /\ Abstract!IsOther(k) <=> Raw(k) = "wrongtype"
  BY <1>0, FoundAt, KindIs
<1>2. n = [s |-> first, e |-> last]
  BY <1>1, Zenon DEF Normalized
<1>3. n.s = first /\ n.e = last
  <2>. HIDE DEF first, last, n
  <2>. QED
    BY <1>2
<1>4. Abstract!GetRange(k, r) <=>
         \/ Abstract!Refuse(k)
         \/ ~Abstract!IsOther(k) /\ within = {} /\ Abstract!Keep(Abstract!Ok)
         \/ /\ ~Abstract!IsOther(k) /\ within # {}
            /\ Abstract!Keep(Abstract!Str(SubSeq(Abstract!Bytes(k), first + 1, last + 1)))
  BY Zenon DEF Abstract!GetRange
<1>5. len \in Nat /\ (OldVal(k) = << >> <=> len = 0)
  BY <1>1
<1>. HIDE DEF len, n
<1>6. from \in Int /\ to \in Int
  BY <1>0, <1>5
<1>. HIDE DEF from, to
<1>7. within = {} <=> (len = 0 \/ first > last)
  <2>1. ASSUME NEW i \in within PROVE len # 0 /\ first <= last
    BY <1>5, <1>6, <2>1
  <2>2. ASSUME len # 0, ~(first > last) PROVE first \in within
    BY <1>5, <1>6, <2>2
  <2>3. first \in Int /\ last \in Int
    BY <1>5, <1>6
  <2>. HIDE DEF first, last, within
  <2>. QED
    BY <2>1, <2>2, <2>3
<1>. HIDE DEF first, last, within
<1>8. ASSUME Raw(k) # "wrongtype",
             Answer(Client, IF OldVal(k) = << >> \/ n.s > n.e THEN Ok
                            ELSE Str(SubSeq(OldVal(k), n.s + 1, n.e + 1)))
      PROVE  Abstract!GetRange(k, r)
  <2>1. CASE within = {}
    <3>1. OldVal(k) = << >> \/ n.s > n.e
      BY <1>3, <1>5, <1>7, <2>1
    <3>2. Answer(Client, Ok)
      BY <1>8, <3>1, Zenon
    <3>3. Abstract!Keep(Abstract!Ok)
      BY <1>0, <3>2, KeepRefines, SameAnswers
    <3>. QED
      BY <1>1, <1>4, <1>8, <2>1, <3>3
  <2>2. CASE within # {}
    <3>1. ~(OldVal(k) = << >> \/ n.s > n.e)
      BY <1>3, <1>5, <1>7, <2>2
    <3>2. Answer(Client, Str(SubSeq(OldVal(k), n.s + 1, n.e + 1)))
      BY <1>8, <3>1, Zenon
    <3>3. Abstract!Keep(Str(SubSeq(OldVal(k), first + 1, last + 1)))
      BY <1>0, <1>3, <3>2, KeepRefines
    <3>4. Abstract!Keep(Abstract!Str(SubSeq(Abstract!Bytes(k), first + 1, last + 1)))
      BY <1>1, <3>3, SameAnswers
    <3>. QED
      BY <1>1, <1>4, <1>8, <2>2, <3>4
  <2>. QED
    BY <2>1, <2>2
<1>9. ASSUME Raw(k) = "wrongtype", Answer(Client, WrongType) PROVE Abstract!GetRange(k, r)
  BY <1>4, <1>9, Refuses
<1>. QED
  BY <1>8, <1>9, Zenon DEF GetRange, n

LEMMA MSetRefines ==
    ASSUME StringsAssumption, Inv, Client \in Procs, NEW kvs \in Pairs, NEW o \in MSetOptions,
           MSet(Client, kvs, o)
    PROVE  Abstract!MSet(kvs, o)
<1>. DEFINE H == [j \in Keys |-> Held(j)]
            named == {kvs[i][1] : i \in 1 .. Len(kvs)}
            last(k) == kvs[CHOOSE i \in 1 .. Len(kvs) :
                              kvs[i][1] = k /\ \A j \in (i + 1) .. Len(kvs) : kvs[j][1] # k][2]
            exp(k) == IF o.keep THEN IF Abstract!IsString(k) THEN H[k].exp ELSE 0 ELSE o.exp
            met == \A k \in named : /\ o.cond = "nx" => Abstract!IsFree(k)
                                    /\ o.cond = "xx" => Abstract!IsString(k)
            b == [rows |-> RowsOf(kvs, o), clean |-> Found(Named(kvs)), expects |-> Absent]
<1>0. /\ Shaped /\ TypeOK /\ batch[Client] = NoBatch /\ o \in SetOptions /\ Named(kvs) \subseteq Keys
  BY PairsAre DEF Inv, MSetOptions, MSet, Answer, Decide
<1>1. Abstract!MSet(kvs, o) <=>
         IF met
         THEN /\ [j \in Keys |-> Held(j)'] =
                    [k \in Keys |-> IF k \in named
                                    THEN Abstract!Alive(Abstract!String(last(k), exp(k)), now)
                                    ELSE H[k]]
              /\ reply'[Client] = Abstract!Num(1)
              /\ now' = now
         ELSE Abstract!Keep(Abstract!Num(0))
  BY Zenon DEF Abstract!MSet
<1>2. named = Named(kvs) /\ \A k : last(k) = kvs[Last(kvs, k)][2]
  BY DEF Named, Last
<1>3. \A k \in Keys : exp(k) = Kept(k, o)
  BY <1>0, KindIs DEF Kept
<1>. HIDE DEF named, last, exp
<1>4. met <=> MSetMet(kvs, o)
  <2>1. \A k \in Keys : /\ Abstract!IsFree(k) <=> Raw(k) = "none"
                        /\ Abstract!IsString(k) <=> Live(k)
    BY <1>0, KindIs, RawIs
  <2>2. MSetMet(kvs, o) <=> \A k \in Named(kvs) : /\ o.cond = "nx" => Raw(k) = "none"
                                                  /\ o.cond = "xx" => Live(k)
    BY DEF MSetMet, Named
  <2>. QED
    BY <1>0, <1>2, <2>1, <2>2
<1>. HIDE DEF met
<1>5. ASSUME MSetMet(kvs, o), Decide(Client, b, Num(1)) PROVE Abstract!MSet(kvs, o)
  <2>1. RowsOf(kvs, o) \in [Named(kvs) -> Rows] /\ b \in BatchesOn(Named(kvs))
    <3>1. RowsOf(kvs, o) \in [Named(kvs) -> Rows] /\ Found(Named(kvs)) \subseteq Named(kvs)
      BY <1>0, RowsOfIs DEF Found
    <3>. QED
      BY <3>1 DEF BatchesOn
  <2>2. /\ b # Absent /\ DOMAIN b.rows = Named(kvs) /\ b.clean \subseteq Named(kvs)
        /\ \A k \in Named(kvs) : OtherLive(k) => k \in b.clean
    <3>1. b # Absent
      BY <1>0, <2>1 DEF StringsAssumption
    <3>2. b.rows = RowsOf(kvs, o) /\ b.clean = Found(Named(kvs))
      OBVIOUS
    <3>. QED
      BY <2>1, <3>1, <3>2 DEF Found, OtherLive
  <2>3. b.rows = RowsOf(kvs, o)
    OBVIOUS
  <2>. HIDE DEF b
  <2>4. /\ now' = now /\ reply'[Client] = Num(1)
        /\ \A j \in Keys : Held(j)' = IF j \in Named(kvs)
                                      THEN Abstract!Alive(Written(b.rows[j]), now) ELSE Held(j)
    BY <1>0, <1>5, <2>2, BatchSeen
  <2>5. ASSUME NEW k \in Named(kvs) PROVE Written(b.rows[k]) = Abstract!String(last(k), exp(k))
    <3>1. /\ b.rows[k].val = last(k) /\ b.rows[k].exp = exp(k) /\ b.rows[k] # Absent
      BY <1>0, <1>2, <1>3, <2>3, RowsOfIs
    <3>. QED
      BY <3>1 DEF Written, Abstract!String
  <2>6. [j \in Keys |-> Held(j)'] =
           [k \in Keys |-> IF k \in named
                           THEN Abstract!Alive(Abstract!String(last(k), exp(k)), now)
                           ELSE H[k]]
    BY <1>2, <2>4, <2>5
  <2>. QED
    BY <1>1, <1>4, <1>5, <2>4, <2>6, SameAnswers
<1>6. ASSUME ~MSetMet(kvs, o), Answer(Client, Num(0)) PROVE Abstract!MSet(kvs, o)
  BY <1>0, <1>1, <1>4, <1>6, KeepRefines, SameAnswers
<1>. QED
  BY <1>5, <1>6, Zenon DEF MSet

\* A value of another type comes or goes.
LEMMA OtherRefines ==
    ASSUME NEW k, At(k), NEW x, ~Live(k), other' = [other EXCEPT ![k] = x],
           UNCHANGED <<now, str, batch>>
    PROVE  \A j \in Keys : Held(j)' = IF j # k THEN Held(j)
                                      ELSE IF x # Absent /\ ~Passed(x)
                                      THEN [type |-> "other", exp |-> x]
                                      ELSE [type |-> "none"]
<1>1. DOMAIN other = Keys /\ k \in Keys /\ Pending = NoBatch /\ Pending' = NoBatch
  BY DEF At, Inv, TypeOK, Pending
<1>2. \A j \in Keys : /\ StrThen(j) = str[j] /\ OtherThen(j) = other[j]
                      /\ StrThen(j)' = str[j]
                      /\ OtherThen(j)' = IF j = k THEN x ELSE other[j]
  BY <1>1 DEF StrThen, OtherThen
<1>3. \A e : Passed(e)' <=> Passed(e)
  BY DEF Passed
<1>4. ASSUME NEW j \in Keys, j # k PROVE Held(j)' = Held(j)
  <2>1. /\ StrThen(j)' = StrThen(j) /\ OtherThen(j)' = OtherThen(j)
    BY <1>2, <1>4
  <2>. QED
    BY <2>1 DEF Held, Passed
<1>5. Held(k)' = IF x # Absent /\ ~Passed(x) THEN [type |-> "other", exp |-> x]
                 ELSE [type |-> "none"]
  <2>1. StrThen(k)' = str[k] /\ OtherThen(k)' = x /\ now' = now
    BY <1>1, <1>2
  <2>2. (Passed(StrThen(k).exp)' <=> Passed(str[k].exp)) /\ (Passed(OtherThen(k))' <=> Passed(x))
    BY <2>1 DEF Passed
  <2>3. ~(str[k] # Absent /\ ~Passed(str[k].exp))
    BY DEF Live
  <2>. QED
    BY <2>1, <2>2, <2>3, Zenon DEF Held
<1>. QED
  BY <1>4, <1>5

LEMMA PutOtherRefines ==
    ASSUME NEW k, At(k), NEW e \in Expiries, PutOther(Client, k, e)
    PROVE  Abstract!PutOther(k, e)
<1>0. StringsAssumption /\ Shaped /\ k \in Keys /\ batch[Client] = NoBatch /\ Client \in Procs
  BY DEF At, Inv
<1>1. e # Absent
  BY <1>0 DEF StringsAssumption
<1>2. Abstract!Alive(Abstract!Other(e), now) =
         IF ~Passed(e) THEN [type |-> "other", exp |-> e] ELSE [type |-> "none"]
  <2>1. Abstract!Other(e).type = "other" /\ Abstract!Other(e).exp = e
    BY DEF Abstract!Other
  <2>. QED
    BY <2>1 DEF Abstract!Alive, Abstract!Nothing, Abstract!Other, Passed
<1>3. /\ ~Live(k) /\ other' = [other EXCEPT ![k] = e] /\ UNCHANGED <<now, str, batch>>
      /\ reply'[Client] = Ok
  BY <1>0 DEF PutOther, Shaped
<1>4. [j \in Keys |-> Held(j)'] =
         [[j \in Keys |-> Held(j)] EXCEPT ![k] = Abstract!Alive(Abstract!Other(e), now)]
  <2>0. \A j \in Keys : Held(j)' = IF j # k THEN Held(j)
                                   ELSE IF e # Absent /\ ~Passed(e)
                                   THEN [type |-> "other", exp |-> e]
                                   ELSE [type |-> "none"]
    BY <1>3, OtherRefines
  <2>1. \A j \in Keys : Held(j)' = IF j # k THEN Held(j)
                                   ELSE Abstract!Alive(Abstract!Other(e), now)
    BY <1>1, <1>2, <2>0, Zenon
  <2>. QED
    BY <2>1
<1>5. ~Abstract!IsString(k)
  BY <1>0, <1>3, KindIs, RawIs
<1>. QED
  BY <1>3, <1>4, <1>5, SameAnswers DEF Abstract!PutOther, Abstract!Put

LEMMA DropOtherRefines ==
    ASSUME NEW k, At(k), DropOther(Client, k)
    PROVE  Abstract!DropOther(k)
<1>0. StringsAssumption /\ Shaped /\ k \in Keys /\ batch[Client] = NoBatch /\ Client \in Procs
  BY DEF At, Inv
<1>1. Abstract!Alive(Abstract!Nothing, now) = [type |-> "none"]
  BY DEF Abstract!Alive, Abstract!Nothing
<1>2. /\ ~Live(k) /\ OtherLive(k) /\ other' = [other EXCEPT ![k] = Absent]
      /\ UNCHANGED <<now, str, batch>> /\ reply'[Client] = Ok
  BY <1>0 DEF DropOther, Shaped
<1>3. [j \in Keys |-> Held(j)'] =
         [[j \in Keys |-> Held(j)] EXCEPT ![k] = Abstract!Alive(Abstract!Nothing, now)]
  <2>0. \A j \in Keys : Held(j)' = IF j # k THEN Held(j)
                                   ELSE IF Absent # Absent /\ ~Passed(Absent)
                                   THEN [type |-> "other", exp |-> Absent]
                                   ELSE [type |-> "none"]
    BY <1>2, OtherRefines
  <2>1. \A j \in Keys : Held(j)' = IF j # k THEN Held(j)
                                   ELSE Abstract!Alive(Abstract!Nothing, now)
    BY <1>1, <2>0, Zenon
  <2>. QED
    BY <2>1
<1>4. Abstract!IsOther(k)
  BY <1>0, <1>2, KindIs, RawIs
<1>. QED
  BY <1>2, <1>3, <1>4, SameAnswers DEF Abstract!DropOther, Abstract!Put

-----------------------------------------------------------------------------
(* The clock, the write that lands, and the whole.                         *)

\* As things will be when the write has landed, at most one of the two that
\* lie at a key is alive.
LEMMA ThenIs ==
    ASSUME StringsAssumption, Inv, Client \in Procs, NEW k \in Keys
    PROVE  /\ StrThen(k) # Absent => StrThen(k).exp \in Nat
           /\ OtherThen(k) # Absent => OtherThen(k) \in Nat
           /\ ~(/\ StrThen(k) # Absent /\ ~Passed(StrThen(k).exp)
                /\ OtherThen(k) # Absent /\ ~Passed(OtherThen(k)))
<1>1. /\ str[k] \in Rows \cup {Absent} /\ (other[k] # Absent => other[k] \in Nat)
      /\ Expiries \subseteq Nat
  BY DEF Inv, TypeOK, StringsAssumption
<1>2. \A row \in Rows : row.exp \in Nat
  BY <1>1 DEF Rows
<1>3. ~(Live(k) /\ OtherLive(k))
  BY DEF Inv, OneLive
<1>4. CASE Pending # NoBatch /\ k \in DOMAIN Pending.rows
  <2>1. PICK K \in SUBSET Keys : Pending \in BatchesOn(K)
    BY <1>4 DEF Pending, Inv, TypeOK
  <2>2. Pending.rows[k] \in Rows \cup {Absent}
    BY <1>4, <2>1 DEF BatchesOn
  <2>3. OtherLive(k) => k \in Pending.clean
    BY <1>4 DEF Pending, Inv, OneLive
  <2>4. StrThen(k) = Pending.rows[k]
    BY <1>4 DEF StrThen
  <2>5. OtherThen(k) = IF k \in Pending.clean THEN Absent ELSE other[k]
    BY <1>4 DEF OtherThen
  <2>. QED
    BY <1>1, <1>2, <2>2, <2>3, <2>4, <2>5 DEF OtherLive
<1>5. CASE ~(Pending # NoBatch /\ k \in DOMAIN Pending.rows)
  <2>1. StrThen(k) = str[k]
    BY <1>5, Zenon DEF StrThen
  <2>2. OtherThen(k) = Absent \/ OtherThen(k) = other[k]
    BY DEF OtherThen
  <2>. QED
    BY <1>1, <1>2, <1>3, <2>1, <2>2 DEF Live, OtherLive
<1>. QED
  BY <1>4, <1>5

LEMMA TickRefines ==
    ASSUME StringsAssumption, Inv, Client \in Procs, Tick
    PROVE  Abstract!Tick
<1>1. /\ now < MaxNow /\ now' = now + 1 /\ now \in Nat /\ now' \in Nat /\ now <= now'
      /\ UNCHANGED <<str, other, batch, asked, reply>>
  BY DEF Tick, Inv, TypeOK
<1>2. ASSUME NEW k \in Keys PROVE Held(k)' = Abstract!Alive(Held(k), now')
  <2>. DEFINE s == StrThen(k)
              o == OtherThen(k)
  <2>1. /\ s # Absent => s.exp \in Nat
        /\ o # Absent => o \in Nat
        /\ ~(s # Absent /\ ~Passed(s.exp) /\ o # Absent /\ ~Passed(o))
    BY <1>1, ThenIs
  <2>2. StrThen(k)' = s /\ OtherThen(k)' = o
    BY <1>1 DEF StrThen, OtherThen, Pending
  <2>3. Held(k) = IF s # Absent /\ ~Passed(s.exp)
                  THEN [type |-> "string", val |-> s.val, exp |-> s.exp]
                  ELSE IF o # Absent /\ ~Passed(o) THEN [type |-> "other", exp |-> o]
                  ELSE [type |-> "none"]
    BY Zenon DEF Held
  <2>4. \A e : Passed(e)' <=> e > 0 /\ e <= now'
    BY DEF Passed
  <2>5. Held(k)' = IF s # Absent /\ ~(s.exp > 0 /\ s.exp <= now')
                   THEN [type |-> "string", val |-> s.val, exp |-> s.exp]
                   ELSE IF o # Absent /\ ~(o > 0 /\ o <= now') THEN [type |-> "other", exp |-> o]
                   ELSE [type |-> "none"]
    BY <1>1, <2>2, Zenon DEF Held, Passed
  <2>. HIDE DEF s, o
  <2>6. \A e \in Nat : e > 0 /\ e <= now => e <= now'
    BY <1>1
  <2>7. CASE s # Absent /\ ~Passed(s.exp)
    <3>1. /\ Held(k) = [type |-> "string", val |-> s.val, exp |-> s.exp]
      BY <2>3, <2>7
    <3>2. ~(o # Absent /\ ~(o > 0 /\ o <= now'))
      BY <2>1, <2>6, <2>7 DEF Passed
    <3>3. Held(k).type # "none" /\ Held(k).exp = s.exp
      BY <3>1
    <3>. QED
      BY <2>5, <2>7, <3>1, <3>2, <3>3 DEF Abstract!Alive, Abstract!Nothing
  <2>8. CASE ~(s # Absent /\ ~Passed(s.exp)) /\ o # Absent /\ ~Passed(o)
    <3>1. Held(k) = [type |-> "other", exp |-> o]
      BY <2>3, <2>8
    <3>2. ~(s # Absent /\ ~(s.exp > 0 /\ s.exp <= now'))
      BY <2>1, <2>6, <2>8 DEF Passed
    <3>3. Held(k).type # "none" /\ Held(k).exp = o
      BY <3>1
    <3>. QED
      BY <2>5, <2>8, <3>1, <3>2, <3>3 DEF Abstract!Alive, Abstract!Nothing
  <2>9. CASE ~(s # Absent /\ ~Passed(s.exp)) /\ ~(o # Absent /\ ~Passed(o))
    <3>1. Held(k) = [type |-> "none"]
      BY <2>3, <2>9
    <3>2. ~(s # Absent /\ ~(s.exp > 0 /\ s.exp <= now')) /\ ~(o # Absent /\ ~(o > 0 /\ o <= now'))
      BY <2>1, <2>6, <2>9 DEF Passed
    <3>3. Held(k).type = "none"
      BY <3>1
    <3>. QED
      BY <2>5, <3>1, <3>2, <3>3 DEF Abstract!Alive
  <2>. QED
    BY <2>7, <2>8, <2>9
<1>. QED
  BY <1>1, <1>2 DEF Abstract!Tick

\* The batch that lands changes nothing that the client can see.
LEMMA WriteRefines ==
    ASSUME StringsAssumption, Inv, Client \in Procs, Write(Client)
    PROVE  UNCHANGED Abstract!vars
<1>1. /\ Pending # NoBatch /\ Pending' = NoBatch
      /\ UNCHANGED <<now, asked, reply>>
      /\ str' = [k \in Keys |-> IF k \in DOMAIN Pending.rows THEN Pending.rows[k] ELSE str[k]]
      /\ other' = [k \in Keys |-> IF k \in Pending.clean THEN Absent ELSE other[k]]
  BY DEF Write, Pending, Inv, Shaped
<1>2. ASSUME NEW k \in Keys PROVE Held(k)' = Held(k)
  <2>1. StrThen(k)' = str'[k] /\ OtherThen(k)' = other'[k]
    BY <1>1, Zenon DEF StrThen, OtherThen
  <2>2. StrThen(k) = str'[k] /\ OtherThen(k) = other'[k]
    BY <1>1 DEF StrThen, OtherThen
  <2>. QED
    BY <1>1, <2>1, <2>2 DEF Held, Passed
<1>. QED
  BY <1>1, <1>2 DEF Abstract!vars

LEMMA InitRefines ==
    ASSUME Client \in Procs, Init
    PROVE  Abstract!Init
<1>1. \A k \in Keys : Held(k) = Abstract!Nothing
  BY DEF Init, Held, StrThen, OtherThen, Pending, NoBatch, Abstract!Nothing
<1>. QED
  BY <1>1, SameAnswers DEF Init, Abstract!Init

LEMMA CallRefines ==
    ASSUME NEW k, At(k), -(MaxInt + 1) \notin Increments, Call(Client, k)
    PROVE  Abstract!Call(k)
<1>1. ASSUME NEW call, Asks(Client, call) PROVE asked'[Client] = call
  BY <1>1 DEF Asks, At, Inv, Shaped
<1>2. StringsAssumption /\ Increments \subseteq Int
  BY DEF At, StringsAssumption
<1>3. ASSUME NEW e \in Expiries, Asks(Client, <<"put other", k, e>>), PutOther(Client, k, e)
      PROVE  Abstract!Call(k)
  BY <1>1, <1>3, PutOtherRefines DEF Abstract!Call
<1>4. ASSUME NEW e \in Expiries, Asks(Client, <<"getex", k, e>>), GetEx(Client, k, e)
      PROVE  Abstract!Call(k)
  BY <1>1, <1>4, GetExRefines DEF Abstract!Call
<1>5. ASSUME Asks(Client, <<"drop other", k>>), DropOther(Client, k) PROVE Abstract!Call(k)
  BY <1>1, <1>5, DropOtherRefines DEF Abstract!Call
<1>6. ASSUME NEW v \in Values, NEW o \in SetOptions,
             Asks(Client, <<"set", k, v, o>>), Set(Client, k, v, o)
      PROVE  Abstract!Call(k)
  BY <1>1, <1>6, SetRefines DEF Abstract!Call
<1>7. ASSUME Asks(Client, <<"get", k>>), Get(Client, k) PROVE Abstract!Call(k)
  BY <1>1, <1>7, GetRefines DEF Abstract!Call
<1>8. ASSUME Asks(Client, <<"getdel", k>>), GetDel(Client, k) PROVE Abstract!Call(k)
  BY <1>1, <1>8, GetDelRefines DEF Abstract!Call
<1>9. ASSUME Asks(Client, <<"strlen", k>>), StrLen(Client, k) PROVE Abstract!Call(k)
  BY <1>1, <1>9, StrLenRefines DEF Abstract!Call
<1>10. ASSUME NEW os \in DelOptions, Asks(Client, <<"delex", k, os>>), DelEx(Client, k, os)
       PROVE  Abstract!Call(k)
  BY <1>1, <1>10, DelExRefines DEF Abstract!Call
<1>11. ASSUME NEW n \in Increments, Asks(Client, <<"incrby", k, n>>), IncrBy(Client, k, n)
       PROVE  Abstract!Call(k)
  BY <1>1, <1>2, <1>11, IncrByRefines DEF Abstract!Call
<1>12. ASSUME NEW n \in Increments, Asks(Client, <<"decrby", k, n>>), DecrBy(Client, k, n)
       PROVE  Abstract!Call(k)
  <2>1. n \in Int /\ n # -(MaxInt + 1)
    BY <1>2
  <2>2. asked'[Client] = <<"decrby", k, n>> /\ Abstract!IncrBy(k, -n)
    BY <1>1, <1>12, <2>1, DecrByRefines
  <2>. QED
    BY <2>2, Zenon DEF Abstract!Call
<1>13. ASSUME NEW v \in Values, Asks(Client, <<"append", k, v>>), AppendTo(Client, k, v)
       PROVE  Abstract!Call(k)
  BY <1>1, <1>13, AppendRefines DEF Abstract!Call
<1>14. ASSUME NEW v \in Values, Asks(Client, <<"cad", k, v>>), Cad(Client, k, v)
       PROVE  Abstract!Call(k)
  BY <1>1, <1>14, CadRefines DEF Abstract!Call
<1>15. ASSUME NEW off \in Offsets, NEW v \in Values,
              Asks(Client, <<"setrange", k, off, v>>), SetRange(Client, k, off, v)
       PROVE  Abstract!Call(k)
  BY <1>1, <1>15, SetRangeRefines DEF Abstract!Call
<1>16. ASSUME NEW r \in Ranges, Asks(Client, <<"getrange", k, r>>), GetRange(Client, k, r)
       PROVE  Abstract!Call(k)
  BY <1>1, <1>16, GetRangeRefines DEF Abstract!Call
<1>17. ASSUME NEW old \in Values, NEW v \in Values, NEW e \in Expiries,
              Asks(Client, <<"cas", k, old, v, e>>), Cas(Client, k, old, v, e)
       PROVE  Abstract!Call(k)
  BY <1>1, <1>17, CasRefines DEF Abstract!Call
<1>. QED
  BY <1>3, <1>4, <1>5, <1>6, <1>7, <1>8, <1>9, <1>10, <1>11, <1>12, <1>13, <1>14, <1>15,
     <1>16, <1>17, Zenon DEF Call

LEMMA CallMSetRefines ==
    ASSUME StringsAssumption, Inv, Client \in Procs, CallMSet(Client)
    PROVE  Abstract!Next
<1>1. PICK kvs \in Pairs, o \in MSetOptions :
         Asks(Client, <<"mset", kvs, o>>) /\ MSet(Client, kvs, o)
  BY DEF CallMSet
<1>2. asked'[Client] = <<"mset", kvs, o>>
  BY <1>1 DEF Asks, Inv, Shaped
<1>3. Abstract!MSet(kvs, o)
  BY <1>1, MSetRefines
<1>4. o \in {x \in SetOptions : ~x.get /\ x.cond \in {"none", "nx", "xx"}}
  BY DEF MSetOptions
<1>. QED
  BY <1>2, <1>3, <1>4, Zenon DEF Abstract!Next

\* A call begins only when the last one has returned.
LEMMA CallIdle ==
    ASSUME NEW k, Call(Client, k)
    PROVE  batch[Client] = NoBatch
<1>1. ASSUME NEW r, Answer(Client, r) PROVE batch[Client] = NoBatch
  BY <1>1 DEF Answer
<1>2. ASSUME NEW b, NEW r, Decide(Client, b, r) PROVE batch[Client] = NoBatch
  BY <1>2 DEF Decide
<1>3. ASSUME NEW n, IncrBy(Client, k, n) PROVE batch[Client] = NoBatch
  BY <1>1, <1>2, <1>3, Zenon DEF IncrBy
<1>4. ASSUME NEW v, NEW o, Set(Client, k, v, o) PROVE batch[Client] = NoBatch
  BY <1>1, <1>2, <1>4, Zenon DEF Set
<1>5. ASSUME NEW old, NEW row, Compare(Client, k, old, row) PROVE batch[Client] = NoBatch
  BY <1>1, <1>2, <1>5, Zenon DEF Compare
<1>6. ASSUME NEW e, GetEx(Client, k, e) PROVE batch[Client] = NoBatch
  BY <1>1, <1>2, <1>6, Zenon DEF GetEx
<1>7. ASSUME NEW os, GetDel(Client, k) \/ DelEx(Client, k, os) PROVE batch[Client] = NoBatch
  BY <1>1, <1>2, <1>7, Zenon DEF GetDel, DelEx
<1>8. ASSUME NEW r, Get(Client, k) \/ StrLen(Client, k) \/ GetRange(Client, k, r)
      PROVE  batch[Client] = NoBatch
  BY <1>1, <1>8, Zenon DEF Get, StrLen, GetRange
<1>9. ASSUME NEW off, NEW v, AppendTo(Client, k, v) \/ SetRange(Client, k, off, v)
      PROVE  batch[Client] = NoBatch
  BY <1>1, <1>2, <1>9, Zenon DEF AppendTo, SetRange, Rewrite
<1>10. ASSUME NEW e, PutOther(Client, k, e) \/ DropOther(Client, k) PROVE batch[Client] = NoBatch
  BY <1>10 DEF PutOther, DropOther
<1>. QED
  BY <1>3, <1>4, <1>5, <1>6, <1>7, <1>8, <1>9, <1>10, Zenon DEF Call, DecrBy, Cas, Cad

LEMMA StepRefines ==
    ASSUME StringsAssumption, Procs = {Client}, -(MaxInt + 1) \notin Increments, Inv, [Next]_vars
    PROVE  [Abstract!Next]_(Abstract!vars)
<1>1. Client \in Procs /\ Shaped
  BY DEF Inv
<1>2. CASE Tick
  BY <1>1, <1>2, TickRefines DEF Abstract!Next
<1>3. CASE Write(Client)
  BY <1>1, <1>3, WriteRefines
<1>4. CASE CallMSet(Client)
  BY <1>1, <1>4, CallMSetRefines
<1>5. ASSUME NEW k \in Keys, Call(Client, k) PROVE Abstract!Next
  <2>1. At(k)
    BY <1>1, <1>5, CallIdle DEF At
  <2>. QED
    BY <1>5, <2>1, CallRefines DEF Abstract!Next
<1>6. CASE UNCHANGED vars
  <2>1. \A k : Held(k)' = Held(k)
    BY <1>6 DEF vars, Held, StrThen, OtherThen, Pending, Passed
  <2>. QED
    BY <1>6, <2>1 DEF vars, Abstract!vars
<1>. QED
  BY <1>2, <1>3, <1>4, <1>5, <1>6 DEF Next

(* To one client every string command is the plain operation of             *)
(* RedisStrings at the moment of its read: no row that is dead or shadowed, *)
(* no header left beside it and no clock that moves before the batch lands  *)
(* shows in an answer or in what the keys hold.  DECRBY of the least        *)
(* integer wraps (decrby) and is excluded.                                  *)
THEOREM CommandsImplementRedisStrings ==
    ASSUME StringsAssumption, Procs = {Client}, -(MaxInt + 1) \notin Increments
    PROVE  Spec => ImplementsRedisStrings
<1>1. Init => Abstract!Init
  BY InitRefines
<1>2. Inv /\ [Next]_vars => [Abstract!Next]_(Abstract!vars)
  BY StepRefines
<1>. QED
  BY <1>1, <1>2, Invariance, PTL DEF Spec, ImplementsRedisStrings

-----------------------------------------------------------------------------
(* Hashes, for any fields, values, clock bound and lists.  The invariant   *)
(* says of a live record what readers rely on (it counts the rows that     *)
(* never expire, no fewer rows than there are, and bounds the expiries of  *)
(* the others) and what makes HLEN exact although it answers from the      *)
(* record: the record counts a row too many only when its lower bound has  *)
(* already passed.                                                         *)
(*                                                                         *)
(* A command of many fields is followed view by view: after i fields the   *)
(* view is sound and shows what the abstract hash would hold, and the      *)
(* answers so far are those of the first i.                                *)

CONSTANTS
    Fields, MaxVal, HashPairs, Lists,   \* as in RedisHashes
    MaxSize                             \* HSETEX stops when the record counts more
VARIABLES
    meta, row, ret                      \* the record, the rows and the answer

Hash == INSTANCE HashStore WITH Pairs <- HashPairs

Sizes(S) == Cardinality(S)
Rowed(r) == {f \in Fields : r[f] # Absent}
Lasting(r) == {f \in Fields : r[f] # Absent /\ r[f].exp = 0}

\* The bounds of m hold the expiries of r's rows.
Bounding(m, r) ==
    \A f \in Fields : r[f] # Absent /\ r[f].exp # 0 =>
        m.lower # 0 /\ m.lower <= r[f].exp /\ r[f].exp <= m.upper

\* The record m says of the rows r what it should.
CountsOf(m, r) ==
    /\ m.size >= Cardinality(Rowed(r))
    /\ m.persist = Cardinality(Lasting(r))
    /\ Bounding(m, r)
    /\ m.size = Cardinality(Rowed(r)) \/ (m.lower # 0 /\ m.lower <= now)

HashRows == [Fields -> Hash!Cells \cup {Absent}]
Views == [meta : Hash!Metas, row : HashRows, out : Seq(Int \cup {Absent})]
Sound(h) == h \in Views /\ CountsOf(h.meta, h.row)

LEMMA HashCardinality == \A S : Hash!Cardinality(S) = Cardinality(S)
BY Zenon DEF Hash!Cardinality, Hash!IsFiniteSet, Cardinality, IsFiniteSet

\* The constants and the clock.
HashContext == Hash!HashAssumption /\ now \in Nat

LEMMA HashAssumed ==
    ASSUME HashContext
    PROVE  /\ now \in Nat /\ MaxVal \in Nat \ {0} /\ MaxNow \in Nat \ {0} /\ MaxSize \in Nat
           /\ IsFiniteSet(Fields) /\ Absent \notin Hash!Metas /\ Absent \notin Hash!Cells
<1>1. IsFiniteSet(Fields)
  BY Zenon DEF HashContext, Hash!HashAssumption, Hash!IsFiniteSet, IsFiniteSet
<1>. QED
  BY <1>1 DEF HashContext, Hash!HashAssumption

LEMMA CellIs ==
    ASSUME HashContext, NEW r \in HashRows, NEW f \in Fields
    PROVE  /\ r[f] = Absent \/ (r[f] \in Hash!Cells /\ r[f].val \in 0 .. MaxVal /\ r[f].exp \in 0 .. MaxNow)
           /\ r[f] # Absent => r[f].exp \in Nat
           /\ \A v \in 0 .. MaxVal, at \in 0 .. MaxNow :
                 /\ [val |-> v, exp |-> at] \in Hash!Cells
                 /\ [val |-> v, exp |-> at] # Absent
<1>1. MaxNow \in Nat /\ Absent \notin Hash!Cells
  BY HashAssumed
<1>2. r[f] \in Hash!Cells \cup {Absent}
  BY DEF HashRows
<1>. QED
  BY <1>1, <1>2 DEF Hash!Cells

LEMMA MetaIs ==
    ASSUME NEW m \in Hash!Metas
    PROVE  /\ m.size \in Nat /\ m.persist \in Nat /\ m.lower \in Nat /\ m.upper \in Nat
           /\ m.lapsed \in BOOLEAN
BY DEF Hash!Metas

\* The rows are counted as finite sets.
LEMMA RowedIs ==
    ASSUME HashContext, NEW r \in HashRows
    PROVE  /\ IsFiniteSet(Rowed(r)) /\ IsFiniteSet(Lasting(r)) /\ Lasting(r) \subseteq Rowed(r)
           /\ Cardinality(Rowed(r)) \in Nat /\ Cardinality(Lasting(r)) \in Nat
           /\ Cardinality(Lasting(r)) <= Cardinality(Rowed(r))
           /\ Cardinality(Lasting(r)) = Cardinality(Rowed(r)) =>
                 \A f \in Fields : r[f] = Absent \/ r[f].exp = 0
           /\ Cardinality(Rowed(r)) = 0 => \A f \in Fields : r[f] = Absent
<1>1. Lasting(r) \subseteq Rowed(r) /\ Rowed(r) \subseteq Fields
  BY DEF Lasting, Rowed
<1>2. IsFiniteSet(Rowed(r)) /\ IsFiniteSet(Lasting(r))
  BY <1>1, HashAssumed, FS_Subset
<1>3. /\ Cardinality(Rowed(r)) \in Nat /\ Cardinality(Lasting(r)) \in Nat
      /\ Cardinality(Lasting(r)) <= Cardinality(Rowed(r))
      /\ Cardinality(Lasting(r)) = Cardinality(Rowed(r)) => Lasting(r) = Rowed(r)
      /\ Cardinality(Rowed(r)) = 0 => Rowed(r) = {}
  BY <1>1, <1>2, FS_Subset, FS_CardinalityType, FS_EmptySet
<1>4. Lasting(r) = Rowed(r) => \A f \in Fields : r[f] = Absent \/ r[f].exp = 0
  BY DEF Lasting, Rowed
<1>5. Rowed(r) = {} => \A f \in Fields : r[f] = Absent
  BY DEF Rowed
<1>. QED
  BY <1>1, <1>2, <1>3, <1>4, <1>5

\* The counts without one field.
LEMMA RowLeft ==
    ASSUME HashContext, NEW r \in HashRows, NEW f \in Fields
    PROVE  LET R == Rowed(r) \ {f}
               L == Lasting(r) \ {f}
           IN  /\ IsFiniteSet(R) /\ IsFiniteSet(L)
               /\ Cardinality(R) \in Nat /\ Cardinality(L) \in Nat /\ Cardinality(L) <= Cardinality(R)
               /\ Cardinality(R) = Cardinality(Rowed(r)) - (IF r[f] = Absent THEN 0 ELSE 1)
               /\ Cardinality(L) = Cardinality(Lasting(r))
                                      - (IF r[f] # Absent /\ r[f].exp = 0 THEN 1 ELSE 0)
<1>. DEFINE R == Rowed(r) \ {f}
            L == Lasting(r) \ {f}
<1>1. /\ f \in Rowed(r) <=> r[f] # Absent
      /\ f \in Lasting(r) <=> r[f] # Absent /\ r[f].exp = 0
  BY DEF Rowed, Lasting
<1>2. /\ IsFiniteSet(Rowed(r)) /\ IsFiniteSet(Lasting(r)) /\ Lasting(r) \subseteq Rowed(r)
      /\ Cardinality(Rowed(r)) \in Nat /\ Cardinality(Lasting(r)) \in Nat
  BY RowedIs
<1>3. /\ f \notin Rowed(r) => R = Rowed(r)
      /\ f \notin Lasting(r) => L = Lasting(r)
      /\ L \subseteq R
  BY <1>2
<1>4. f \in Rowed(r) => Cardinality(R) = Cardinality(Rowed(r)) - 1 /\ IsFiniteSet(R)
  BY <1>2, FS_RemoveElement
<1>5. f \in Lasting(r) => Cardinality(L) = Cardinality(Lasting(r)) - 1 /\ IsFiniteSet(L)
  BY <1>2, FS_RemoveElement
<1>. HIDE DEF R, L
<1>6. IsFiniteSet(R) /\ IsFiniteSet(L)
  BY <1>2, <1>3, <1>4, <1>5
<1>7. /\ Cardinality(L) <= Cardinality(R) /\ Cardinality(R) \in Nat /\ Cardinality(L) \in Nat
  BY <1>3, <1>6, FS_Subset, FS_CardinalityType
<1>8. /\ Cardinality(R) = Cardinality(Rowed(r)) - (IF r[f] = Absent THEN 0 ELSE 1)
      /\ Cardinality(L) = Cardinality(Lasting(r)) - (IF r[f] # Absent /\ r[f].exp = 0 THEN 1 ELSE 0)
  BY <1>1, <1>2, <1>3, <1>4, <1>5
<1>. QED
  BY <1>6, <1>7, <1>8 DEF R, L

\* What writing one row does to them.
LEMMA RowChanges ==
    ASSUME HashContext, NEW r \in HashRows, NEW f \in Fields,
           NEW s \in HashRows, \A g \in Fields \ {f} : s[g] = r[g]
    PROVE  /\ Cardinality(Rowed(s)) = Cardinality(Rowed(r) \ {f}) + (IF s[f] = Absent THEN 0 ELSE 1)
           /\ Cardinality(Lasting(s)) = Cardinality(Lasting(r) \ {f})
                                           + (IF s[f] # Absent /\ s[f].exp = 0 THEN 1 ELSE 0)
<1>. DEFINE R == Rowed(r) \ {f}
            L == Lasting(r) \ {f}
<1>1. /\ Rowed(s) = IF s[f] = Absent THEN R ELSE R \cup {f}
      /\ Lasting(s) = IF s[f] # Absent /\ s[f].exp = 0 THEN L \cup {f} ELSE L
  BY DEF Rowed, Lasting
<1>2. IsFiniteSet(R) /\ IsFiniteSet(L) /\ Cardinality(R) \in Nat /\ Cardinality(L) \in Nat
  BY RowLeft
<1>3. f \notin R /\ f \notin L
  OBVIOUS
<1>. HIDE DEF R, L
<1>4. Cardinality(R \cup {f}) = Cardinality(R) + 1 /\ Cardinality(L \cup {f}) = Cardinality(L) + 1
  BY <1>2, <1>3, FS_AddElement
<1>. QED
  BY <1>1, <1>2, <1>4 DEF R, L

LEMMA Cleared ==
    ASSUME HashContext, NEW m \in Hash!Metas, NEW r \in HashRows
    PROVE  LET x == Hash!ClearBounds(m)
           IN  /\ x \in Hash!Metas /\ x.size = m.size /\ x.persist = m.persist
               /\ x.lapsed = m.lapsed
               /\ CountsOf(m, r) => CountsOf(x, r)
<1>. DEFINE x == Hash!ClearBounds(m)
<1>0. m.size \in Nat /\ m.persist \in Nat
  BY MetaIs
<1>1. /\ x \in Hash!Metas /\ x.size = m.size /\ x.persist = m.persist /\ x.lapsed = m.lapsed
      /\ m.size # m.persist => x = m
  BY DEF Hash!ClearBounds, Hash!Metas
<1>. HIDE DEF x
<1>2. ASSUME CountsOf(m, r) PROVE CountsOf(x, r)
  <2>1. CASE m.size # m.persist
    BY <1>1, <1>2, <2>1
  <2>2. CASE m.size = m.persist
    <3>1. Cardinality(Lasting(r)) = Cardinality(Rowed(r)) /\ m.size = Cardinality(Rowed(r))
      BY <1>0, <1>2, <2>2, RowedIs DEF CountsOf
    <3>2. Bounding(x, r)
      BY <3>1, RowedIs DEF Bounding
    <3>. QED
      BY <1>1, <1>2, <3>1, <3>2 DEF CountsOf
  <2>. QED
    BY <2>1, <2>2
<1>. QED
  BY <1>1, <1>2 DEF x

LEMMA Expanded ==
    ASSUME HashContext, NEW m \in Hash!Metas, NEW r \in HashRows, CountsOf(m, r),
           NEW at \in 1 .. MaxNow
    PROVE  LET x == Hash!Expand(m, at)
           IN  /\ x \in Hash!Metas /\ x.size = m.size /\ x.persist = m.persist
               /\ x.lapsed = m.lapsed /\ Bounding(x, r)
               /\ x.lower # 0 /\ x.lower <= at /\ at <= x.upper
               /\ m.size = Cardinality(Rowed(r)) \/ x.lower <= now
               /\ m.lower # 0 /\ m.size # m.persist => x.lower <= m.lower
<1>. DEFINE x == Hash!Expand(m, at)
<1>0. /\ m.size \in Nat /\ m.persist \in Nat /\ m.lower \in Nat /\ m.upper \in Nat
      /\ at \in Nat /\ at # 0
  <2>1. m.size \in Nat /\ m.persist \in Nat /\ m.lower \in Nat /\ m.upper \in Nat
    BY MetaIs
  <2>2. MaxNow \in Nat
    BY HashAssumed
  <2>. QED
    BY <2>1, <2>2
<1>1. CASE m.size = m.persist
  <2>1. x = [m EXCEPT !.lower = at, !.upper = at]
    BY <1>0, <1>1 DEF Hash!Expand
  <2>. HIDE DEF x
  <2>2. /\ x \in Hash!Metas /\ x.size = m.size /\ x.persist = m.persist /\ x.lapsed = m.lapsed
        /\ x.lower = at /\ x.upper = at
    BY <1>0, <2>1 DEF Hash!Metas
  <2>3. Cardinality(Lasting(r)) = Cardinality(Rowed(r)) /\ m.size = Cardinality(Rowed(r))
    BY <1>0, <1>1, RowedIs DEF CountsOf
  <2>4. Bounding(x, r)
    BY <2>3, RowedIs DEF Bounding
  <2>. QED
    BY <1>0, <1>1, <2>2, <2>3, <2>4 DEF x
<1>2. CASE m.size # m.persist
  <2>. DEFINE low == IF m.lower = 0 \/ at < m.lower THEN at ELSE m.lower
              up == IF m.upper < at THEN at ELSE m.upper
  <2>1. x = [m EXCEPT !.lower = low, !.upper = up]
    BY <1>0, <1>2 DEF Hash!Expand
  <2>2. low \in Nat /\ up \in Nat /\ low # 0 /\ low <= at /\ at <= up
        /\ (m.lower # 0 => low <= m.lower) /\ m.upper <= up
    BY <1>0
  <2>. HIDE DEF x, low, up
  <2>3. /\ x \in Hash!Metas /\ x.size = m.size /\ x.persist = m.persist /\ x.lapsed = m.lapsed
        /\ x.lower = low /\ x.upper = up
    BY <2>1, <2>2 DEF Hash!Metas
  <2>4. ASSUME NEW f \in Fields, r[f] # Absent, r[f].exp # 0
        PROVE  x.lower # 0 /\ x.lower <= r[f].exp /\ r[f].exp <= x.upper
    <3>1. m.lower # 0 /\ m.lower <= r[f].exp /\ r[f].exp <= m.upper /\ r[f].exp \in Nat
      BY <2>4, CellIs DEF CountsOf, Bounding
    <3>. QED
      BY <1>0, <2>2, <2>3, <3>1
  <2>5. Bounding(x, r)
    BY <2>4 DEF Bounding
  <2>6. m.size = Cardinality(Rowed(r)) \/ low <= now
    <3>1. m.size = Cardinality(Rowed(r)) \/ (m.lower # 0 /\ m.lower <= now)
      BY DEF CountsOf
    <3>2. now \in Nat
      BY HashAssumed
    <3>. QED
      BY <1>0, <2>2, <3>1, <3>2
  <2>. QED
    BY <2>2, <2>3, <2>5, <2>6 DEF x
<1>. QED
  BY <1>1, <1>2

\* A record with the right counts and bounds for one row changed.
LEMMA CountsAfter ==
    ASSUME HashContext, NEW r \in HashRows, NEW f \in Fields,
           NEW c \in Hash!Cells \cup {Absent}, NEW x \in Hash!Metas,
           x.size >= Cardinality(Rowed(r) \ {f}) + (IF c = Absent THEN 0 ELSE 1),
           x.persist = Cardinality(Lasting(r) \ {f}) + (IF c # Absent /\ c.exp = 0 THEN 1 ELSE 0),
           Bounding(x, r),
           c # Absent /\ c.exp # 0 => x.lower # 0 /\ x.lower <= c.exp /\ c.exp <= x.upper,
           \/ x.size = Cardinality(Rowed(r) \ {f}) + (IF c = Absent THEN 0 ELSE 1)
           \/ x.lower # 0 /\ x.lower <= now
    PROVE  CountsOf(x, [r EXCEPT ![f] = c]) /\ [r EXCEPT ![f] = c] \in HashRows
<1>. DEFINE s == [r EXCEPT ![f] = c]
<1>1. s \in HashRows /\ s[f] = c /\ \A g \in Fields \ {f} : s[g] = r[g]
  BY DEF HashRows
<1>. HIDE DEF s
<1>2. /\ Cardinality(Rowed(s)) = Cardinality(Rowed(r) \ {f}) + (IF s[f] = Absent THEN 0 ELSE 1)
      /\ Cardinality(Lasting(s)) = Cardinality(Lasting(r) \ {f})
                                      + (IF s[f] # Absent /\ s[f].exp = 0 THEN 1 ELSE 0)
  BY <1>1, RowChanges
<1>3. ASSUME NEW g \in Fields, s[g] # Absent, s[g].exp # 0
      PROVE  x.lower # 0 /\ x.lower <= s[g].exp /\ s[g].exp <= x.upper
  BY <1>1, <1>3 DEF Bounding
<1>. QED
  BY <1>1, <1>3, <1>2 DEF CountsOf, Bounding, s

\* The transitions of HashMeta, each beside the row it goes with.
Moved(m, r, f, x, c) ==
    /\ x \in Hash!Metas /\ x.lapsed = m.lapsed
    /\ [r EXCEPT ![f] = c] \in HashRows /\ CountsOf(x, [r EXCEPT ![f] = c])
Cell(v, at) == [val |-> v, exp |-> at]

LEMMA MissingMoves ==
    ASSUME HashContext, NEW m \in Hash!Metas, NEW r \in HashRows, CountsOf(m, r),
           NEW f \in Fields, NEW v \in 0 .. MaxVal,
           r[f] = Absent \/ (r[f].exp # 0 /\ r[f].exp <= now)
    PROVE  /\ Moved(m, r, f, Hash!MissingToPersistent(m), Cell(v, 0))
           /\ \A at \in 1 .. MaxNow : Moved(m, r, f, Hash!MissingToTTL(m, at), Cell(v, at))
<1>. DEFINE R == Rowed(r) \ {f}
            L == Lasting(r) \ {f}
<1>1. /\ m.size \in Nat /\ m.persist \in Nat /\ MaxNow \in Nat
  BY MetaIs, HashAssumed
<1>2. /\ m.size >= Cardinality(R) /\ m.persist = Cardinality(L)
      /\ Cardinality(R) \in Nat /\ Cardinality(L) \in Nat
      /\ m.size = Cardinality(R) \/ (m.size # m.persist /\ m.lower # 0 /\ m.lower <= now)
  <2>1. /\ Cardinality(R) \in Nat /\ Cardinality(L) \in Nat
        /\ Cardinality(R) = Cardinality(Rowed(r)) - (IF r[f] = Absent THEN 0 ELSE 1)
        /\ Cardinality(L) = Cardinality(Lasting(r))
                               - (IF r[f] # Absent /\ r[f].exp = 0 THEN 1 ELSE 0)
    BY RowLeft
  <2>2. /\ m.size >= Cardinality(Rowed(r)) /\ m.persist = Cardinality(Lasting(r))
        /\ m.size = Cardinality(Rowed(r)) \/ (m.lower # 0 /\ m.lower <= now)
    BY DEF CountsOf
  <2>3. /\ Cardinality(Rowed(r)) \in Nat /\ Cardinality(Lasting(r)) \in Nat
        /\ Cardinality(Lasting(r)) <= Cardinality(Rowed(r))
    BY RowedIs
  <2>4. r[f] # Absent => m.lower # 0 /\ m.lower <= now
    <3>1. ASSUME r[f] # Absent PROVE m.lower # 0 /\ m.lower <= now
      <4>1. m.lower # 0 /\ m.lower <= r[f].exp /\ r[f].exp <= now
        BY <3>1 DEF CountsOf, Bounding
      <4>2. m.lower \in Nat /\ r[f].exp \in Nat /\ now \in Nat
        BY <3>1, MetaIs, CellIs, HashAssumed
      <4>. QED
        BY <4>1, <4>2
    <3>. QED
      BY <3>1
  <2>. HIDE DEF R, L
  <2>5. CASE r[f] = Absent
    <3>1. Cardinality(R) = Cardinality(Rowed(r)) /\ Cardinality(L) = Cardinality(Lasting(r))
      BY <2>1, <2>3, <2>5
    <3>. QED
      BY <1>1, <2>2, <2>3, <3>1
  <2>6. CASE r[f] # Absent
    <3>1. Cardinality(R) = Cardinality(Rowed(r)) - 1 /\ Cardinality(L) = Cardinality(Lasting(r))
      BY <2>1, <2>3, <2>6
    <3>2. Cardinality(L) <= Cardinality(R)
      BY RowLeft DEF R, L
    <3>. QED
      BY <1>1, <2>1, <2>2, <2>3, <2>4, <2>6, <3>1, <3>2
  <2>. QED
    BY <2>5, <2>6
<1>. HIDE DEF R, L
<1>3. Moved(m, r, f, Hash!MissingToPersistent(m), Cell(v, 0))
  <2>. DEFINE n == m.size + 1
              k == m.persist + 1
              y == [m EXCEPT !.size = n, !.persist = k]
              c == Cell(v, 0)
  <2>1. Hash!MissingToPersistent(m) = Hash!ClearBounds(y)
    BY DEF Hash!MissingToPersistent
  <2>2. /\ y \in Hash!Metas /\ y.size = m.size + 1 /\ y.persist = m.persist + 1
        /\ y.lapsed = m.lapsed /\ y.lower = m.lower /\ y.upper = m.upper
    <3>1. n \in Nat /\ k \in Nat
      BY <1>1
    <3>. HIDE DEF n, k
    <3>2. /\ y \in Hash!Metas /\ y.size = n /\ y.persist = k
          /\ y.lapsed = m.lapsed /\ y.lower = m.lower /\ y.upper = m.upper
      BY <3>1 DEF Hash!Metas
    <3>. QED
      BY <3>2 DEF n, k
  <2>3. c \in Hash!Cells /\ c # Absent /\ c.exp = 0
    BY <1>1, CellIs DEF Cell
  <2>. HIDE DEF y, c
  <2>4. /\ y.size >= Cardinality(R) + 1 /\ y.persist = Cardinality(L) + 1
        /\ y.size = Cardinality(R) + 1 \/ (y.lower # 0 /\ y.lower <= now)
    BY <1>1, <1>2, <2>2
  <2>5. Bounding(y, r)
    BY <2>2 DEF CountsOf, Bounding
  <2>6. CountsOf(y, [r EXCEPT ![f] = c]) /\ [r EXCEPT ![f] = c] \in HashRows
    BY <2>2, <2>3, <2>4, <2>5, CountsAfter DEF R, L
  <2>7. LET x == Hash!ClearBounds(y)
        IN  x \in Hash!Metas /\ x.lapsed = m.lapsed /\ CountsOf(x, [r EXCEPT ![f] = c])
    BY <2>2, <2>6, Cleared
  <2>. QED
    BY <2>1, <2>6, <2>7 DEF Moved, c
<1>4. ASSUME NEW at \in 1 .. MaxNow
      PROVE  Moved(m, r, f, Hash!MissingToTTL(m, at), Cell(v, at))
  <2>. DEFINE x == Hash!Expand(m, at)
              y == [x EXCEPT !.size = x.size + 1]
              c == Cell(v, at)
  <2>1. Hash!MissingToTTL(m, at) = y
    BY DEF Hash!MissingToTTL
  <2>2. /\ x \in Hash!Metas /\ x.size = m.size /\ x.persist = m.persist
        /\ x.lapsed = m.lapsed /\ Bounding(x, r)
        /\ x.lower # 0 /\ x.lower <= at /\ at <= x.upper
        /\ m.lower # 0 /\ m.size # m.persist => x.lower <= m.lower
    BY Expanded
  <2>. HIDE DEF x
  <2>3. /\ y \in Hash!Metas /\ y.size = m.size + 1 /\ y.persist = m.persist
        /\ y.lapsed = m.lapsed /\ y.lower = x.lower /\ y.upper = x.upper
    BY <1>1, <2>2 DEF Hash!Metas
  <2>4. c \in Hash!Cells /\ c # Absent /\ c.exp = at /\ c.exp # 0
    BY <1>1, CellIs DEF Cell
  <2>. HIDE DEF y, c
  <2>5. /\ y.size >= Cardinality(R) + 1 /\ y.persist = Cardinality(L) + 0
        /\ y.size = Cardinality(R) + 1 \/ (y.lower # 0 /\ y.lower <= now)
    <3>1. m.lower \in Nat /\ x.lower \in Nat /\ now \in Nat
      BY <2>2, MetaIs, HashAssumed
    <3>. QED
      BY <1>1, <1>2, <2>2, <2>3, <3>1
  <2>6. Bounding(y, r)
    BY <2>2, <2>3 DEF Bounding
  <2>7. CountsOf(y, [r EXCEPT ![f] = c]) /\ [r EXCEPT ![f] = c] \in HashRows
    BY <2>2, <2>3, <2>4, <2>5, <2>6, CountsAfter DEF R, L
  <2>. QED
    BY <2>1, <2>3, <2>7 DEF Moved, c
<1>. QED
  BY <1>3, <1>4

\* The counts of a sound record, without one of its fields.
LEMMA CountsWithout ==
    ASSUME HashContext, NEW m \in Hash!Metas, NEW r \in HashRows, CountsOf(m, r),
           NEW f \in Fields, r[f] # Absent
    PROVE  /\ m.size \in Nat /\ m.persist \in Nat /\ MaxNow \in Nat
           /\ Cardinality(Rowed(r) \ {f}) \in Nat /\ Cardinality(Lasting(r) \ {f}) \in Nat
           /\ Cardinality(Lasting(r) \ {f}) <= Cardinality(Rowed(r) \ {f})
           /\ m.size >= Cardinality(Rowed(r) \ {f}) + 1
           /\ r[f].exp = 0 => m.persist = Cardinality(Lasting(r) \ {f}) + 1
           /\ r[f].exp # 0 => m.persist = Cardinality(Lasting(r) \ {f})
           /\ \/ m.size = Cardinality(Rowed(r) \ {f}) + 1
              \/ m.lower # 0 /\ m.lower <= now
<1>. DEFINE R == Rowed(r) \ {f}
            L == Lasting(r) \ {f}
<1>1. /\ m.size \in Nat /\ m.persist \in Nat /\ MaxNow \in Nat
  BY MetaIs, HashAssumed
<1>2. /\ Cardinality(R) \in Nat /\ Cardinality(L) \in Nat /\ Cardinality(L) <= Cardinality(R)
      /\ Cardinality(R) = Cardinality(Rowed(r)) - (IF r[f] = Absent THEN 0 ELSE 1)
      /\ Cardinality(L) = Cardinality(Lasting(r))
                             - (IF r[f] # Absent /\ r[f].exp = 0 THEN 1 ELSE 0)
  BY RowLeft
<1>3. /\ m.size >= Cardinality(Rowed(r)) /\ m.persist = Cardinality(Lasting(r))
      /\ m.size = Cardinality(Rowed(r)) \/ (m.lower # 0 /\ m.lower <= now)
  BY DEF CountsOf
<1>4. Cardinality(Rowed(r)) \in Nat /\ Cardinality(Lasting(r)) \in Nat
  BY RowedIs
<1>. HIDE DEF R, L
<1>. QED
  BY <1>1, <1>2, <1>3, <1>4 DEF R, L

LEMMA LastingMoves ==
    ASSUME HashContext, NEW m \in Hash!Metas, NEW r \in HashRows, CountsOf(m, r),
           NEW f \in Fields, NEW v \in 0 .. MaxVal, r[f] # Absent, r[f].exp = 0
    PROVE  /\ Moved(m, r, f, m, Cell(v, 0))
           /\ \A at \in 1 .. MaxNow : Moved(m, r, f, Hash!PersistentToTTL(m, at), Cell(v, at))
           /\ Moved(m, r, f, Hash!PersistentToDeleted(m), Absent)
<1>. DEFINE R == Rowed(r) \ {f}
            L == Lasting(r) \ {f}
<1>1. /\ m.size \in Nat /\ m.persist \in Nat /\ MaxNow \in Nat
      /\ Cardinality(R) \in Nat /\ Cardinality(L) \in Nat
      /\ m.size >= Cardinality(R) + 1 /\ m.persist = Cardinality(L) + 1
      /\ m.size = Cardinality(R) + 1 \/ (m.lower # 0 /\ m.lower <= now)
  BY CountsWithout
<1>. HIDE DEF R, L
<1>2. Bounding(m, r)
  BY DEF CountsOf
<1>3. m.size = Cardinality(Rowed(r)) => m.size = Cardinality(R) + 1
  <2>1. Cardinality(Rowed(r)) \in Nat
    BY RowedIs
  <2>2. Cardinality(R) = Cardinality(Rowed(r)) - (IF r[f] = Absent THEN 0 ELSE 1)
    BY RowLeft DEF R
  <2>. QED
    BY <1>1, <2>1, <2>2
<1>4. Moved(m, r, f, m, Cell(v, 0))
  <2>. DEFINE c == Cell(v, 0)
  <2>1. c \in Hash!Cells /\ c # Absent /\ c.exp = 0
    BY <1>1, CellIs DEF Cell
  <2>. HIDE DEF c
  <2>2. CountsOf(m, [r EXCEPT ![f] = c]) /\ [r EXCEPT ![f] = c] \in HashRows
    BY <1>1, <1>2, <2>1, CountsAfter DEF R, L
  <2>. QED
    BY <2>2 DEF Moved, c
<1>5. ASSUME NEW at \in 1 .. MaxNow
      PROVE  Moved(m, r, f, Hash!PersistentToTTL(m, at), Cell(v, at))
  <2>. DEFINE x == Hash!Expand(m, at)
              n == m.persist - 1
              y == [x EXCEPT !.persist = n]
              c == Cell(v, at)
  <2>1. n \in Nat
    BY <1>1
  <2>2. /\ x \in Hash!Metas /\ x.size = m.size /\ x.persist = m.persist
        /\ x.lapsed = m.lapsed /\ Bounding(x, r)
        /\ x.lower # 0 /\ x.lower <= at /\ at <= x.upper
        /\ m.size = Cardinality(Rowed(r)) \/ x.lower <= now
    BY Expanded
  <2>. HIDE DEF x
  <2>3. Hash!PersistentToTTL(m, at) = y
    BY <1>1, <2>2 DEF Hash!PersistentToTTL, Hash!Less, x
  <2>4. /\ y \in Hash!Metas /\ y.size = m.size /\ y.persist = n
        /\ y.lapsed = m.lapsed /\ y.lower = x.lower /\ y.upper = x.upper
    <3>. HIDE DEF n
    <3>. QED
      BY <2>1, <2>2 DEF Hash!Metas
  <2>5. c \in Hash!Cells /\ c # Absent /\ c.exp = at /\ c.exp # 0
    BY <1>1, CellIs DEF Cell
  <2>. HIDE DEF y, c
  <2>6. /\ y.size >= Cardinality(R) + 1 /\ y.persist = Cardinality(L) + 0
        /\ y.size = Cardinality(R) + 1 \/ (y.lower # 0 /\ y.lower <= now)
    BY <1>1, <1>3, <2>2, <2>4
  <2>7. Bounding(y, r)
    BY <2>2, <2>4 DEF Bounding
  <2>8. CountsOf(y, [r EXCEPT ![f] = c]) /\ [r EXCEPT ![f] = c] \in HashRows
    BY <2>2, <2>4, <2>5, <2>6, <2>7, CountsAfter DEF R, L
  <2>. QED
    BY <2>3, <2>4, <2>8 DEF Moved, c
<1>6. Moved(m, r, f, Hash!PersistentToDeleted(m), Absent)
  <2>. DEFINE n == m.size - 1
              k == m.persist - 1
              y == [m EXCEPT !.size = n, !.persist = k]
  <2>1. n \in Nat /\ k \in Nat
    BY <1>1
  <2>2. Hash!PersistentToDeleted(m) = Hash!ClearBounds(y)
    <3>1. Hash!Less(m.size) = n /\ Hash!Less(m.persist) = k
      BY <1>1 DEF Hash!Less
    <3>. HIDE DEF n, k
    <3>. QED
      BY <3>1 DEF Hash!PersistentToDeleted
  <2>3. /\ y \in Hash!Metas /\ y.size = n /\ y.persist = k
        /\ y.lapsed = m.lapsed /\ y.lower = m.lower /\ y.upper = m.upper
    <3>. HIDE DEF n, k
    <3>. QED
      BY <2>1 DEF Hash!Metas
  <2>. HIDE DEF y
  <2>4. /\ y.size >= Cardinality(R) + 0 /\ y.persist = Cardinality(L) + 0
        /\ y.size = Cardinality(R) + 0 \/ (y.lower # 0 /\ y.lower <= now)
    BY <1>1, <2>3
  <2>5. Bounding(y, r)
    BY <1>2, <2>3 DEF Bounding
  <2>6. CountsOf(y, [r EXCEPT ![f] = Absent]) /\ [r EXCEPT ![f] = Absent] \in HashRows
    BY <2>3, <2>4, <2>5, CountsAfter DEF R, L
  <2>7. LET x == Hash!ClearBounds(y)
        IN  x \in Hash!Metas /\ x.lapsed = m.lapsed /\ CountsOf(x, [r EXCEPT ![f] = Absent])
    BY <2>3, <2>6, Cleared
  <2>. QED
    BY <2>2, <2>6, <2>7 DEF Moved
<1>. QED
  BY <1>4, <1>5, <1>6

LEMMA TimedMoves ==
    ASSUME HashContext, NEW m \in Hash!Metas, NEW r \in HashRows, CountsOf(m, r),
           NEW f \in Fields, NEW v \in 0 .. MaxVal, r[f] # Absent, r[f].exp # 0
    PROVE  /\ Moved(m, r, f, m, Cell(v, r[f].exp))
           /\ \A at \in 1 .. MaxNow : Moved(m, r, f, Hash!TTLToTTL(m, at), Cell(v, at))
           /\ Moved(m, r, f, Hash!TTLToPersistent(m), Cell(v, 0))
           /\ Moved(m, r, f, Hash!TTLToDeleted(m), Absent)
<1>. DEFINE R == Rowed(r) \ {f}
            L == Lasting(r) \ {f}
<1>1. /\ m.size \in Nat /\ m.persist \in Nat /\ MaxNow \in Nat
      /\ Cardinality(R) \in Nat /\ Cardinality(L) \in Nat /\ Cardinality(L) <= Cardinality(R)
      /\ m.size >= Cardinality(R) + 1 /\ m.persist = Cardinality(L)
      /\ m.size = Cardinality(R) + 1 \/ (m.lower # 0 /\ m.lower <= now)
  BY CountsWithout
<1>. HIDE DEF R, L
<1>2. /\ Bounding(m, r)
      /\ m.lower # 0 /\ m.lower <= r[f].exp /\ r[f].exp <= m.upper
  BY DEF CountsOf, Bounding
<1>3. m.size = Cardinality(Rowed(r)) => m.size = Cardinality(R) + 1
  <2>1. Cardinality(Rowed(r)) \in Nat
    BY RowedIs
  <2>2. Cardinality(R) = Cardinality(Rowed(r)) - (IF r[f] = Absent THEN 0 ELSE 1)
    BY RowLeft DEF R
  <2>. QED
    BY <1>1, <2>1, <2>2
<1>4. Moved(m, r, f, m, Cell(v, r[f].exp))
  <2>. DEFINE c == Cell(v, r[f].exp)
  <2>1. c \in Hash!Cells /\ c # Absent /\ c.exp = r[f].exp
    BY <1>1, CellIs DEF Cell
  <2>. HIDE DEF c
  <2>2. m.size >= Cardinality(R) + 1 /\ m.persist = Cardinality(L) + 0
    BY <1>1
  <2>3. CountsOf(m, [r EXCEPT ![f] = c]) /\ [r EXCEPT ![f] = c] \in HashRows
    BY <1>1, <1>2, <2>1, <2>2, CountsAfter DEF R, L
  <2>. QED
    BY <2>3 DEF Moved, c
<1>5. ASSUME NEW at \in 1 .. MaxNow
      PROVE  Moved(m, r, f, Hash!TTLToTTL(m, at), Cell(v, at))
  <2>. DEFINE x == Hash!Expand(m, at)
              c == Cell(v, at)
  <2>1. Hash!TTLToTTL(m, at) = x
    BY DEF Hash!TTLToTTL
  <2>2. /\ x \in Hash!Metas /\ x.size = m.size /\ x.persist = m.persist
        /\ x.lapsed = m.lapsed /\ Bounding(x, r)
        /\ x.lower # 0 /\ x.lower <= at /\ at <= x.upper
        /\ m.size = Cardinality(Rowed(r)) \/ x.lower <= now
    BY Expanded
  <2>3. c \in Hash!Cells /\ c # Absent /\ c.exp = at /\ c.exp # 0
    BY <1>1, CellIs DEF Cell
  <2>. HIDE DEF x, c
  <2>4. /\ x.size >= Cardinality(R) + 1 /\ x.persist = Cardinality(L) + 0
        /\ x.size = Cardinality(R) + 1 \/ (x.lower # 0 /\ x.lower <= now)
    BY <1>1, <1>3, <2>2
  <2>5. CountsOf(x, [r EXCEPT ![f] = c]) /\ [r EXCEPT ![f] = c] \in HashRows
    BY <2>2, <2>3, <2>4, CountsAfter DEF R, L
  <2>. QED
    BY <2>1, <2>2, <2>5 DEF Moved, c
<1>6. Moved(m, r, f, Hash!TTLToPersistent(m), Cell(v, 0))
  <2>. DEFINE k == m.persist + 1
              y == [m EXCEPT !.persist = k]
              c == Cell(v, 0)
  <2>1. k \in Nat /\ (IF m.persist + 1 < m.size THEN m.persist + 1 ELSE m.size) = k
    BY <1>1
  <2>2. Hash!TTLToPersistent(m) = Hash!ClearBounds(y)
    BY <2>1 DEF Hash!TTLToPersistent
  <2>3. /\ y \in Hash!Metas /\ y.size = m.size /\ y.persist = k
        /\ y.lapsed = m.lapsed /\ y.lower = m.lower /\ y.upper = m.upper
    <3>. HIDE DEF k
    <3>. QED
      BY <2>1 DEF Hash!Metas
  <2>4. c \in Hash!Cells /\ c # Absent /\ c.exp = 0
    BY <1>1, CellIs DEF Cell
  <2>. HIDE DEF y, c
  <2>5. /\ y.size >= Cardinality(R) + 1 /\ y.persist = Cardinality(L) + 1
        /\ y.size = Cardinality(R) + 1 \/ (y.lower # 0 /\ y.lower <= now)
    BY <1>1, <2>3
  <2>6. Bounding(y, r)
    BY <1>2, <2>3 DEF Bounding
  <2>7. CountsOf(y, [r EXCEPT ![f] = c]) /\ [r EXCEPT ![f] = c] \in HashRows
    BY <2>3, <2>4, <2>5, <2>6, CountsAfter DEF R, L
  <2>8. LET x == Hash!ClearBounds(y)
        IN  x \in Hash!Metas /\ x.lapsed = m.lapsed /\ CountsOf(x, [r EXCEPT ![f] = c])
    BY <2>3, <2>7, Cleared
  <2>. QED
    BY <2>2, <2>7, <2>8 DEF Moved, c
<1>7. Moved(m, r, f, Hash!TTLToDeleted(m), Absent)
  <2>. DEFINE n == m.size - 1
              y == [m EXCEPT !.size = n, !.persist = m.persist]
  <2>1. n \in Nat /\ Hash!Less(m.size) = n /\ ~(m.persist > n)
    BY <1>1 DEF Hash!Less
  <2>2. Hash!TTLToDeleted(m) = Hash!ClearBounds(y)
    <3>. HIDE DEF n
    <3>. QED
      BY <2>1 DEF Hash!TTLToDeleted
  <2>3. /\ y \in Hash!Metas /\ y.size = n /\ y.persist = m.persist
        /\ y.lapsed = m.lapsed /\ y.lower = m.lower /\ y.upper = m.upper
    <3>. HIDE DEF n
    <3>. QED
      BY <1>1, <2>1 DEF Hash!Metas
  <2>. HIDE DEF y
  <2>4. /\ y.size >= Cardinality(R) + 0 /\ y.persist = Cardinality(L) + 0
        /\ y.size = Cardinality(R) + 0 \/ (y.lower # 0 /\ y.lower <= now)
    BY <1>1, <2>3
  <2>5. Bounding(y, r)
    BY <1>2, <2>3 DEF Bounding
  <2>6. CountsOf(y, [r EXCEPT ![f] = Absent]) /\ [r EXCEPT ![f] = Absent] \in HashRows
    BY <2>3, <2>4, <2>5, CountsAfter DEF R, L
  <2>7. LET x == Hash!ClearBounds(y)
        IN  x \in Hash!Metas /\ x.lapsed = m.lapsed /\ CountsOf(x, [r EXCEPT ![f] = Absent])
    BY <2>3, <2>6, Cleared
  <2>. QED
    BY <2>2, <2>6, <2>7 DEF Moved
<1>. QED
  BY <1>4, <1>5, <1>6, <1>7

LEMMA ViewIs ==
    ASSUME NEW h \in Views
    PROVE  /\ h.meta \in Hash!Metas /\ h.row \in HashRows /\ h.out \in Seq(Int \cup {Absent})
           /\ h = [meta |-> h.meta, row |-> h.row, out |-> h.out]
BY DEF Views

LEMMA ViewOf ==
    ASSUME NEW m \in Hash!Metas, NEW r \in HashRows, NEW s \in Seq(Int \cup {Absent})
    PROVE  LET h == [meta |-> m, row |-> r, out |-> s]
           IN  h \in Views /\ h.meta = m /\ h.row = r /\ h.out = s
BY DEF Views

\* h' is h with m for its record, c at field f and s for its answers.
Becomes(h, g, f, c, s) ==
    /\ Sound(g) /\ g.meta.lapsed = h.meta.lapsed
    /\ g.row = [h.row EXCEPT ![f] = c] /\ g.out = s

LEMMA PutBecomes ==
    ASSUME NEW h \in Views, NEW f \in Fields, NEW v, NEW at, NEW x,
           Moved(h.meta, h.row, f, x, Cell(v, at))
    PROVE  Becomes(h, Hash!Put(Hash!With(h, x), f, v, at), f, Cell(v, at), h.out)
<1>. DEFINE g == Hash!Put(Hash!With(h, x), f, v, at)
            r == [h.row EXCEPT ![f] = Cell(v, at)]
<1>1. g = [meta |-> x, row |-> r, out |-> h.out]
  <2>. DEFINE m == h.meta
              q == h.row
              t == h.out
  <2>1. h = [meta |-> m, row |-> q, out |-> t]
    BY ViewIs
  <2>. HIDE DEF m, q, t
  <2>. DEFINE w == Hash!With(h, x)
              c == Cell(v, at)
              z == [q EXCEPT ![f] = c]
  <2>2. w = [meta |-> x, row |-> q, out |-> t]
    BY <2>1 DEF Hash!With
  <2>3. g = [w EXCEPT !.row[f] = c]
    BY DEF Hash!Put, Cell
  <2>. HIDE DEF g, w, c
  <2>4. g = [w EXCEPT !.row = z]
    BY <2>2, <2>3
  <2>5. r = z
    BY DEF q, c
  <2>. HIDE DEF z, r
  <2>6. g = [meta |-> x, row |-> z, out |-> t]
    BY <2>2, <2>4
  <2>. QED
    BY <2>5, <2>6 DEF t
<1>2. x \in Hash!Metas /\ x.lapsed = h.meta.lapsed /\ r \in HashRows /\ CountsOf(x, r)
  BY DEF Moved
<1>3. h.out \in Seq(Int \cup {Absent})
  BY ViewIs
<1>. HIDE DEF g, r
<1>4. g \in Views /\ g.meta = x /\ g.row = r /\ g.out = h.out
  BY <1>1, <1>2, <1>3, ViewOf
<1>. QED
  BY <1>2, <1>4 DEF Becomes, Sound, g, r

LEMMA AnswerIs ==
    ASSUME NEW h \in Views, NEW x \in Int \cup {Absent}
    PROVE  LET g == Hash!Answer(h, x)
           IN  /\ g \in Views /\ g.meta = h.meta /\ g.row = h.row /\ g.out = Append(h.out, x)
               /\ Sound(h) => Sound(g)
<1>. DEFINE g == Hash!Answer(h, x)
            s == Append(h.out, x)
<1>1. g = [meta |-> h.meta, row |-> h.row, out |-> s]
  <2>. DEFINE m == h.meta
              q == h.row
              t == h.out
  <2>1. h = [meta |-> m, row |-> q, out |-> t]
    BY ViewIs
  <2>. HIDE DEF m, q, t
  <2>2. h.out = t /\ h.row = q /\ h.meta = m
    BY <2>1
  <2>. QED
    BY <2>1, <2>2 DEF Hash!Answer
<1>2. /\ h.meta \in Hash!Metas /\ h.row \in HashRows /\ s \in Seq(Int \cup {Absent})
  BY ViewIs
<1>. HIDE DEF g, s
<1>3. g \in Views /\ g.meta = h.meta /\ g.row = h.row /\ g.out = s
  BY <1>1, <1>2, ViewOf
<1>. QED
  BY <1>3 DEF Sound, g, s

LEMMA KindIsOf ==
    ASSUME HashContext, NEW h \in Views, NEW f \in Fields
    PROVE  /\ Hash!Kind(h, f) \in {"missing", "persistent", "expired", "live"}
           /\ Hash!Kind(h, f) = "missing" <=> h.row[f] = Absent
           /\ Hash!Kind(h, f) = "persistent" <=> h.row[f] # Absent /\ h.row[f].exp = 0
           /\ Hash!Kind(h, f) = "expired" <=> h.row[f] # Absent /\ h.row[f].exp # 0 /\ h.row[f].exp <= now
           /\ Hash!Kind(h, f) = "live" <=> h.row[f] # Absent /\ h.row[f].exp # 0 /\ ~(h.row[f].exp <= now)
<1>1. h.row[f] # Absent => h.row[f].exp \in Nat
  BY ViewIs, CellIs
<1>2. h.row[f] # Absent /\ h.row[f].exp # 0 => h.row[f].exp > 0
  BY <1>1
<1>. QED
  BY <1>1, <1>2 DEF Hash!Kind, Hash!Expired

LEMMA RemoveBecomes ==
    ASSUME HashContext, NEW h, Sound(h), NEW f \in Fields, h.row[f] # Absent
    PROVE  Becomes(h, Hash!RemoveField(h, f), f, Absent, h.out)
<1>. DEFINE x == IF h.row[f].exp = 0 THEN Hash!PersistentToDeleted(h.meta)
                                     ELSE Hash!TTLToDeleted(h.meta)
            r == [h.row EXCEPT ![f] = Absent]
            g == Hash!RemoveField(h, f)
<1>0. h \in Views /\ CountsOf(h.meta, h.row)
  BY DEF Sound
<1>1. h.meta \in Hash!Metas /\ h.row \in HashRows /\ h.out \in Seq(Int \cup {Absent})
  BY <1>0, ViewIs
<1>2. 0 \in 0 .. MaxVal
  BY HashAssumed
<1>3. Moved(h.meta, h.row, f, x, Absent)
  <2>1. CASE h.row[f].exp = 0
    BY <1>0, <1>1, <1>2, <2>1, LastingMoves
  <2>2. CASE h.row[f].exp # 0
    BY <1>0, <1>1, <1>2, <2>2, TimedMoves
  <2>. QED
    BY <2>1, <2>2
<1>4. g = [meta |-> x, row |-> r, out |-> h.out]
  <2>. DEFINE m == h.meta
              q == h.row
              t == h.out
  <2>1. h = [meta |-> m, row |-> q, out |-> t]
    BY <1>0, ViewIs
  <2>. HIDE DEF m, q, t
  <2>. DEFINE z == [q EXCEPT ![f] = Absent]
  <2>2. g = [h EXCEPT !.meta = x, !.row[f] = Absent]
    BY DEF Hash!RemoveField
  <2>. HIDE DEF g, x
  <2>3. g = [h EXCEPT !.meta = x, !.row = z]
    BY <2>1, <2>2
  <2>4. r = z
    BY DEF q
  <2>. HIDE DEF z, r
  <2>5. g = [meta |-> x, row |-> z, out |-> t]
    BY <2>1, <2>3
  <2>. QED
    BY <2>4, <2>5 DEF t
<1>5. x \in Hash!Metas /\ x.lapsed = h.meta.lapsed /\ r \in HashRows /\ CountsOf(x, r)
  BY <1>3 DEF Moved
<1>. HIDE DEF g, r, x
<1>6. g \in Views /\ g.meta = x /\ g.row = r /\ g.out = h.out
  BY <1>1, <1>4, <1>5, ViewOf
<1>. QED
  BY <1>5, <1>6 DEF Becomes, Sound, g, r

\* What a pair writes for good: HSET and HSETNX.
LEMMA SetBecomes ==
    ASSUME HashContext, NEW h, Sound(h), NEW f \in Fields, NEW v \in 0 .. MaxVal,
           NEW p, p.field = f, p.val = v
    PROVE  Becomes(h, Hash!SetField(h, p), f, Cell(v, 0),
                   Append(h.out, IF Hash!Kind(h, f) \in {"missing", "expired"} THEN 1 ELSE 0))
<1>. DEFINE kind == Hash!Kind(h, f)
            x == CASE kind = "missing" -> Hash!MissingToPersistent(h.meta)
                   [] kind \in {"expired", "live"} -> Hash!TTLToPersistent(h.meta)
                   [] kind = "persistent" -> h.meta
            a == IF kind \in {"missing", "expired"} THEN 1 ELSE 0
            w == Hash!With(h, x)
            b == Hash!Answer(h, a)
<1>0. h \in Views /\ CountsOf(h.meta, h.row)
  BY DEF Sound
<1>1. h.meta \in Hash!Metas /\ h.row \in HashRows /\ h.out \in Seq(Int \cup {Absent})
  BY <1>0, ViewIs
<1>2. /\ kind \in {"missing", "persistent", "expired", "live"}
      /\ kind = "missing" <=> h.row[f] = Absent
      /\ kind = "persistent" <=> h.row[f] # Absent /\ h.row[f].exp = 0
      /\ kind \in {"expired", "live"} <=> h.row[f] # Absent /\ h.row[f].exp # 0
  BY <1>0, KindIsOf
<1>. HIDE DEF kind
<1>3. Moved(h.meta, h.row, f, x, Cell(v, 0))
  <2>1. CASE kind = "missing"
    <3>1. x = Hash!MissingToPersistent(h.meta)
      BY <2>1
    <3>. HIDE DEF x
    <3>. QED
      BY <1>0, <1>1, <1>2, <2>1, <3>1, MissingMoves
  <2>2. CASE kind \in {"expired", "live"}
    <3>1. x = Hash!TTLToPersistent(h.meta)
      BY <2>2
    <3>. HIDE DEF x
    <3>. QED
      BY <1>0, <1>1, <1>2, <2>2, <3>1, TimedMoves
  <2>3. CASE kind = "persistent"
    <3>1. x = h.meta
      BY <2>3
    <3>. HIDE DEF x
    <3>. QED
      BY <1>0, <1>1, <1>2, <2>3, <3>1, LastingMoves
  <2>. QED
    BY <1>2, <2>1, <2>2, <2>3
<1>4. b \in Views /\ b.meta = h.meta /\ b.row = h.row /\ b.out = Append(h.out, a)
  <2>1. a \in Int \cup {Absent}
    OBVIOUS
  <2>. HIDE DEF a
  <2>. QED
    BY <1>0, <2>1, AnswerIs
<1>5. Hash!SetField(h, p) = Hash!Put(Hash!With(b, x), f, v, 0)
  <2>1. Hash!Answer(w, a) = Hash!With(b, x)
    <3>. HIDE DEF x, a
    <3>1. h = [meta |-> h.meta, row |-> h.row, out |-> h.out]
      BY <1>0, ViewIs
    <3>. QED
      BY <3>1 DEF Hash!Answer, Hash!With, w, b
  <2>2. Hash!SetField(h, p) = Hash!Put(Hash!Answer(w, a), f, v, 0)
    BY DEF Hash!SetField, kind
  <2>. HIDE DEF w, b, x, a
  <2>. QED
    BY <2>1, <2>2
<1>. HIDE DEF x, a, b
<1>6. Becomes(b, Hash!Put(Hash!With(b, x), f, v, 0), f, Cell(v, 0), b.out)
  BY <1>3, <1>4, PutBecomes
<1>. QED
  BY <1>4, <1>5, <1>6 DEF Becomes, a, kind

\* What a row shows: nothing once it has run out.
AliveAt(r, f) == r[f] # Absent /\ (r[f].exp = 0 \/ ~(r[f].exp <= now))
Alive(r) == [f \in Fields |-> IF AliveAt(r, f) THEN r[f] ELSE Absent]

LEMMA AliveIs ==
    ASSUME HashContext, NEW h \in Views, NEW f \in Fields
    PROVE  /\ Hash!Kind(h, f) \in {"persistent", "live"} <=> AliveAt(h.row, f)
           /\ Hash!Kind(h, f) \in {"missing", "expired"} <=> ~AliveAt(h.row, f)
           /\ Alive(h.row)[f] = IF AliveAt(h.row, f) THEN h.row[f] ELSE Absent
           /\ Alive(h.row)[f] # Absent <=> AliveAt(h.row, f)
<1>1. /\ Hash!Kind(h, f) \in {"missing", "persistent", "expired", "live"}
      /\ Hash!Kind(h, f) = "missing" <=> h.row[f] = Absent
      /\ Hash!Kind(h, f) = "persistent" <=> h.row[f] # Absent /\ h.row[f].exp = 0
      /\ Hash!Kind(h, f) = "expired" <=> h.row[f] # Absent /\ h.row[f].exp # 0 /\ h.row[f].exp <= now
      /\ Hash!Kind(h, f) = "live" <=> h.row[f] # Absent /\ h.row[f].exp # 0 /\ ~(h.row[f].exp <= now)
  BY KindIsOf
<1>2. /\ Hash!Kind(h, f) \in {"persistent", "live"} <=> AliveAt(h.row, f)
      /\ Hash!Kind(h, f) \in {"missing", "expired"} <=> ~AliveAt(h.row, f)
  BY <1>1 DEF AliveAt
<1>3. Alive(h.row)[f] = IF AliveAt(h.row, f) THEN h.row[f] ELSE Absent
  BY DEF Alive
<1>4. AliveAt(h.row, f) => h.row[f] # Absent
  BY DEF AliveAt
<1>. QED
  BY <1>2, <1>3, <1>4

\* What a pair with an expiry writes: HSETEX.
LEMMA SetExBecomes ==
    ASSUME HashContext, NEW h, Sound(h), NEW f \in Fields, NEW v \in 0 .. MaxVal,
           NEW p, p.field = f, p.val = v, NEW at \in 0 .. MaxNow
    PROVE  Becomes(h, Hash!SetExField(h, p, at), f, Cell(v, at), h.out)
<1>. DEFINE kind == Hash!Kind(h, f)
            x == CASE kind \in {"missing", "expired"} ->
                         IF at = 0 THEN Hash!MissingToPersistent(h.meta)
                                   ELSE Hash!MissingToTTL(h.meta, at)
                   [] kind = "persistent" ->
                         IF at = 0 THEN h.meta ELSE Hash!PersistentToTTL(h.meta, at)
                   [] kind = "live" ->
                         IF at = 0 THEN Hash!TTLToPersistent(h.meta) ELSE Hash!TTLToTTL(h.meta, at)
<1>0. h \in Views /\ CountsOf(h.meta, h.row)
  BY DEF Sound
<1>1. h.meta \in Hash!Metas /\ h.row \in HashRows /\ MaxNow \in Nat
  BY <1>0, ViewIs, HashAssumed
<1>2. /\ kind \in {"missing", "persistent", "expired", "live"}
      /\ kind = "missing" <=> h.row[f] = Absent
      /\ kind = "persistent" <=> h.row[f] # Absent /\ h.row[f].exp = 0
      /\ kind = "expired" <=> h.row[f] # Absent /\ h.row[f].exp # 0 /\ h.row[f].exp <= now
      /\ kind = "live" <=> h.row[f] # Absent /\ h.row[f].exp # 0 /\ ~(h.row[f].exp <= now)
  BY <1>0, KindIsOf
<1>3. at = 0 \/ at \in 1 .. MaxNow
  BY <1>1
<1>4. Hash!SetExField(h, p, at) = Hash!Put(Hash!With(h, x), f, v, at)
  BY DEF Hash!SetExField
<1>. HIDE DEF kind
<1>5. Moved(h.meta, h.row, f, x, Cell(v, at))
  <2>1. CASE kind \in {"missing", "expired"}
    <3>1. x = IF at = 0 THEN Hash!MissingToPersistent(h.meta) ELSE Hash!MissingToTTL(h.meta, at)
      BY <2>1
    <3>. HIDE DEF x
    <3>2. /\ Moved(h.meta, h.row, f, Hash!MissingToPersistent(h.meta), Cell(v, 0))
          /\ \A a \in 1 .. MaxNow : Moved(h.meta, h.row, f, Hash!MissingToTTL(h.meta, a), Cell(v, a))
      BY <1>0, <1>1, <1>2, <2>1, MissingMoves
    <3>. QED
      BY <1>3, <3>1, <3>2
  <2>2. CASE kind = "persistent"
    <3>1. x = IF at = 0 THEN h.meta ELSE Hash!PersistentToTTL(h.meta, at)
      BY <2>2
    <3>. HIDE DEF x
    <3>2. /\ Moved(h.meta, h.row, f, h.meta, Cell(v, 0))
          /\ \A a \in 1 .. MaxNow : Moved(h.meta, h.row, f, Hash!PersistentToTTL(h.meta, a), Cell(v, a))
      BY <1>0, <1>1, <1>2, <2>2, LastingMoves
    <3>. QED
      BY <1>3, <3>1, <3>2
  <2>3. CASE kind = "live"
    <3>1. x = IF at = 0 THEN Hash!TTLToPersistent(h.meta) ELSE Hash!TTLToTTL(h.meta, at)
      BY <2>3
    <3>. HIDE DEF x
    <3>2. /\ Moved(h.meta, h.row, f, Hash!TTLToPersistent(h.meta), Cell(v, 0))
          /\ \A a \in 1 .. MaxNow : Moved(h.meta, h.row, f, Hash!TTLToTTL(h.meta, a), Cell(v, a))
      BY <1>0, <1>1, <1>2, <2>3, TimedMoves
    <3>. QED
      BY <1>3, <3>1, <3>2
  <2>. QED
    BY <1>2, <2>1, <2>2, <2>3
<1>. HIDE DEF x
<1>. QED
  BY <1>0, <1>4, <1>5, PutBecomes

\* A new expiry for a field that is there.
LEMMA RetimedBecomes ==
    ASSUME HashContext, NEW h, Sound(h), NEW f \in Fields, AliveAt(h.row, f),
           NEW at \in 0 .. MaxNow
    PROVE  Becomes(h, Hash!Retimed(h, f, at), f, Cell(h.row[f].val, at), h.out)
<1>. DEFINE kind == Hash!Kind(h, f)
            x == IF at = 0 THEN IF kind = "live" THEN Hash!TTLToPersistent(h.meta) ELSE h.meta
                 ELSE IF kind = "persistent" THEN Hash!PersistentToTTL(h.meta, at)
                 ELSE Hash!TTLToTTL(h.meta, at)
            v == h.row[f].val
<1>0. h \in Views /\ CountsOf(h.meta, h.row)
  BY DEF Sound
<1>1. h.meta \in Hash!Metas /\ h.row \in HashRows /\ MaxNow \in Nat /\ v \in 0 .. MaxVal
  BY <1>0, ViewIs, HashAssumed, CellIs DEF AliveAt
<1>2. /\ kind = "persistent" \/ kind = "live"
      /\ kind = "persistent" <=> h.row[f] # Absent /\ h.row[f].exp = 0
      /\ kind = "live" <=> h.row[f] # Absent /\ h.row[f].exp # 0 /\ ~(h.row[f].exp <= now)
  BY <1>0, KindIsOf, AliveIs
<1>3. at = 0 \/ (at # 0 /\ at \in 1 .. MaxNow)
  BY <1>1
<1>4. Hash!Retimed(h, f, at) = Hash!Put(Hash!With(h, x), f, v, at)
  BY DEF Hash!Retimed
<1>. HIDE DEF kind, v
<1>5. Moved(h.meta, h.row, f, x, Cell(v, at))
  <2>1. CASE kind = "persistent"
    <3>1. x = IF at = 0 THEN h.meta ELSE Hash!PersistentToTTL(h.meta, at)
      BY <2>1
    <3>. HIDE DEF x
    <3>2. /\ Moved(h.meta, h.row, f, h.meta, Cell(v, 0))
          /\ \A a \in 1 .. MaxNow : Moved(h.meta, h.row, f, Hash!PersistentToTTL(h.meta, a), Cell(v, a))
      BY <1>0, <1>1, <1>2, <2>1, LastingMoves
    <3>. QED
      BY <1>3, <3>1, <3>2
  <2>2. CASE kind = "live"
    <3>1. x = IF at = 0 THEN Hash!TTLToPersistent(h.meta) ELSE Hash!TTLToTTL(h.meta, at)
      BY <2>2
    <3>. HIDE DEF x
    <3>2. /\ Moved(h.meta, h.row, f, Hash!TTLToPersistent(h.meta), Cell(v, 0))
          /\ \A a \in 1 .. MaxNow : Moved(h.meta, h.row, f, Hash!TTLToTTL(h.meta, a), Cell(v, a))
      BY <1>0, <1>1, <1>2, <2>2, TimedMoves
    <3>. QED
      BY <1>3, <3>1, <3>2
  <2>. QED
    BY <1>2, <2>1, <2>2
<1>. HIDE DEF x
<1>. QED
  BY <1>0, <1>4, <1>5, PutBecomes DEF v

\* A loop's values: there are some when every step stays in V, ...
Stays(F, n, V) == \A x \in V, i \in 1 .. n : F[<<x, i>>] \in V
Follows(g, n, V, v, F) ==
    g \in [0 .. n -> V] /\ g[0] = v /\ \A i \in 1 .. n : g[i] = F[<<g[i - 1], i>>]

LEMMA LoopGoes ==
    ASSUME NEW n \in Nat, NEW V, NEW v \in V, NEW F, Stays(F, n, V)
    PROVE  \E g : Follows(g, n, V, v, F)
<1>. DEFINE P(N) == \E g \in [0 .. N -> V] : g[0] = v /\ \A i \in 1 .. N : g[i] = F[<<g[i - 1], i>>]
<1>1. P(0)
  <2>. DEFINE g == [i \in 0 .. 0 |-> v]
  <2>1. g \in [0 .. 0 -> V] /\ g[0] = v
    OBVIOUS
  <2>. HIDE DEF g
  <2>. QED
    BY <2>1
<1>2. ASSUME NEW N \in Nat, N < n, P(N) PROVE P(N + 1)
  <2>1. PICK g \in [0 .. N -> V] : g[0] = v /\ \A i \in 1 .. N : g[i] = F[<<g[i - 1], i>>]
    BY <1>2
  <2>. DEFINE c == F[<<g[N], N + 1>>]
              h == [i \in 0 .. N + 1 |-> IF i = N + 1 THEN c ELSE g[i]]
  <2>2. c \in V
    <3>1. g[N] \in V /\ N + 1 \in 1 .. n
      BY <1>2
    <3>. QED
      BY <3>1 DEF Stays
  <2>. HIDE DEF c
  <2>3. h \in [0 .. N + 1 -> V]
    <3>1. ASSUME NEW i \in 0 .. N + 1 PROVE (IF i = N + 1 THEN c ELSE g[i]) \in V
      <4>1. i # N + 1 => i \in 0 .. N
        OBVIOUS
      <4>. QED
        BY <2>2, <4>1
    <3>. QED
      BY <3>1
  <2>4. /\ \A i \in 0 .. N : h[i] = g[i]
        /\ h[N + 1] = c
    <3>1. N + 1 \in 0 .. N + 1 /\ \A i \in 0 .. N : i \in 0 .. N + 1 /\ i # N + 1
      OBVIOUS
    <3>. QED
      BY <3>1
  <2>. HIDE DEF h
  <2>5. ASSUME NEW i \in 1 .. N + 1 PROVE h[i] = F[<<h[i - 1], i>>]
    <3>1. CASE i = N + 1
      <4>1. i - 1 = N /\ N \in 0 .. N
        BY <3>1
      <4>. QED
        BY <2>4, <3>1, <4>1 DEF c
    <3>2. CASE i # N + 1
      <4>1. i \in 1 .. N /\ i \in 0 .. N /\ i - 1 \in 0 .. N
        BY <3>2
      <4>. QED
        BY <2>1, <2>4, <4>1
    <3>. QED
      BY <3>1, <3>2
  <2>6. h[0] = v
    BY <2>1, <2>4
  <2>. QED
    BY <2>3, <2>5, <2>6
<1>3. P(n)
  <2>. DEFINE S == {N \in Nat : N <= n /\ ~P(N)}
  <2>. HIDE DEF P
  <2>1. CASE S = {}
    BY <2>1
  <2>2. CASE S # {}
    <3>1. PICK N \in S : \A x \in S : N <= x
      <4>1. S \subseteq Nat
        OBVIOUS
      <4>. HIDE DEF S
      <4>. QED
        BY <2>2, <4>1, LeastOf
    <3>2. N \in Nat /\ N <= n /\ ~P(N) /\ N # 0
      BY <1>1
    <3>3. N - 1 \in Nat /\ N - 1 < n /\ N - 1 <= n /\ N - 1 \notin S /\ (N - 1) + 1 = N
      <4>1. N - 1 \in Nat /\ N - 1 < n /\ ~(N <= N - 1) /\ (N - 1) + 1 = N
        BY <3>2
      <4>. QED
        BY <3>1, <4>1
    <3>4. P(N - 1)
      BY <3>3
    <3>5. P((N - 1) + 1)
      BY <1>2, <3>3, <3>4
    <3>. QED
      BY <3>2, <3>3, <3>5
  <2>. QED
    BY <2>1, <2>2
<1>. QED
  BY <1>3 DEF Follows

\* ... and what each step keeps holds of the last.
LEMMA LoopKeeps ==
    ASSUME NEW n \in Nat, NEW g, NEW W, g[0] \in W[0],
           \A i \in 1 .. n : g[i - 1] \in W[i - 1] => g[i] \in W[i]
    PROVE  g[n] \in W[n]
<1>. DEFINE S == {N \in Nat : N <= n /\ g[N] \notin W[N]}
<1>1. CASE S = {}
  BY <1>1
<1>2. CASE S # {}
  <2>1. PICK N \in S : \A x \in S : N <= x
    <3>1. S \subseteq Nat
      OBVIOUS
    <3>. HIDE DEF S
    <3>. QED
      BY <1>2, <3>1, LeastOf
  <2>2. N \in Nat /\ N <= n /\ g[N] \notin W[N] /\ N # 0
    OBVIOUS
  <2>3. N \in 1 .. n /\ N - 1 \in Nat /\ N - 1 <= n /\ ~(N <= N - 1)
    BY <2>2
  <2>4. N - 1 \notin S
    BY <2>1, <2>3
  <2>5. g[N - 1] \in W[N - 1]
    BY <2>3, <2>4
  <2>. QED
    BY <2>2, <2>3, <2>5
<1>. QED
  BY <1>1, <1>2

\* The states a hash can be in.
HashInv ==
    /\ now \in 1 .. MaxNow
    /\ meta \in Hash!Metas \cup {Absent}
    /\ row \in HashRows
    /\ Hash!Live => CountsOf(meta, row)

\* h is where a command begins: it shows what the hash holds.
Begins(h) == Sound(h) /\ h.meta.lapsed = FALSE /\ Alive(h.row) = Hash!Held /\ h.out = <<>>

LEMMA HeldIs ==
    ASSUME HashContext, HashInv
    PROVE  /\ Hash!Live => Hash!Held = Alive(row)
           /\ ~Hash!Live => Hash!Held = Hash!NoRows
           /\ Hash!NoRows \in HashRows /\ Alive(Hash!NoRows) = Hash!NoRows
           /\ \A f \in Fields : Hash!NoRows[f] = Absent
<1>1. ASSUME NEW f \in Fields PROVE Hash!LiveRow(f) <=> AliveAt(row, f)
  <2>1. row[f] # Absent => row[f].exp \in Nat
    BY CellIs DEF HashInv
  <2>2. row[f] # Absent => (Hash!Expired(row[f].exp) <=> row[f].exp # 0 /\ row[f].exp <= now)
    BY <2>1 DEF Hash!Expired
  <2>. QED
    BY <2>2 DEF Hash!LiveRow, AliveAt
<1>2. \A f \in Fields : ~AliveAt(Hash!NoRows, f)
  BY DEF Hash!NoRows, AliveAt
<1>3. Hash!Live => Hash!Held = Alive(row)
  BY <1>1 DEF Hash!Held, Alive
<1>4. ~Hash!Live => Hash!Held = Hash!NoRows
  BY DEF Hash!Held, Hash!NoRows
<1>5. Hash!NoRows \in HashRows /\ \A f \in Fields : Hash!NoRows[f] = Absent
  BY DEF HashRows, Hash!NoRows
<1>6. Alive(Hash!NoRows) = Hash!NoRows
  BY <1>2 DEF Alive, Hash!NoRows
<1>. QED
  BY <1>3, <1>4, <1>5, <1>6

LEMMA HereBegins ==
    ASSUME HashContext, HashInv, Hash!Live
    PROVE  Begins(Hash!Here) /\ Hash!Here.row = row /\ Hash!Here.meta = meta
<1>. DEFINE h == Hash!Here
            s == <<>>
<1>1. h = [meta |-> meta, row |-> row, out |-> s]
  BY DEF Hash!Here
<1>2. meta \in Hash!Metas /\ row \in HashRows /\ s \in Seq(Int \cup {Absent})
  BY DEF HashInv, Hash!Live
<1>. HIDE DEF h, s
<1>3. h \in Views /\ h.meta = meta /\ h.row = row /\ h.out = s
  BY <1>1, <1>2, ViewOf
<1>4. CountsOf(meta, row) /\ meta.lapsed = FALSE
  BY <1>2, MetaIs DEF HashInv, Hash!Live
<1>5. Alive(row) = Hash!Held
  BY HeldIs
<1>. QED
  BY <1>3, <1>4, <1>5 DEF Begins, Sound, h, s

LEMMA PreparedBegins ==
    ASSUME HashContext, HashInv
    PROVE  /\ Begins(Hash!Prepared)
           /\ ~Hash!Live => \A f \in Fields : Hash!Prepared.row[f] = Absent
<1>1. CASE Hash!Live
  BY <1>1, HereBegins DEF Hash!Prepared
<1>2. CASE ~Hash!Live
  <2>. DEFINE h == Hash!Prepared
              m == Hash!NewMeta
              r == Hash!NoRows
              s == <<>>
  <2>1. h = [meta |-> m, row |-> r, out |-> s]
    BY <1>2 DEF Hash!Prepared
  <2>2. /\ m \in Hash!Metas /\ m.size = 0 /\ m.persist = 0 /\ m.lapsed = FALSE
    BY DEF Hash!NewMeta, Hash!Metas
  <2>3. /\ r \in HashRows /\ Alive(r) = Hash!Held /\ \A f \in Fields : r[f] = Absent
        /\ s \in Seq(Int \cup {Absent})
    BY <1>2, HeldIs
  <2>. HIDE DEF h, m, r, s
  <2>4. h \in Views /\ h.meta = m /\ h.row = r /\ h.out = s
    BY <2>1, <2>2, <2>3, ViewOf
  <2>5. Rowed(r) = {} /\ Lasting(r) = {}
    BY <2>3 DEF Rowed, Lasting
  <2>6. CountsOf(m, r)
    BY <2>2, <2>3, <2>5, FS_EmptySet DEF CountsOf, Bounding
  <2>. QED
    BY <2>2, <2>3, <2>4, <2>6 DEF Begins, Sound, h, s
<1>. QED
  BY <1>1, <1>2

\* What a command commits is held from then on.
LEMMA CommitKeeps ==
    ASSUME HashContext, HashInv, NEW h, Sound(h), h.meta.lapsed = FALSE, Hash!Commit(h), now' = now
    PROVE  HashInv' /\ Hash!Held' = Alive(h.row)
<1>. DEFINE m == h.meta
            x == Hash!ClearBounds(m)
<1>1. /\ m \in Hash!Metas /\ m.size \in Nat /\ h.row \in HashRows /\ CountsOf(m, h.row)
      /\ Absent \notin Hash!Metas
  BY ViewIs, MetaIs, HashAssumed DEF Sound
<1>2. /\ x \in Hash!Metas /\ x.size = m.size /\ x.lapsed = FALSE /\ CountsOf(x, h.row)
  BY <1>1, Cleared
<1>3. /\ row' = h.row /\ (m.size = 0 => meta' = Absent) /\ (m.size # 0 => meta' = x)
  BY DEF Hash!Commit
<1>. HIDE DEF x, m
<1>4. \A r : Alive(r)' = Alive(r) /\ \A y : CountsOf(y, r)' = CountsOf(y, r)
  BY DEF Alive, AliveAt, CountsOf, Bounding, Rowed, Lasting
<1>5. HashContext' /\ now' \in 1 .. MaxNow
  BY DEF HashInv, HashContext
<1>6. CASE m.size = 0
  <2>1. meta' = Absent /\ ~Hash!Live'
    BY <1>3, <1>6 DEF Hash!Live
  <2>2. HashInv'
    BY <1>1, <1>3, <1>5, <2>1 DEF HashInv
  <2>3. \A f \in Fields : h.row[f] = Absent
    <3>1. Cardinality(Rowed(h.row)) = 0
      BY <1>1, <1>6, RowedIs DEF CountsOf
    <3>. QED
      BY <1>1, <3>1, RowedIs
  <2>4. Alive(h.row) = [f \in Fields |-> Absent]
    BY <2>3 DEF Alive, AliveAt
  <2>5. Hash!Held' = [f \in Fields |-> Absent]
    BY <2>1 DEF Hash!Held
  <2>. QED
    BY <2>2, <2>4, <2>5
<1>7. CASE m.size # 0
  <2>1. meta' = x /\ x # Absent /\ Hash!Live'
    BY <1>1, <1>2, <1>3, <1>7 DEF Hash!Live
  <2>2. CountsOf(meta, row)'
    BY <1>2, <1>3, <2>1 DEF CountsOf, Bounding, Rowed, Lasting
  <2>3. HashInv'
    BY <1>1, <1>2, <1>3, <1>5, <2>1, <2>2 DEF HashInv
  <2>4. ASSUME NEW f \in Fields PROVE Hash!LiveRow(f)' <=> AliveAt(h.row, f)
    <3>1. h.row[f] # Absent => h.row[f].exp \in Nat
      BY <1>1, CellIs
    <3>2. Hash!LiveRow(f)' <=> h.row[f] # Absent /\ ~(h.row[f].exp > 0 /\ h.row[f].exp <= now)
      BY <1>3 DEF Hash!LiveRow, Hash!Expired
    <3>. QED
      BY <3>1, <3>2 DEF AliveAt
  <2>5. Hash!Held' = Alive(h.row)
    BY <1>3, <2>1, <2>4 DEF Hash!Held, Alive
  <2>. QED
    BY <2>3, <2>5
<1>. QED
  BY <1>6, <1>7

LEMMA UnchangedKeeps ==
    ASSUME HashContext, HashInv, UNCHANGED <<meta, row>>, now' = now
    PROVE  HashInv' /\ Hash!Held' = Hash!Held
BY DEF HashInv, CountsOf, Bounding, Rowed, Lasting, Hash!Live, Hash!Held, Hash!LiveRow, Hash!Expired

\* A cell that has not run out.
Lasts(c) == c # Absent /\ (c.exp = 0 \/ ~(c.exp <= now))

LEMMA AliveBecomes ==
    ASSUME NEW h, Sound(h), NEW g, NEW f \in Fields, NEW c, NEW s, Becomes(h, g, f, c, s)
    PROVE  /\ Sound(g) /\ g.meta.lapsed = h.meta.lapsed /\ g.out = s
           /\ \A e \in Fields \ {f} : Alive(g.row)[e] = Alive(h.row)[e] /\ g.row[e] = h.row[e]
           /\ Alive(g.row)[f] = IF Lasts(c) THEN c ELSE Absent
           /\ g.row[f] = c
<1>1. h.row \in HashRows
  BY ViewIs DEF Sound
<1>2. /\ Sound(g) /\ g.meta.lapsed = h.meta.lapsed /\ g.out = s
      /\ g.row = [h.row EXCEPT ![f] = c]
  BY DEF Becomes
<1>3. g.row[f] = c /\ \A e \in Fields \ {f} : g.row[e] = h.row[e]
  BY <1>1, <1>2 DEF HashRows
<1>4. /\ Alive(g.row)[f] = IF Lasts(c) THEN c ELSE Absent
      /\ \A e \in Fields \ {f} : Alive(g.row)[e] = Alive(h.row)[e]
  BY <1>3 DEF Alive, AliveAt, Lasts
<1>. QED
  BY <1>2, <1>3, <1>4

LEMMA OnesIs ==
    /\ Hash!Ones(<<>>) = 0
    /\ \A s \in Seq(Int \cup {Absent}) :
          /\ Hash!Ones(s) \in Nat
          /\ Hash!Ones(Append(s, 1)) = Hash!Ones(s) + 1
          /\ Hash!Ones(Append(s, 0)) = Hash!Ones(s)
<1>. DEFINE Places(s) == {i \in DOMAIN s : s[i] = 1}
<1>1. \A s : Hash!Ones(s) = Cardinality(Places(s))
  BY HashCardinality DEF Hash!Ones
<1>2. Hash!Ones(<<>>) = 0
  <2>1. Places(<<>>) = {}
    OBVIOUS
  <2>. QED
    BY <1>1, <2>1, FS_EmptySet
<1>3. ASSUME NEW s \in Seq(Int \cup {Absent})
      PROVE  /\ Hash!Ones(s) \in Nat
             /\ Hash!Ones(Append(s, 1)) = Hash!Ones(s) + 1
             /\ Hash!Ones(Append(s, 0)) = Hash!Ones(s)
  <2>. DEFINE n == Len(s)
  <2>1. n \in Nat /\ DOMAIN s = 1 .. n
    OBVIOUS
  <2>2. ASSUME NEW x \in Int
        PROVE  /\ DOMAIN Append(s, x) = 1 .. n + 1 /\ Append(s, x)[n + 1] = x
               /\ \A i \in 1 .. n : Append(s, x)[i] = s[i]
    OBVIOUS
  <2>3. IsFiniteSet(Places(s))
    <3>1. IsFiniteSet(1 .. n) /\ Places(s) \subseteq 1 .. n
      BY <2>1, FS_Interval
    <3>. QED
      BY <3>1, FS_Subset
  <2>4. Places(Append(s, 1)) = Places(s) \cup {n + 1}
    BY <2>1, <2>2
  <2>5. Places(Append(s, 0)) = Places(s)
    BY <2>1, <2>2
  <2>6. n + 1 \notin Places(s)
    BY <2>1
  <2>. HIDE DEF Places
  <2>. QED
    BY <1>1, <2>3, <2>4, <2>5, <2>6, FS_AddElement, FS_CardinalityType
<1>. QED
  BY <1>2, <1>3

\* A list of pairs; a field is written by the last, or the first, of its pairs.
LEMMA PairIs ==
    ASSUME HashContext, NEW ps \in HashPairs
    PROVE  /\ Len(ps) \in Nat /\ Len(ps) # 0 /\ DOMAIN ps = 1 .. Len(ps)
           /\ \A i \in 1 .. Len(ps) : ps[i].field \in Fields /\ ps[i].val \in 0 .. MaxVal
           /\ Hash!Hashes!Written(ps) = {ps[i].field : i \in 1 .. Len(ps)}
           /\ Hash!Hashes!Written(ps) \subseteq Fields
<1>. DEFINE R == [field : Fields, val : 0 .. MaxVal]
<1>1. ps \in Seq(R) /\ ps # <<>>
  BY DEF HashContext, Hash!HashAssumption
<1>2. Len(ps) \in Nat /\ Len(ps) # 0 /\ DOMAIN ps = 1 .. Len(ps)
  BY <1>1
<1>3. ASSUME NEW i \in 1 .. Len(ps) PROVE ps[i].field \in Fields /\ ps[i].val \in 0 .. MaxVal
  <2>1. ps[i] \in R
    <3>. HIDE DEF R
    <3>. QED
      BY <1>1
  <2>. QED
    BY <2>1
<1>. QED
  BY <1>2, <1>3 DEF Hash!Hashes!Written

LEMMA WriterIs ==
    ASSUME HashContext, NEW ps \in HashPairs, NEW i \in 1 .. Len(ps)
    PROVE  /\ ~Hash!Passed(ps, i) => ps[i].val = Hash!Hashes!LastOf(ps, ps[i].field)
           /\ ~Hash!Seconded(ps, i) => ps[i].val = Hash!Hashes!FirstOfField(ps, ps[i].field)
<1>. DEFINE n == Len(ps)
            f == ps[i].field
<1>1. n \in Nat /\ DOMAIN ps = 1 .. n
  BY PairIs
<1>2. ASSUME ~Hash!Passed(ps, i) PROVE ps[i].val = Hash!Hashes!LastOf(ps, f)
  <2>. DEFINE Is(k) == ps[k].field = f /\ \A j \in DOMAIN ps : ps[j].field = f => j <= k
  <2>1. \A j \in 1 .. n : ps[j].field = f => j <= i
    <3>1. ASSUME NEW j \in 1 .. n, ps[j].field = f, ~(j <= i) PROVE FALSE
      <4>1. j \in i + 1 .. n
        BY <1>1, <3>1
      <4>. QED
        BY <1>2, <3>1, <4>1 DEF Hash!Passed
    <3>. QED
      BY <3>1
  <2>2. Is(i)
    BY <1>1, <2>1
  <2>3. \A k \in 1 .. n : Is(k) => k = i
    BY <1>1, <2>2
  <2>. HIDE DEF Is
  <2>4. (CHOOSE k \in 1 .. n : Is(k)) = i
    BY <2>2, <2>3
  <2>. QED
    BY <1>1, <2>4 DEF Hash!Hashes!LastOf, Is
<1>3. ASSUME ~Hash!Seconded(ps, i) PROVE ps[i].val = Hash!Hashes!FirstOfField(ps, f)
  <2>. DEFINE Is(k) == ps[k].field = f /\ \A j \in DOMAIN ps : ps[j].field = f => k <= j
  <2>1. \A j \in 1 .. n : ps[j].field = f => i <= j
    <3>1. ASSUME NEW j \in 1 .. n, ps[j].field = f, ~(i <= j) PROVE FALSE
      <4>1. j \in 1 .. i - 1
        BY <1>1, <3>1
      <4>. QED
        BY <1>3, <3>1, <4>1 DEF Hash!Seconded
    <3>. QED
      BY <3>1
  <2>2. Is(i)
    BY <1>1, <2>1
  <2>3. \A k \in 1 .. n : Is(k) => k = i
    BY <1>1, <2>2
  <2>. HIDE DEF Is
  <2>4. (CHOOSE k \in 1 .. n : Is(k)) = i
    BY <2>2, <2>3
  <2>. QED
    BY <1>1, <2>4 DEF Hash!Hashes!FirstOfField, Is
<1>. QED
  BY <1>2, <1>3

LEMMA WritersAre ==
    ASSUME HashContext, NEW ps \in HashPairs, NEW f \in Hash!Hashes!Written(ps)
    PROVE  /\ \E i \in 1 .. Len(ps) : ps[i].field = f /\ ~Hash!Passed(ps, i)
           /\ \E i \in 1 .. Len(ps) : ps[i].field = f /\ ~Hash!Seconded(ps, i)
<1>. DEFINE n == Len(ps)
            S == {i \in 1 .. n : ps[i].field = f}
            T == {n - i : i \in S}
<1>1. n \in Nat /\ S # {} /\ S \subseteq Nat
  BY PairIs
<1>2. PICK i \in S : \A x \in S : i <= x
  <2>. HIDE DEF S
  <2>. QED
    BY <1>1, LeastOf
<1>3. ~Hash!Seconded(ps, i)
  <2>1. ASSUME NEW j \in 1 .. i - 1, ps[j].field = f PROVE FALSE
    <3>1. j \in 1 .. n /\ ~(i <= j)
      BY <1>1, <2>1
    <3>. QED
      BY <1>2, <2>1, <3>1
  <2>. QED
    BY <2>1 DEF Hash!Seconded
<1>4. PICK k \in S : \A x \in S : x <= k
  <2>1. T # {} /\ T \subseteq Nat
    BY <1>1
  <2>. HIDE DEF T
  <2>2. PICK t \in T : \A x \in T : t <= x
    BY <2>1, LeastOf
  <2>3. PICK k \in S : t = n - k
    BY DEF T
  <2>4. ASSUME NEW x \in S PROVE x <= k
    <3>1. n - x \in T
      BY DEF T
    <3>2. n - k <= n - x
      BY <2>2, <2>3, <3>1
    <3>. QED
      BY <1>1, <3>2
  <2>. QED
    BY <2>4
<1>5. ~Hash!Passed(ps, k)
  <2>1. ASSUME NEW j \in k + 1 .. n, ps[j].field = f PROVE FALSE
    <3>1. j \in 1 .. n /\ ~(j <= k)
      BY <1>1, <2>1
    <3>. QED
      BY <1>4, <2>1, <3>1
  <2>. QED
    BY <2>1 DEF Hash!Passed
<1>. QED
  BY <1>3, <1>5

\* HSET, pair by pair.
SetStep(ps, h, i) ==
    IF (IF Hash!Live THEN Hash!Passed(ps, i) ELSE Hash!Seconded(ps, i)) THEN h
    ELSE Hash!SetField(h, ps[i])

LEMMA SoundStarts ==
    ASSUME HashContext, HashInv
    PROVE  Hash!Prepared \in {h \in Views : Sound(h)}
BY PreparedBegins DEF Begins, Sound

LEMMA HSetLoop ==
    ASSUME HashContext, HashInv, NEW ps \in HashPairs, Hash!HSet(ps)
    PROVE  \E g : /\ g[0] = Hash!Prepared
                  /\ \A i \in 1 .. Len(ps) : g[i] = SetStep(ps, g[i - 1], i)
                  /\ Hash!Commit(g[Len(ps)]) /\ ret' = Hash!Ones(g[Len(ps)].out)
<1>. DEFINE n == Len(ps)
            V == {h \in Views : Sound(h)}
            v == Hash!Prepared
            F == [p \in V \X (1 .. n) |-> SetStep(ps, p[1], p[2])]
            Body(g) == [i \in 0 .. n |-> IF i = 0 THEN v ELSE SetStep(ps, g[i - 1], i)]
            after == CHOOSE g : g = Body(g)
<1>1. n \in Nat /\ v \in V
  BY PairIs, SoundStarts
<1>2. ASSUME NEW h \in V, NEW i \in 1 .. n PROVE SetStep(ps, h, i) \in V
  <2>1. CASE SetStep(ps, h, i) = h
    BY <2>1
  <2>2. CASE SetStep(ps, h, i) = Hash!SetField(h, ps[i])
    <3>1. Sound(Hash!SetField(h, ps[i]))
      BY PairIs, SetBecomes DEF Becomes
    <3>. QED
      BY <2>2, <3>1 DEF Sound
  <2>. QED
    BY <2>1, <2>2 DEF SetStep
<1>. HIDE DEF V, v
<1>3. \A h \in V, i \in 1 .. n : F[<<h, i>>] = SetStep(ps, h, i) /\ F[<<h, i>>] \in V
  BY <1>2
<1>. HIDE DEF F
<1>4. \E g : g = Body(g)
  <2>1. PICK g : Follows(g, n, V, v, F)
    <3>1. Stays(F, n, V)
      BY <1>3 DEF Stays
    <3>. QED
      BY <1>1, <3>1, LoopGoes
  <2>2. /\ g \in [0 .. n -> V] /\ g[0] = v
        /\ \A i \in 1 .. n : g[i] = F[<<g[i - 1], i>>]
    BY <2>1 DEF Follows
  <2>3. ASSUME NEW i \in 1 .. n PROVE g[i] = SetStep(ps, g[i - 1], i)
    <3>1. i - 1 \in 0 .. n
      BY <1>1
    <3>2. g[i - 1] \in V
      BY <2>2, <3>1
    <3>. QED
      BY <1>3, <2>2, <3>2
  <2>4. \A i \in 0 .. n : g[i] = IF i = 0 THEN v ELSE SetStep(ps, g[i - 1], i)
    BY <1>1, <2>2, <2>3
  <2>5. g = Body(g)
    BY <2>2, <2>4
  <2>. QED
    BY <2>5
<1>5. after = Body(after)
  BY <1>4
<1>6. Hash!Commit(after[n]) /\ ret' = Hash!Ones(after[n].out)
  BY Zenon DEF Hash!HSet, Hash!Each, SetStep, v
<1>. HIDE DEF after
<1>7. after[0] = v /\ \A i \in 1 .. n : after[i] = SetStep(ps, after[i - 1], i)
  <2>1. 0 \in 0 .. n /\ \A i \in 1 .. n : i \in 0 .. n /\ i # 0
    BY <1>1
  <2>. QED
    BY <1>5, <2>1
<1>. QED
  BY <1>6, <1>7 DEF v

\* h shows the hash with what c gives for the fields of S.
Fills(h, S, c) ==
    /\ Sound(h) /\ h.meta.lapsed = FALSE
    /\ \A f \in Fields : Alive(h.row)[f] = IF f \in S THEN c[f] ELSE Hash!Held[f]

LEMMA BeginsFilling ==
    ASSUME NEW h, Begins(h), NEW c
    PROVE  Fills(h, {}, c)
BY DEF Begins, Fills

LEMMA FillsMore ==
    ASSUME NEW h, NEW S, NEW c, Fills(h, S, c), NEW g, NEW f \in Fields, NEW b, NEW s,
           Becomes(h, g, f, b, s), c[f] = IF Lasts(b) THEN b ELSE Absent
    PROVE  Fills(g, S \cup {f}, c) /\ g.out = s
<1>1. Sound(h) /\ h.meta.lapsed = FALSE
  BY DEF Fills
<1>2. /\ Sound(g) /\ g.meta.lapsed = h.meta.lapsed /\ g.out = s
      /\ \A e \in Fields \ {f} : Alive(g.row)[e] = Alive(h.row)[e] /\ g.row[e] = h.row[e]
      /\ Alive(g.row)[f] = IF Lasts(b) THEN b ELSE Absent
      /\ g.row[f] = b
  BY <1>1, AliveBecomes
<1>. QED
  BY <1>1, <1>2 DEF Fills

LEMMA FillsHeld ==
    ASSUME HashContext, HashInv, NEW h, NEW S, NEW c, Fills(h, S, c), Hash!Commit(h), now' = now
    PROVE  HashInv' /\ Hash!Held' = [f \in Fields |-> IF f \in S THEN c[f] ELSE Hash!Held[f]]
<1>1. HashInv' /\ Hash!Held' = Alive(h.row)
  BY CommitKeeps DEF Fills
<1>2. Alive(h.row) = [f \in Fields |-> Alive(h.row)[f]]
  BY DEF Alive
<1>. QED
  BY <1>1, <1>2 DEF Fills

LEMMA ThereIs ==
    ASSUME NEW S, S \subseteq Fields
    PROVE  Hash!Hashes!There(S) = {f \in S : Hash!Held[f] # Absent}
BY DEF Hash!Hashes!There

LEMMA HashesCardinality == \A S : Hash!Hashes!Cardinality(S) = Cardinality(S)
BY Zenon DEF Hash!Hashes!Cardinality, Hash!Hashes!IsFiniteSet, Cardinality, IsFiniteSet

\* HSET refines HSET.
LEMMA HSetRefines ==
    ASSUME HashContext, HashInv, NEW ps \in HashPairs, Hash!HSet(ps), now' = now
    PROVE  HashInv' /\ Hash!Hashes!HSet(ps)
<1>. DEFINE n == Len(ps)
            Skip(i) == IF Hash!Live THEN Hash!Passed(ps, i) ELSE Hash!Seconded(ps, i)
            Val(f) == IF Hash!Live THEN Hash!Hashes!LastOf(ps, f) ELSE Hash!Hashes!FirstOfField(ps, f)
            c == [f \in Fields |-> Cell(Val(f), 0)]
            Done(i) == {ps[j].field : j \in {k \in 1 .. i : ~Skip(k)}}
            New(S) == {f \in S : Hash!Held[f] = Absent}
            Fit(i, h) == Fills(h, Done(i), c) /\ Hash!Ones(h.out) = Cardinality(New(Done(i)))
            W == [i \in 0 .. n |-> {h \in Views : Fit(i, h)}]
<1>1. /\ n \in Nat /\ \A i \in 1 .. n : ps[i].field \in Fields /\ ps[i].val \in 0 .. MaxVal
      /\ Hash!Hashes!Written(ps) = {ps[i].field : i \in 1 .. n}
      /\ Hash!Hashes!Written(ps) \subseteq Fields
  BY PairIs
<1>2. PICK g : /\ g[0] = Hash!Prepared
               /\ \A i \in 1 .. n : g[i] = SetStep(ps, g[i - 1], i)
               /\ Hash!Commit(g[n]) /\ ret' = Hash!Ones(g[n].out)
  BY HSetLoop
<1>3. \A i \in 1 .. n : ~Skip(i) => ps[i].val = Val(ps[i].field)
  BY WriterIs
<1>4. Done(n) = Hash!Hashes!Written(ps)
  <2>1. Done(n) \subseteq Hash!Hashes!Written(ps)
    BY <1>1
  <2>2. ASSUME NEW f \in Hash!Hashes!Written(ps) PROVE f \in Done(n)
    <3>1. \E i \in 1 .. n : ps[i].field = f /\ ~Skip(i)
      BY WritersAre
    <3>. HIDE DEF Skip
    <3>. QED
      BY <3>1
  <2>. QED
    BY <2>1, <2>2
<1>5. \A i \in 0 .. n : IsFiniteSet(New(Done(i)))
  <2>1. ASSUME NEW i \in 0 .. n PROVE IsFiniteSet(New(Done(i)))
    <3>1. New(Done(i)) \subseteq Fields
      BY <1>1
    <3>. HIDE DEF New, Done
    <3>. QED
      BY <3>1, HashAssumed, FS_Subset
  <2>. QED
    BY <2>1
<1>6. ASSUME NEW i \in 1 .. n, Skip(i) PROVE Done(i) = Done(i - 1)
  <2>1. \A k \in 1 .. i : k = i \/ k \in 1 .. i - 1
    BY <1>1
  <2>2. \A k \in 1 .. i - 1 : k \in 1 .. i
    BY <1>1
  <2>. HIDE DEF Skip
  <2>. QED
    BY <1>6, <2>1, <2>2
<1>7. ASSUME NEW i \in 1 .. n, ~Skip(i)
      PROVE  Done(i) = Done(i - 1) \cup {ps[i].field} /\ ps[i].field \notin Done(i - 1)
  <2>1. \A k \in 1 .. i : k = i \/ k \in 1 .. i - 1
    BY <1>1
  <2>2. i \in 1 .. i /\ \A k \in 1 .. i - 1 : k \in 1 .. i /\ k \in 1 .. n /\ i \in k + 1 .. n
    BY <1>1
  <2>3. ASSUME NEW k \in 1 .. i - 1, ps[k].field = ps[i].field PROVE Skip(k)
    BY <1>7, <2>2, <2>3 DEF Hash!Passed, Hash!Seconded
  <2>. HIDE DEF Skip
  <2>. QED
    BY <1>7, <2>1, <2>2, <2>3
<1>. HIDE DEF Done, c
<1>8. g[0] \in W[0]
  <2>1. Begins(g[0])
    BY <1>2, PreparedBegins
  <2>2. Done(0) = {}
    BY DEF Done
  <2>3. Fit(0, g[0])
    BY <2>1, <2>2, BeginsFilling, OnesIs, FS_EmptySet DEF Begins
  <2>4. g[0] \in Views /\ 0 \in 0 .. n
    BY <1>1, <2>1 DEF Begins, Sound
  <2>. HIDE DEF Fit
  <2>. QED
    BY <2>3, <2>4
<1>9. ASSUME NEW i \in 1 .. n, g[i - 1] \in W[i - 1] PROVE g[i] \in W[i]
  <2>. DEFINE h == g[i - 1]
              f == ps[i].field
  <2>1. i - 1 \in 0 .. n /\ i \in 0 .. n
    BY <1>1
  <2>2. h \in Views /\ Fit(i - 1, h)
    <3>. HIDE DEF Fit
    <3>. QED
      BY <1>9, <2>1
  <2>3. g[i] = IF Skip(i) THEN h ELSE Hash!SetField(h, ps[i])
    BY <1>2 DEF SetStep
  <2>. HIDE DEF Skip, h
  <2>4. CASE Skip(i)
    <3>1. Fit(i, g[i]) /\ g[i] \in Views
      BY <1>6, <2>2, <2>3, <2>4
    <3>. HIDE DEF Fit
    <3>. QED
      BY <2>1, <3>1
  <2>5. CASE ~Skip(i)
    <3>. DEFINE x == IF Hash!Kind(h, f) \in {"missing", "expired"} THEN 1 ELSE 0
                s == Append(h.out, x)
                b == Cell(ps[i].val, 0)
    <3>1. f \in Fields /\ Sound(h) /\ f \notin Done(i - 1)
      BY <1>1, <1>7, <2>2, <2>5 DEF Fills
    <3>2. Becomes(h, g[i], f, b, s)
      BY <1>1, <2>3, <2>5, <3>1, SetBecomes
    <3>3. c[f] = b /\ Lasts(b)
      <4>1. c[f] = b
        BY <1>3, <2>5, <3>1 DEF c
      <4>2. b # Absent /\ b.exp = 0
        <5>1. 0 \in 0 .. MaxNow /\ ps[i].val \in 0 .. MaxVal /\ h.row \in HashRows
          BY <1>1, <3>1, HashAssumed, ViewIs DEF Sound
        <5>. QED
          BY <3>1, <5>1, CellIs DEF Cell
      <4>. QED
        BY <4>1, <4>2 DEF Lasts
    <3>. HIDE DEF b, s, x
    <3>4. Fills(g[i], Done(i), c) /\ g[i].out = s
      <4>1. Fills(h, Done(i - 1), c)
        BY <2>2
      <4>2. Done(i) = Done(i - 1) \cup {f}
        BY <1>7, <2>5
      <4>3. c[f] = IF Lasts(b) THEN b ELSE Absent
        BY <3>3
      <4>. HIDE DEF f
      <4>4. Fills(g[i], Done(i - 1) \cup {f}, c) /\ g[i].out = s
        <5>. DEFINE y == g[i]
                    S == Done(i - 1)
        <5>1. f \in Fields /\ Becomes(h, y, f, b, s) /\ Fills(h, S, c)
          BY <3>1, <3>2, <4>1
        <5>. HIDE DEF y, S
        <5>. HIDE DEF n, W, Fit, New, Val
        <5>2. Fills(y, S \cup {f}, c) /\ y.out = s
          BY <4>3, <5>1, FillsMore
        <5>. QED
          BY <5>2 DEF y, S
      <4>. QED
        BY <4>2, <4>4
    <3>5. x = IF Hash!Held[f] = Absent THEN 1 ELSE 0
      <4>1. Alive(h.row)[f] = Hash!Held[f]
        BY <2>2, <3>1 DEF Fills
      <4>. QED
        BY <2>2, <3>1, <4>1, AliveIs DEF x
    <3>6. Hash!Ones(s) = Cardinality(New(Done(i)))
      <4>1. h.out \in Seq(Int \cup {Absent})
        BY <2>2, ViewIs
      <4>2. Hash!Ones(s) = Hash!Ones(h.out) + x
        BY <3>5, <4>1, OnesIs DEF s
      <4>3. IsFiniteSet(New(Done(i - 1))) /\ f \notin New(Done(i - 1))
        BY <1>5, <2>1, <3>1
      <4>4. Hash!Held[f] = Absent => New(Done(i)) = New(Done(i - 1)) \cup {f}
        BY <1>7, <2>5
      <4>5. Hash!Held[f] # Absent => New(Done(i)) = New(Done(i - 1))
        BY <1>7, <2>5
      <4>6. Hash!Ones(h.out) = Cardinality(New(Done(i - 1)))
        BY <2>2
      <4>. HIDE DEF New
      <4>7. /\ Cardinality(New(Done(i - 1)) \cup {f}) = Cardinality(New(Done(i - 1))) + 1
            /\ Cardinality(New(Done(i - 1))) \in Nat
        BY <4>3, FS_AddElement, FS_CardinalityType
      <4>8. CASE Hash!Held[f] = Absent
        BY <3>5, <4>2, <4>4, <4>6, <4>7, <4>8
      <4>9. CASE Hash!Held[f] # Absent
        BY <3>5, <4>2, <4>5, <4>6, <4>7, <4>9
      <4>. QED
        BY <4>8, <4>9
    <3>7. g[i] \in Views
      BY <3>4 DEF Fills, Sound
    <3>8. Fit(i, g[i])
      BY <3>4, <3>6
    <3>. HIDE DEF Fit
    <3>. QED
      BY <2>1, <3>7, <3>8
  <2>. QED
    BY <2>4, <2>5
<1>10. Fit(n, g[n])
  <2>. HIDE DEF W
  <2>1. g[n] \in W[n]
    BY <1>1, <1>8, <1>9, LoopKeeps
  <2>2. n \in 0 .. n
    BY <1>1
  <2>. HIDE DEF Fit
  <2>. QED
    BY <2>1, <2>2 DEF W
<1>11. HashInv' /\ Hash!Held' = [f \in Fields |-> IF f \in Done(n) THEN c[f] ELSE Hash!Held[f]]
  BY <1>2, <1>10, FillsHeld
<1>12. ret' = Hash!Hashes!Cardinality(Hash!Hashes!Written(ps) \ Hash!Hashes!There(Fields))
  <2>1. New(Done(n)) = Hash!Hashes!Written(ps) \ Hash!Hashes!There(Fields)
    BY <1>1, <1>4, ThereIs
  <2>. QED
    BY <1>2, <1>10, <2>1, HashesCardinality
<1>13. CASE Hash!Live
  <2>1. Hash!Held' = [f \in Fields |-> IF f \in Hash!Hashes!Written(ps)
                                       THEN [val |-> Hash!Hashes!LastOf(ps, f), exp |-> 0]
                                       ELSE Hash!Held[f]]
    BY <1>4, <1>11, <1>13 DEF c, Cell
  <2>. QED
    BY <1>11, <1>12, <2>1 DEF Hash!Hashes!HSet, Hash!Hashes!Rewritten
<1>14. CASE ~Hash!Live
  <2>1. Hash!Held' = [f \in Fields |-> IF f \in Hash!Hashes!Written(ps)
                                       THEN [val |-> Hash!Hashes!FirstOfField(ps, f), exp |-> 0]
                                       ELSE Hash!Held[f]]
    BY <1>4, <1>11, <1>14 DEF c, Cell
  <2>2. Hash!Hashes!Empty
    BY <1>14, HeldIs DEF Hash!Hashes!Empty, Hash!Hashes!None, Hash!NoRows
  <2>. QED
    BY <1>11, <1>12, <2>1, <2>2 DEF Hash!Hashes!HSet, Hash!Hashes!Rewritten
<1>. QED
  BY <1>13, <1>14

\* g is h after one field, which shows b from then on.
Turned(h, g, f, b) ==
    /\ Sound(g) /\ g.meta.lapsed = h.meta.lapsed
    /\ \A e \in Fields \ {f} : Alive(g.row)[e] = Alive(h.row)[e]
    /\ Alive(g.row)[f] = b

LEMMA TurnedIs ==
    ASSUME NEW h, Sound(h), NEW g, NEW f \in Fields, NEW c, NEW s, Becomes(h, g, f, c, s)
    PROVE  Turned(h, g, f, IF Lasts(c) THEN c ELSE Absent) /\ g.out = s
<1>1. /\ Sound(g) /\ g.meta.lapsed = h.meta.lapsed /\ g.out = s
      /\ \A e \in Fields \ {f} : Alive(g.row)[e] = Alive(h.row)[e] /\ g.row[e] = h.row[e]
      /\ Alive(g.row)[f] = IF Lasts(c) THEN c ELSE Absent
      /\ g.row[f] = c
  BY AliveBecomes
<1>. QED
  BY <1>1 DEF Turned

LEMMA FillsTurned ==
    ASSUME NEW h, NEW S, NEW c, Fills(h, S, c), NEW g, NEW f \in Fields, Turned(h, g, f, c[f])
    PROVE  Fills(g, S \cup {f}, c)
BY DEF Fills, Turned

\* A list of fields.
Prefix(fs, i) == {fs[j] : j \in 1 .. i}

LEMMA ListIs ==
    ASSUME HashContext, NEW fs \in Lists
    PROVE  /\ Len(fs) \in Nat /\ DOMAIN fs = 1 .. Len(fs)
           /\ \A i \in 1 .. Len(fs) : fs[i] \in Fields
           /\ Hash!Hashes!Named(fs) = Prefix(fs, Len(fs))
           /\ Prefix(fs, 0) = {}
           /\ \A i \in 0 .. Len(fs) : Prefix(fs, i) \subseteq Fields
           /\ \A i \in 1 .. Len(fs) : Prefix(fs, i) = Prefix(fs, i - 1) \cup {fs[i]}
<1>1. fs \in Seq(Fields)
  BY DEF HashContext, Hash!HashAssumption
<1>2. /\ Len(fs) \in Nat /\ DOMAIN fs = 1 .. Len(fs)
      /\ \A i \in 1 .. Len(fs) : fs[i] \in Fields
  BY <1>1
<1>3. Hash!Hashes!Named(fs) = Prefix(fs, Len(fs))
  BY <1>2 DEF Hash!Hashes!Named, Prefix
<1>4. Prefix(fs, 0) = {}
  BY DEF Prefix
<1>5. ASSUME NEW i \in 0 .. Len(fs) PROVE Prefix(fs, i) \subseteq Fields
  <2>1. \A j \in 1 .. i : j \in 1 .. Len(fs)
    BY <1>2
  <2>. QED
    BY <1>2, <2>1 DEF Prefix
<1>6. ASSUME NEW i \in 1 .. Len(fs) PROVE Prefix(fs, i) = Prefix(fs, i - 1) \cup {fs[i]}
  <2>1. /\ \A j \in 1 .. i : j = i \/ j \in 1 .. i - 1
        /\ i \in 1 .. i /\ \A j \in 1 .. i - 1 : j \in 1 .. i
    BY <1>2
  <2>. QED
    BY <2>1 DEF Prefix
<1>. QED
  BY <1>2, <1>3, <1>4, <1>5, <1>6

\* A loop whose steps keep the record right.
Safe == {h \in Views : Sound(h)}

LEMMA LoopIs ==
    ASSUME NEW n \in Nat, NEW v \in Safe, NEW F, Stays(F, n, Safe)
    PROVE  \E g : /\ g = [i \in 0 .. n |-> IF i = 0 THEN v ELSE F[<<g[i - 1], i>>]]
                  /\ \A i \in 0 .. n : g[i] \in Safe
<1>1. PICK g : Follows(g, n, Safe, v, F)
  BY LoopGoes
<1>2. /\ g \in [0 .. n -> Safe] /\ g[0] = v
      /\ \A i \in 1 .. n : g[i] = F[<<g[i - 1], i>>]
  BY <1>1 DEF Follows
<1>3. \A i \in 0 .. n : g[i] = IF i = 0 THEN v ELSE F[<<g[i - 1], i>>]
  BY <1>2
<1>4. g = [i \in 0 .. n |-> IF i = 0 THEN v ELSE F[<<g[i - 1], i>>]]
  BY <1>2, <1>3
<1>5. \A i \in 0 .. n : g[i] \in Safe
  BY <1>2
<1>. QED
  BY <1>4, <1>5

LEMMA SafeIs == \A h : h \in Safe <=> Sound(h)
BY DEF Safe, Sound

LEMMA DelTurns ==
    ASSUME HashContext, NEW h, Sound(h), NEW f \in Fields
    PROVE  LET g == Hash!DelField(h, f)
           IN  /\ Turned(h, g, f, Absent)
               /\ Alive(h.row)[f] # Absent => g.out = Append(h.out, 1)
               /\ Alive(h.row)[f] = Absent => g.out \in {h.out, Append(h.out, 0)}
<1>. DEFINE g == Hash!DelField(h, f)
            x == IF Hash!Expired(h.row[f].exp) THEN 0 ELSE 1
            b == Hash!Answer(h, x)
<1>1. h \in Views /\ h.row \in HashRows
  BY ViewIs DEF Sound
<1>2. CASE h.row[f] = Absent
  <2>1. g = h /\ ~AliveAt(h.row, f)
    BY <1>2 DEF Hash!DelField, AliveAt
  <2>2. Alive(h.row)[f] = Absent
    BY <1>1, <2>1, AliveIs
  <2>. QED
    BY <2>1, <2>2 DEF Turned
<1>3. CASE h.row[f] # Absent
  <2>1. g = Hash!RemoveField(b, f)
    BY <1>3 DEF Hash!DelField
  <2>2. x \in Int \cup {Absent}
    OBVIOUS
  <2>3. x = IF AliveAt(h.row, f) THEN 1 ELSE 0
    <3>1. h.row[f].exp \in Nat
      BY <1>1, <1>3, CellIs
    <3>. QED
      BY <1>3, <3>1 DEF AliveAt, Hash!Expired
  <2>. HIDE DEF x, g
  <2>4. b \in Views /\ b.meta = h.meta /\ b.row = h.row /\ b.out = Append(h.out, x) /\ Sound(b)
    BY <1>1, <2>2, AnswerIs
  <2>. HIDE DEF b
  <2>5. Becomes(b, g, f, Absent, b.out)
    BY <1>3, <2>1, <2>4, RemoveBecomes
  <2>6. Turned(b, g, f, IF Lasts(Absent) THEN Absent ELSE Absent) /\ g.out = b.out
    BY <2>4, <2>5, TurnedIs
  <2>7. Turned(h, g, f, Absent) /\ g.out = Append(h.out, x)
    BY <2>4, <2>6 DEF Turned
  <2>8. Alive(h.row)[f] # Absent <=> AliveAt(h.row, f)
    BY <1>1, AliveIs
  <2>. QED
    BY <2>3, <2>7, <2>8 DEF g
<1>. QED
  BY <1>2, <1>3

LEMMA HDelLoop ==
    ASSUME HashContext, HashInv, NEW fs \in Lists, Hash!Live, Hash!HDel(fs)
    PROVE  \E g : /\ g[0] = Hash!Here
                  /\ \A i \in 1 .. Len(fs) : g[i] = Hash!DelField(g[i - 1], fs[i])
                  /\ IF g[Len(fs)].out = <<>> THEN Hash!Unchanged(0)
                     ELSE Hash!Commit(g[Len(fs)]) /\ ret' = Hash!Ones(g[Len(fs)].out)
<1>. DEFINE n == Len(fs)
            v == Hash!Here
            F == [p \in Safe \X (1 .. n) |-> Hash!DelField(p[1], fs[p[2]])]
            Body(g) == [i \in 0 .. n |-> IF i = 0 THEN v ELSE Hash!DelField(g[i - 1], fs[i])]
            after == CHOOSE g : g = Body(g)
<1>1. n \in Nat /\ v \in Safe /\ \A i \in 1 .. n : fs[i] \in Fields
  BY ListIs, HereBegins, SafeIs DEF Begins
<1>2. IF after[n].out = <<>> THEN Hash!Unchanged(0)
      ELSE Hash!Commit(after[n]) /\ ret' = Hash!Ones(after[n].out)
  BY Zenon DEF Hash!HDel, Hash!Each
<1>. HIDE DEF v
<1>3. \A h \in Safe, i \in 1 .. n : F[<<h, i>>] = Hash!DelField(h, fs[i]) /\ F[<<h, i>>] \in Safe
  BY <1>1, DelTurns, SafeIs DEF Turned
<1>. HIDE DEF F
<1>4. \E g : g = Body(g)
  <2>1. PICK g : /\ g = [i \in 0 .. n |-> IF i = 0 THEN v ELSE F[<<g[i - 1], i>>]]
                 /\ \A i \in 0 .. n : g[i] \in Safe
    <3>1. Stays(F, n, Safe)
      BY <1>3 DEF Stays
    <3>. QED
      BY <1>1, <3>1, LoopIs
  <2>2. \A i \in 0 .. n : i # 0 => i - 1 \in 0 .. n /\ i \in 1 .. n
    BY <1>1
  <2>3. g = Body(g)
    BY <1>3, <2>1, <2>2
  <2>. QED
    BY <2>3
<1>5. after = Body(after)
  BY <1>4
<1>. HIDE DEF after
<1>6. after[0] = v /\ \A i \in 1 .. n : after[i] = Hash!DelField(after[i - 1], fs[i])
  <2>1. 0 \in 0 .. n /\ \A i \in 1 .. n : i \in 0 .. n /\ i # 0
    BY <1>1
  <2>. QED
    BY <1>5, <2>1
<1>. QED
  BY <1>2, <1>6 DEF v

\* Where nothing is held, nothing is there and nothing goes.
LEMMA NothingThere ==
    ASSUME HashContext, HashInv, Hash!Held = Hash!NoRows, NEW S, S \subseteq Fields
    PROVE  /\ Hash!Hashes!There(S) = {} /\ Hash!Hashes!Cardinality(Hash!Hashes!There(S)) = 0
           /\ Hash!Hashes!Without(S) = Hash!Held
           /\ \A f \in Fields : Hash!Held[f] = Absent
<1>1. \A f \in Fields : Hash!Held[f] = Absent
  BY HeldIs
<1>2. Hash!Hashes!There(S) = {}
  BY <1>1, ThereIs
<1>3. Hash!Held = [f \in Fields |-> Hash!Held[f]]
  BY DEF Hash!Held
<1>4. Hash!Hashes!Without(S) = Hash!Held
  BY <1>1, <1>3 DEF Hash!Hashes!Without
<1>. QED
  BY <1>1, <1>2, <1>4, HashesCardinality, FS_EmptySet

\* HDEL refines HDEL.
LEMMA HDelRefines ==
    ASSUME HashContext, HashInv, NEW fs \in Lists, Hash!HDel(fs), now' = now
    PROVE  HashInv' /\ Hash!Hashes!HDel(fs)
<1>. DEFINE n == Len(fs)
            c == [f \in Fields |-> Absent]
            Old(S) == {f \in S : Hash!Held[f] # Absent}
            Fit(i, h) == Fills(h, Prefix(fs, i), c) /\ Hash!Ones(h.out) = Cardinality(Old(Prefix(fs, i)))
            W == [i \in 0 .. n |-> {h \in Views : Fit(i, h)}]
<1>1. /\ n \in Nat /\ \A i \in 1 .. n : fs[i] \in Fields
      /\ Hash!Hashes!Named(fs) = Prefix(fs, n) /\ Prefix(fs, 0) = {}
      /\ \A i \in 0 .. n : Prefix(fs, i) \subseteq Fields
      /\ \A i \in 1 .. n : Prefix(fs, i) = Prefix(fs, i - 1) \cup {fs[i]}
  BY ListIs
<1>2. Prefix(fs, n) \subseteq Fields /\ \A f \in Fields : c[f] = Absent
  BY <1>1
<1>. HIDE DEF c
<1>3. CASE ~Hash!Live
  <2>1. Hash!Unchanged(0)
    BY <1>3 DEF Hash!HDel
  <2>2. HashInv' /\ Hash!Held' = Hash!Held /\ ret' = 0
    BY <2>1, UnchangedKeeps DEF Hash!Unchanged
  <2>3. Hash!Held = Hash!NoRows
    BY <1>3, HeldIs
  <2>. QED
    BY <1>1, <1>2, <2>2, <2>3, NothingThere DEF Hash!Hashes!HDel
<1>4. CASE Hash!Live
  <2>1. PICK g : /\ g[0] = Hash!Here
                 /\ \A i \in 1 .. n : g[i] = Hash!DelField(g[i - 1], fs[i])
                 /\ IF g[n].out = <<>> THEN Hash!Unchanged(0)
                    ELSE Hash!Commit(g[n]) /\ ret' = Hash!Ones(g[n].out)
    BY <1>4, HDelLoop
  <2>2. g[0] \in W[0]
    <3>1. Begins(g[0])
      BY <1>4, <2>1, HereBegins
    <3>2. Fit(0, g[0])
      <4>1. Old({}) = {} /\ Hash!Ones(g[0].out) = 0
        BY <3>1, OnesIs DEF Begins
      <4>. HIDE DEF Old
      <4>2. Fills(g[0], {}, c)
        BY <3>1, BeginsFilling
      <4>. QED
        BY <1>1, <4>1, <4>2, FS_EmptySet
    <3>3. g[0] \in Views /\ 0 \in 0 .. n
      BY <1>1, <3>1 DEF Begins, Sound
    <3>. HIDE DEF Fit
    <3>. QED
      BY <3>2, <3>3
  <2>3. ASSUME NEW i \in 1 .. n, g[i - 1] \in W[i - 1] PROVE g[i] \in W[i]
    <3>. DEFINE h == g[i - 1]
                f == fs[i]
                P == Prefix(fs, i - 1)
    <3>1. i - 1 \in 0 .. n /\ i \in 0 .. n
      BY <1>1
    <3>2. h \in Views /\ Fit(i - 1, h)
      <4>. HIDE DEF Fit
      <4>. QED
        BY <2>3, <3>1
    <3>3. g[i] = Hash!DelField(h, f) /\ f \in Fields
      BY <1>1, <2>1
    <3>4. Fills(h, P, c) /\ Hash!Ones(h.out) = Cardinality(Old(P)) /\ Sound(h)
      BY <3>2 DEF Fills
    <3>5. Prefix(fs, i) = P \cup {f} /\ P \subseteq Fields
      BY <1>1, <3>1
    <3>. HIDE DEF h, f, P
    <3>6. /\ Turned(h, g[i], f, Absent)
          /\ Alive(h.row)[f] # Absent => g[i].out = Append(h.out, 1)
          /\ Alive(h.row)[f] = Absent => g[i].out \in {h.out, Append(h.out, 0)}
      BY <3>3, <3>4, DelTurns
    <3>7. Fills(g[i], P \cup {f}, c)
      BY <1>2, <3>3, <3>4, <3>6, FillsTurned
    <3>8. Alive(h.row)[f] = IF f \in P THEN Absent ELSE Hash!Held[f]
      BY <1>2, <3>3, <3>4 DEF Fills
    <3>9. h.out \in Seq(Int \cup {Absent}) /\ IsFiniteSet(Old(P))
      <4>1. Old(P) \subseteq Fields
        BY <3>5
      <4>. QED
        BY <3>2, <4>1, ViewIs, HashAssumed, FS_Subset
    <3>10. Hash!Ones(g[i].out) = Cardinality(Old(P \cup {f}))
      <4>1. CASE Alive(h.row)[f] # Absent
        <5>1. f \notin Old(P) /\ Old(P \cup {f}) = Old(P) \cup {f}
          BY <3>8, <4>1
        <5>. HIDE DEF Old
        <5>2. Cardinality(Old(P) \cup {f}) = Cardinality(Old(P)) + 1
          BY <3>9, <5>1, FS_AddElement
        <5>3. Hash!Ones(g[i].out) = Hash!Ones(h.out) + 1
          BY <3>6, <3>9, <4>1, OnesIs
        <5>. QED
          BY <3>4, <5>1, <5>2, <5>3
      <4>2. CASE Alive(h.row)[f] = Absent
        <5>1. Old(P \cup {f}) = Old(P)
          BY <3>8, <4>2
        <5>. HIDE DEF Old
        <5>2. Hash!Ones(g[i].out) = Hash!Ones(h.out)
          BY <3>6, <3>9, <4>2, OnesIs
        <5>. QED
          BY <3>4, <5>1, <5>2
      <4>. QED
        BY <4>1, <4>2
    <3>11. Fit(i, g[i]) /\ g[i] \in Views
      BY <3>5, <3>7, <3>10 DEF Fills, Sound
    <3>. HIDE DEF Fit
    <3>. QED
      BY <3>1, <3>11
  <2>4. Fit(n, g[n])
    <3>. HIDE DEF W
    <3>1. g[n] \in W[n]
      BY <1>1, <2>2, <2>3, LoopKeeps
    <3>2. n \in 0 .. n
      BY <1>1
    <3>. HIDE DEF Fit
    <3>. QED
      BY <3>1, <3>2 DEF W
  <2>5. Old(Prefix(fs, n)) = Hash!Hashes!There(Prefix(fs, n)) /\ IsFiniteSet(Old(Prefix(fs, n)))
    <3>1. Old(Prefix(fs, n)) \subseteq Fields
      BY <1>2
    <3>. QED
      BY <1>2, <3>1, ThereIs, HashAssumed, FS_Subset
  <2>6. CASE g[n].out # <<>>
    <3>1. HashInv' /\ Hash!Held' = [f \in Fields |-> IF f \in Prefix(fs, n) THEN c[f] ELSE Hash!Held[f]]
      BY <2>1, <2>4, <2>6, FillsHeld
    <3>2. Hash!Held' = Hash!Hashes!Without(Prefix(fs, n))
      BY <1>2, <3>1 DEF Hash!Hashes!Without
    <3>. QED
      BY <1>1, <2>1, <2>4, <2>5, <2>6, <3>1, <3>2, HashesCardinality DEF Hash!Hashes!HDel
  <2>7. CASE g[n].out = <<>>
    <3>1. Hash!Unchanged(0)
      BY <2>1, <2>7
    <3>2. HashInv' /\ Hash!Held' = Hash!Held /\ ret' = 0
      BY <3>1, UnchangedKeeps DEF Hash!Unchanged
    <3>3. Cardinality(Old(Prefix(fs, n))) = 0
      BY <2>4, <2>7, OnesIs
    <3>4. Old(Prefix(fs, n)) = {}
      <4>. HIDE DEF Old
      <4>. QED
        BY <2>5, <3>3, FS_EmptySet
    <3>5. Hash!Held = [f \in Fields |-> Hash!Held[f]]
      BY DEF Hash!Held
    <3>6. Hash!Held = Hash!Hashes!Without(Prefix(fs, n))
      BY <3>4, <3>5 DEF Hash!Hashes!Without
    <3>. QED
      BY <1>1, <2>5, <3>2, <3>3, <3>6, HashesCardinality DEF Hash!Hashes!HDel
  <2>. QED
    BY <2>6, <2>7
<1>. QED
  BY <1>3, <1>4

LEMMA AnswerTurns ==
    ASSUME NEW h, Sound(h), NEW f \in Fields, NEW x \in Int \cup {Absent}
    PROVE  LET g == Hash!Answer(h, x)
           IN  Turned(h, g, f, Alive(h.row)[f]) /\ g.out = Append(h.out, x)
<1>. DEFINE g == Hash!Answer(h, x)
<1>1. h \in Views
  BY DEF Sound
<1>2. g.meta = h.meta /\ g.row = h.row /\ g.out = Append(h.out, x) /\ Sound(g)
  BY <1>1, AnswerIs
<1>. HIDE DEF g
<1>. QED
  BY <1>2 DEF Turned, g

LEMMA RemoveTurns ==
    ASSUME HashContext, NEW h, Sound(h), NEW f \in Fields, h.row[f] # Absent, NEW x \in Int \cup {Absent}
    PROVE  LET g == Hash!RemoveField(Hash!Answer(h, x), f)
           IN  Turned(h, g, f, Absent) /\ g.out = Append(h.out, x)
<1>. DEFINE b == Hash!Answer(h, x)
            g == Hash!RemoveField(b, f)
<1>1. h \in Views
  BY DEF Sound
<1>2. b.meta = h.meta /\ b.row = h.row /\ b.out = Append(h.out, x) /\ Sound(b)
  BY <1>1, AnswerIs
<1>. HIDE DEF b
<1>3. Becomes(b, g, f, Absent, b.out)
  BY <1>2, RemoveBecomes
<1>. HIDE DEF g
<1>4. Turned(b, g, f, IF Lasts(Absent) THEN Absent ELSE Absent) /\ g.out = b.out
  BY <1>2, <1>3, TurnedIs
<1>. QED
  BY <1>2, <1>4 DEF Turned, g, b

LEMMA RetimeTurns ==
    ASSUME HashContext, NEW h, Sound(h), NEW f \in Fields, AliveAt(h.row, f), NEW x \in Int \cup {Absent},
           NEW at \in 0 .. MaxNow, at = 0 \/ ~(at <= now)
    PROVE  LET g == Hash!Retimed(Hash!Answer(h, x), f, at)
           IN  Turned(h, g, f, Cell(h.row[f].val, at)) /\ g.out = Append(h.out, x)
<1>. DEFINE b == Hash!Answer(h, x)
            g == Hash!Retimed(b, f, at)
            c == Cell(h.row[f].val, at)
<1>1. h \in Views /\ h.row \in HashRows
  BY ViewIs DEF Sound
<1>2. b.meta = h.meta /\ b.row = h.row /\ b.out = Append(h.out, x) /\ Sound(b)
  BY <1>1, AnswerIs
<1>3. Lasts(c)
  <2>1. h.row[f] # Absent
    BY DEF AliveAt
  <2>2. h.row[f].val \in 0 .. MaxVal
    BY <1>1, <2>1, CellIs
  <2>3. c # Absent /\ c.exp = at
    BY <1>1, <2>2, CellIs DEF Cell
  <2>. QED
    BY <2>3 DEF Lasts
<1>. HIDE DEF b, c
<1>4. Becomes(b, g, f, c, b.out)
  BY <1>2, RetimedBecomes DEF c
<1>. HIDE DEF g
<1>5. Turned(b, g, f, IF Lasts(c) THEN c ELSE Absent) /\ g.out = b.out
  BY <1>2, <1>4, TurnedIs
<1>. QED
  BY <1>2, <1>3, <1>5 DEF Turned, g, b, c

\* A step that turns what a field shows by T and answers by A.
HeldCells == Hash!Cells \cup {Absent}
Turns(h, g, f, T, A) ==
    Turned(h, g, f, T[Alive(h.row)[f]]) /\ g.out = Append(h.out, A[Alive(h.row)[f]])

LEMMA AliveCell ==
    ASSUME HashContext, NEW h, Sound(h), NEW f \in Fields
    PROVE  /\ Alive(h.row)[f] \in HeldCells
           /\ AliveAt(h.row, f) => /\ Alive(h.row)[f] = h.row[f] /\ h.row[f] # Absent
                                   /\ h.row[f] \in Hash!Cells
                                   /\ h.row[f] = Cell(h.row[f].val, h.row[f].exp)
                                   /\ h.row[f].val \in Int \cup {Absent}
                                   /\ h.row[f].val \in 0 .. MaxVal /\ h.row[f].exp \in 0 .. MaxNow
           /\ ~AliveAt(h.row, f) => Alive(h.row)[f] = Absent
<1>1. h \in Views /\ h.row \in HashRows
  BY ViewIs DEF Sound
<1>2. Alive(h.row)[f] = IF AliveAt(h.row, f) THEN h.row[f] ELSE Absent
  BY <1>1, AliveIs
<1>3. AliveAt(h.row, f) => h.row[f] # Absent /\ h.row[f] \in Hash!Cells
  BY <1>1, CellIs DEF AliveAt
<1>4. ASSUME NEW b \in Hash!Cells
      PROVE  b = Cell(b.val, b.exp) /\ b.val \in Int \cup {Absent} /\ b.val \in 0 .. MaxVal /\ b.exp \in 0 .. MaxNow
  BY DEF Hash!Cells, Cell
<1>. QED
  BY <1>2, <1>3, <1>4 DEF HeldCells

\* The purge around the step of a command.
PurgeOr(h, f, none, x) ==
    CASE Hash!Kind(h, f) = "missing" -> Hash!Answer(h, none)
      [] Hash!Kind(h, f) = "expired" -> Hash!Answer(Hash!RemoveField(h, f), none)
      [] OTHER -> x

LEMMA PurgeTurns ==
    ASSUME HashContext, NEW h, Sound(h), NEW f \in Fields, NEW none \in Int \cup {Absent}, NEW x,
           NEW T, NEW A, T[Absent] = Absent, A[Absent] = none,
           AliveAt(h.row, f) => Turns(h, x, f, T, A)
    PROVE  Turns(h, PurgeOr(h, f, none, x), f, T, A)
<1>. DEFINE g == PurgeOr(h, f, none, x)
<1>0. h \in Views
  BY DEF Sound
<1>1. /\ Hash!Kind(h, f) \in {"missing", "persistent", "expired", "live"}
      /\ Hash!Kind(h, f) = "missing" <=> h.row[f] = Absent
      /\ Hash!Kind(h, f) \in {"persistent", "live"} <=> AliveAt(h.row, f)
      /\ Hash!Kind(h, f) \in {"missing", "expired"} <=> ~AliveAt(h.row, f)
  BY <1>0, KindIsOf, AliveIs
<1>2. CASE Hash!Kind(h, f) \in {"persistent", "live"}
  <2>1. g = x
    BY <1>2 DEF PurgeOr
  <2>. QED
    BY <1>1, <1>2, <2>1
<1>3. CASE Hash!Kind(h, f) = "missing"
  <2>1. g = Hash!Answer(h, none)
    BY <1>3 DEF PurgeOr
  <2>2. Turned(h, Hash!Answer(h, none), f, Alive(h.row)[f]) /\ Hash!Answer(h, none).out = Append(h.out, none)
    BY AnswerTurns
  <2>3. Alive(h.row)[f] = Absent
    BY <1>1, <1>3, AliveCell
  <2>. HIDE DEF g
  <2>. QED
    BY <2>1, <2>2, <2>3 DEF Turns, g
<1>4. CASE Hash!Kind(h, f) = "expired"
  <2>. DEFINE b == Hash!RemoveField(h, f)
  <2>1. g = Hash!Answer(b, none)
    BY <1>4 DEF PurgeOr
  <2>2. Alive(h.row)[f] = Absent /\ h.row[f] # Absent
    BY <1>1, <1>4, AliveCell
  <2>3. Becomes(h, b, f, Absent, h.out)
    BY <2>2, RemoveBecomes
  <2>. HIDE DEF b
  <2>4. Turned(h, b, f, IF Lasts(Absent) THEN Absent ELSE Absent) /\ b.out = h.out
    BY <2>3, TurnedIs
  <2>5. Sound(b)
    BY <2>4 DEF Turned
  <2>. DEFINE d == Hash!Answer(b, none)
  <2>6. Turned(b, d, f, Alive(b.row)[f]) /\ d.out = Append(b.out, none)
    BY <2>5, AnswerTurns
  <2>. HIDE DEF g, d
  <2>7. Turned(h, d, f, Absent) /\ d.out = Append(h.out, none)
    BY <2>4, <2>6 DEF Turned
  <2>. QED
    BY <2>1, <2>2, <2>7 DEF Turns, g, d
<1>. QED
  BY <1>1, <1>2, <1>3, <1>4

\* All steps of a list turn by T and A; turning twice is turning once.
AllTurn(g, fs, T, A) == \A i \in 1 .. Len(fs) : Sound(g[i - 1]) => Turns(g[i - 1], g[i], fs[i], T, A)
Settles(T) == T[Absent] = Absent /\ \A b \in HeldCells : T[b] \in HeldCells /\ T[T[b]] = T[b]
Filled(fs, T) == [f \in Fields |-> IF f \in Hash!Hashes!Named(fs) THEN T[Hash!Held[f]] ELSE Hash!Held[f]]
Replies(fs, T, A) ==
    [i \in DOMAIN fs |-> A[IF Hash!Hashes!Again(fs, i) THEN T[Hash!Held[fs[i]]] ELSE Hash!Held[fs[i]]]]

LEMMA AgainIs ==
    ASSUME HashContext, NEW fs \in Lists, NEW i \in 1 .. Len(fs)
    PROVE  Hash!Hashes!Again(fs, i) <=> fs[i] \in Prefix(fs, i - 1)
BY DEF Hash!Hashes!Again, Prefix

LEMMA ThroughFills ==
    ASSUME HashContext, HashInv, Hash!Live, NEW fs \in Lists, NEW g, g[0] = Hash!Here,
           NEW T, NEW A, Settles(T), AllTurn(g, fs, T, A)
    PROVE  /\ Sound(g[Len(fs)]) /\ g[Len(fs)].meta.lapsed = FALSE
           /\ Alive(g[Len(fs)].row) = Filled(fs, T)
           /\ g[Len(fs)].out = Replies(fs, T, A)
<1>. DEFINE n == Len(fs)
            c == [f \in Fields |-> T[Hash!Held[f]]]
            Reply(j) == A[IF Hash!Hashes!Again(fs, j) THEN T[Hash!Held[fs[j]]] ELSE Hash!Held[fs[j]]]
            Fit(i, h) == /\ Fills(h, Prefix(fs, i), c)
                          /\ h.out = [j \in 1 .. i |-> Reply(j)]
            W == [i \in 0 .. n |-> {h \in Views : Fit(i, h)}]
<1>1. /\ n \in Nat /\ \A i \in 1 .. n : fs[i] \in Fields
      /\ Hash!Hashes!Named(fs) = Prefix(fs, n) /\ Prefix(fs, 0) = {} /\ DOMAIN fs = 1 .. n
      /\ \A i \in 0 .. n : Prefix(fs, i) \subseteq Fields
      /\ \A i \in 1 .. n : Prefix(fs, i) = Prefix(fs, i - 1) \cup {fs[i]}
  BY ListIs
<1>2. \A f \in Fields : c[f] = T[Hash!Held[f]] /\ Hash!Held[f] \in HeldCells
  <2>1. ASSUME NEW f \in Fields PROVE Hash!Held[f] \in HeldCells
    BY DEF HashInv, HashRows, HeldCells, Hash!Held
  <2>. QED
    BY <2>1
<1>. HIDE DEF c, Reply
<1>3. g[0] \in W[0]
  <2>1. Begins(g[0])
    BY HereBegins
  <2>2. Fit(0, g[0])
    <3>1. g[0].out = [j \in 1 .. 0 |-> Reply(j)]
      BY <2>1 DEF Begins
    <3>2. Fills(g[0], {}, c)
      BY <2>1, BeginsFilling
    <3>. QED
      BY <1>1, <3>1, <3>2
  <2>3. g[0] \in Views /\ 0 \in 0 .. n
    BY <1>1, <2>1 DEF Begins, Sound
  <2>. HIDE DEF Fit
  <2>. QED
    BY <2>2, <2>3
<1>4. ASSUME NEW i \in 1 .. n, g[i - 1] \in W[i - 1] PROVE g[i] \in W[i]
  <2>. DEFINE h == g[i - 1]
              f == fs[i]
              P == Prefix(fs, i - 1)
              b == Alive(h.row)[f]
  <2>1. i - 1 \in 0 .. n /\ i \in 0 .. n
    BY <1>1
  <2>2. h \in Views /\ Fit(i - 1, h)
    <3>. HIDE DEF Fit
    <3>. QED
      BY <1>4, <2>1
  <2>3. /\ Fills(h, P, c) /\ h.out = [j \in 1 .. i - 1 |-> Reply(j)] /\ Sound(h)
        /\ f \in Fields /\ Prefix(fs, i) = P \cup {f} /\ (Hash!Hashes!Again(fs, i) <=> f \in P)
    BY <1>1, <2>2, AgainIs DEF Fills
  <2>4. Turned(h, g[i], f, T[b]) /\ g[i].out = Append(h.out, A[b])
    BY <2>3 DEF AllTurn, Turns
  <2>5. b = IF f \in P THEN c[f] ELSE Hash!Held[f]
    BY <2>3 DEF Fills
  <2>6. T[b] = c[f] /\ A[b] = Reply(i)
    <3>1. CASE f \in P
      <4>1. b = T[Hash!Held[f]]
        BY <1>2, <2>3, <2>5, <3>1
      <4>. HIDE DEF b
      <4>. QED
        BY <1>2, <2>3, <3>1, <4>1 DEF Settles, Reply
    <3>2. CASE f \notin P
      <4>1. b = Hash!Held[f]
        BY <2>5, <3>2
      <4>. HIDE DEF b
      <4>. QED
        BY <1>2, <2>3, <3>2, <4>1 DEF Reply
    <3>. QED
      BY <3>1, <3>2
  <2>. HIDE DEF h, f, P, b
  <2>7. Fills(g[i], P \cup {f}, c)
    BY <2>3, <2>4, <2>6, FillsTurned
  <2>8. g[i].out = [j \in 1 .. i |-> Reply(j)]
    <3>. DEFINE s == [j \in 1 .. i - 1 |-> Reply(j)]
                t == [j \in 1 .. i |-> Reply(j)]
    <3>0. i \in Nat /\ i # 0
      BY <1>1
    <3>1. s \in Seq({Reply(j) : j \in 1 .. i}) /\ Len(s) = i - 1
      <4>1. i - 1 \in Nat /\ \A j \in 1 .. i - 1 : j \in 1 .. i
        BY <3>0
      <4>. QED
        BY <4>1
    <3>2. Append(s, Reply(i)) = t
      <4>1. DOMAIN Append(s, Reply(i)) = 1 .. i
        BY <3>0, <3>1
      <4>2. ASSUME NEW j \in 1 .. i PROVE Append(s, Reply(i))[j] = Reply(j)
        <5>1. CASE j = i
          BY <3>0, <3>1, <5>1
        <5>2. CASE j # i
          <6>1. j \in 1 .. i - 1
            BY <3>0, <5>2
          <6>2. s[j] = Reply(j)
            BY <6>1
          <6>. HIDE DEF s
          <6>. QED
            BY <3>0, <3>1, <6>1, <6>2
        <5>. QED
          BY <5>1, <5>2
      <4>3. Append(s, Reply(i)) = [j \in 1 .. i |-> Append(s, Reply(i))[j]]
        <5>1. Append(s, Reply(i)) \in Seq({Reply(j) : j \in 1 .. i})
          <6>1. Reply(i) \in {Reply(j) : j \in 1 .. i}
            BY <3>0
          <6>. HIDE DEF s
          <6>. QED
            BY <3>1, <6>1
        <5>. HIDE DEF s
        <5>2. Len(Append(s, Reply(i))) = i
          BY <3>0, <3>1
        <5>. DEFINE q == Append(s, Reply(i))
                    R == {Reply(j) : j \in 1 .. i}
        <5>. HIDE DEF q, R
        <5>3. q \in Seq(R) /\ Len(q) = i
          BY <5>1, <5>2 DEF q, R
        <5>4. q \in [1 .. i -> R]
          BY <5>3
        <5>5. q = [j \in 1 .. i |-> q[j]]
          BY <5>4
        <5>. QED
          BY <5>5 DEF q
      <4>. HIDE DEF s
      <4>. QED
        BY <4>2, <4>3
    <3>. QED
      BY <2>3, <2>4, <2>6, <3>2
  <2>9. Fit(i, g[i]) /\ g[i] \in Views
    BY <2>3, <2>7, <2>8 DEF Fills, Sound
  <2>. HIDE DEF Fit
  <2>. QED
    BY <2>1, <2>9
<1>5. Fit(n, g[n])
  <2>. HIDE DEF W
  <2>1. g[n] \in W[n]
    BY <1>1, <1>3, <1>4, LoopKeeps
  <2>2. n \in 0 .. n
    BY <1>1
  <2>. HIDE DEF Fit
  <2>. QED
    BY <2>1, <2>2 DEF W
<1>6. Alive(g[n].row) = Filled(fs, T)
  <2>1. Alive(g[n].row) = [f \in Fields |-> Alive(g[n].row)[f]]
    BY DEF Alive
  <2>. QED
    BY <1>1, <1>2, <1>5, <2>1 DEF Fills, Filled
<1>7. g[n].out = Replies(fs, T, A)
  BY <1>1, <1>5 DEF Reply, Replies
<1>. QED
  BY <1>5, <1>6, <1>7 DEF Fills

\* Once everything has run out nothing is held.
LEMMA AllGoneIs ==
    ASSUME HashContext, HashInv, Hash!Live, Hash!AllGone
    PROVE  Hash!Held = Hash!NoRows /\ \A f \in Fields : ~Hash!LiveRow(f)
<1>1. /\ meta \in Hash!Metas /\ row \in HashRows /\ CountsOf(meta, row)
      /\ meta.upper # 0 /\ now > meta.upper /\ meta.persist = 0
  BY DEF HashInv, Hash!Live, Hash!AllGone
<1>2. Cardinality(Lasting(row)) = 0 /\ IsFiniteSet(Lasting(row)) /\ meta.upper \in Nat /\ now \in Nat
  BY <1>1, RowedIs, MetaIs, HashAssumed DEF CountsOf
<1>3. Lasting(row) = {}
  BY <1>2, FS_EmptySet
<1>4. ASSUME NEW f \in Fields PROVE ~Hash!LiveRow(f)
  <2>1. CASE row[f] = Absent
    BY <2>1 DEF Hash!LiveRow
  <2>2. CASE row[f] # Absent
    <3>1. row[f].exp \in Nat /\ row[f].exp # 0
      BY <1>1, <1>3, <2>2, CellIs DEF Lasting
    <3>2. row[f].exp <= meta.upper
      BY <1>1, <2>2, <3>1 DEF CountsOf, Bounding
    <3>. QED
      BY <1>1, <1>2, <3>1, <3>2 DEF Hash!LiveRow, Hash!Expired
  <2>. QED
    BY <2>1, <2>2
<1>5. Hash!Held = Hash!NoRows
  BY <1>4 DEF Hash!Held, Hash!NoRows
<1>. QED
  BY <1>4, <1>5

\* How a command that goes through fields ends.
Ends(h) ==
    IF h.meta = meta /\ h.row = row THEN Hash!Unchanged(h.out) ELSE Hash!Commit(h) /\ ret' = h.out

LEMMA ThroughDoes ==
    ASSUME HashContext, HashInv, NEW fs \in Lists, now' = now, NEW T, NEW A, Settles(T),
           \/ ~Hash!Readable /\ Hash!Unchanged([i \in DOMAIN fs |-> A[Absent]])
           \/ Hash!Readable /\ \E g : g[0] = Hash!Here /\ AllTurn(g, fs, T, A) /\ Ends(g[Len(fs)])
    PROVE  HashInv' /\ Hash!Held' = Filled(fs, T) /\ ret' = Replies(fs, T, A)
<1>1. CASE ~Hash!Readable /\ Hash!Unchanged([i \in DOMAIN fs |-> A[Absent]])
  <2>1. HashInv' /\ Hash!Held' = Hash!Held /\ ret' = [i \in DOMAIN fs |-> A[Absent]]
    BY <1>1, UnchangedKeeps DEF Hash!Unchanged
  <2>2. Hash!Held = Hash!NoRows
    BY <1>1, HeldIs, AllGoneIs DEF Hash!Readable
  <2>3. \A f \in Fields : Hash!Held[f] = Absent
    BY <2>2, HeldIs
  <2>4. Hash!Held = [f \in Fields |-> Hash!Held[f]]
    BY DEF Hash!Held
  <2>5. Hash!Held = Filled(fs, T)
    BY <2>3, <2>4 DEF Filled, Settles
  <2>6. \A i \in DOMAIN fs : fs[i] \in Fields
    BY ListIs
  <2>7. Replies(fs, T, A) = [i \in DOMAIN fs |-> A[Absent]]
    BY <2>3, <2>6 DEF Replies, Settles
  <2>. QED
    BY <2>1, <2>5, <2>7
<1>2. CASE Hash!Readable /\ \E g : g[0] = Hash!Here /\ AllTurn(g, fs, T, A) /\ Ends(g[Len(fs)])
  <2>1. PICK g : g[0] = Hash!Here /\ AllTurn(g, fs, T, A) /\ Ends(g[Len(fs)])
    BY <1>2
  <2>2. Hash!Live
    BY <1>2 DEF Hash!Readable
  <2>. DEFINE h == g[Len(fs)]
  <2>3. /\ Sound(h) /\ h.meta.lapsed = FALSE
        /\ Alive(h.row) = Filled(fs, T) /\ h.out = Replies(fs, T, A)
    BY <2>1, <2>2, ThroughFills
  <2>. HIDE DEF h
  <2>4. Ends(h)
    BY <2>1 DEF h
  <2>5. CASE h.meta = meta /\ h.row = row
    <3>1. Hash!Unchanged(h.out)
      BY <2>4, <2>5 DEF Ends
    <3>2. HashInv' /\ Hash!Held' = Hash!Held /\ ret' = h.out
      BY <3>1, UnchangedKeeps DEF Hash!Unchanged
    <3>3. Hash!Held = Alive(row)
      BY <2>2, HeldIs
    <3>. QED
      BY <2>3, <2>5, <3>2, <3>3
  <2>6. CASE ~(h.meta = meta /\ h.row = row)
    <3>1. Hash!Commit(h) /\ ret' = h.out
      BY <2>4, <2>6 DEF Ends
    <3>2. HashInv' /\ Hash!Held' = Alive(h.row)
      BY <2>3, <3>1, CommitKeeps
    <3>. QED
      BY <2>3, <3>1, <3>2
  <2>. QED
    BY <2>5, <2>6
<1>. QED
  BY <1>1, <1>2

LEMMA HeldCell ==
    ASSUME HashContext, HashInv, NEW f \in Fields
    PROVE  /\ Hash!Held[f] \in HeldCells
           /\ Hash!Held[f] # Absent => /\ Hash!Held[f] = Cell(Hash!Held[f].val, Hash!Held[f].exp)
                                       /\ Hash!Held[f].val \in 0 .. MaxVal
                                       /\ Hash!Held[f].exp \in 0 .. MaxNow
                                       /\ Lasts(Hash!Held[f])
<1>1. Hash!Held[f] \in {Absent, row[f]} /\ row[f] \in HeldCells /\ (Hash!Held[f] = row[f] \/ Hash!Held[f] = Absent)
  BY DEF HashInv, HashRows, HeldCells, Hash!Held
<1>2. ASSUME NEW b \in Hash!Cells
      PROVE  b = Cell(b.val, b.exp) /\ b.val \in 0 .. MaxVal /\ b.exp \in 0 .. MaxNow
  BY DEF Hash!Cells, Cell
<1>3. Hash!Held[f] # Absent => Hash!LiveRow(f) /\ Hash!Held[f] = row[f]
  BY DEF Hash!Held
<1>4. ASSUME Hash!LiveRow(f) PROVE Lasts(row[f])
  <2>1. row[f].exp \in Nat /\ row[f] # Absent
    BY <1>4, CellIs DEF HashInv, Hash!LiveRow
  <2>. QED
    BY <1>4, <2>1 DEF Hash!LiveRow, Hash!Expired, Lasts
<1>. QED
  BY <1>1, <1>2, <1>3, <1>4 DEF HeldCells

\* HGETDEL.
TakeStep(h, f) ==
    Hash!RemoveField(Hash!Answer(h, h.row[f].val), f)
TakeTurn(T, A) ==
    \A h \in Safe, f \in Fields : AliveAt(h.row, f) => Turns(h, TakeStep(h, f), f, T, A)

LEMMA TakeThrough ==
    ASSUME HashContext, HashInv, NEW fs \in Lists, Hash!HGetDel(fs),
           NEW T, NEW A, T[Absent] = Absent, A[Absent] = Absent, TakeTurn(T, A)
    PROVE  \/ ~Hash!Readable /\ Hash!Unchanged([i \in DOMAIN fs |-> A[Absent]])
           \/ Hash!Readable /\ \E g : g[0] = Hash!Here /\ AllTurn(g, fs, T, A) /\ Ends(g[Len(fs)])
<1>1. CASE ~Hash!Readable
  BY <1>1 DEF Hash!HGetDel, Hash!Through
<1>2. CASE Hash!Readable
  <2>. DEFINE n == Len(fs)
              v == Hash!Here
              Step(h, i) == PurgeOr(h, fs[i], Absent, TakeStep(h, fs[i]))
              F == [p \in Safe \X (1 .. n) |-> Step(p[1], p[2])]
              Body(g) == [i \in 0 .. n |-> IF i = 0 THEN v ELSE Step(g[i - 1], i)]
              after == CHOOSE g : g = Body(g)
  <2>1. n \in Nat /\ v \in Safe /\ \A i \in 1 .. n : fs[i] \in Fields
    BY <1>2, ListIs, HereBegins, SafeIs DEF Begins, Hash!Readable
  <2>2. Ends(after[n])
    BY <1>2, Zenon DEF Hash!HGetDel, Hash!Through, Hash!Each, PurgeOr, TakeStep, Ends
  <2>. HIDE DEF v
  <2>3. ASSUME NEW h \in Safe, NEW i \in 1 .. n PROVE Turns(h, Step(h, i), fs[i], T, A)
    <3>. DEFINE f == fs[i]
                x == TakeStep(h, f)
    <3>1. AliveAt(h.row, f) => Turns(h, x, f, T, A)
      BY <2>1 DEF TakeTurn
    <3>2. Sound(h) /\ f \in Fields /\ Absent \in Int \cup {Absent}
      BY <2>1, SafeIs
    <3>. HIDE DEF f, x
    <3>3. Turns(h, PurgeOr(h, f, Absent, x), f, T, A)
      BY <3>1, <3>2, PurgeTurns
    <3>. QED
      BY <3>3 DEF f, x
  <2>4. \A h \in Safe, i \in 1 .. n : Step(h, i) \in Safe
    BY <2>3, SafeIs DEF Turns, Turned
  <2>. HIDE DEF Step
  <2>5. \A h \in Safe, i \in 1 .. n : F[<<h, i>>] = Step(h, i) /\ F[<<h, i>>] \in Safe
    BY <2>4
  <2>. HIDE DEF F
  <2>6. \E g : g = Body(g)
    <3>1. PICK g : /\ g = [i \in 0 .. n |-> IF i = 0 THEN v ELSE F[<<g[i - 1], i>>]]
                   /\ \A i \in 0 .. n : g[i] \in Safe
      <4>1. Stays(F, n, Safe)
        BY <2>5 DEF Stays
      <4>. QED
        BY <2>1, <4>1, LoopIs
    <3>2. \A i \in 0 .. n : i # 0 => i - 1 \in 0 .. n /\ i \in 1 .. n
      BY <2>1
    <3>3. g = Body(g)
      BY <2>5, <3>1, <3>2
    <3>. QED
      BY <3>3
  <2>7. after = Body(after)
    BY <2>6
  <2>. HIDE DEF after
  <2>8. after[0] = v /\ \A i \in 1 .. n : after[i] = Step(after[i - 1], i)
    <3>1. 0 \in 0 .. n /\ \A i \in 1 .. n : i \in 0 .. n /\ i # 0
      BY <2>1
    <3>. QED
      BY <2>7, <3>1
  <2>9. AllTurn(after, fs, T, A)
    BY <2>3, <2>8, SafeIs DEF AllTurn
  <2>. QED
    BY <1>2, <2>2, <2>8, <2>9 DEF v
<1>. QED
  BY <1>1, <1>2

LEMMA HGetDelRefines ==
    ASSUME HashContext, HashInv, NEW fs \in Lists, Hash!HGetDel(fs), now' = now
    PROVE  HashInv' /\ Hash!Hashes!HGetDel(fs)
<1>. DEFINE T == [b \in HeldCells |-> Absent]
            A == [b \in HeldCells |-> IF b = Absent THEN Absent ELSE b.val]
<1>1. Absent \in HeldCells
  BY DEF HeldCells
<1>2. Settles(T) /\ T[Absent] = Absent /\ A[Absent] = Absent
  BY <1>1 DEF Settles
<1>3. TakeTurn(T, A)
  <2>1. ASSUME NEW h \in Safe, NEW f \in Fields, AliveAt(h.row, f)
        PROVE  Turns(h, TakeStep(h, f), f, T, A)
    <3>1. Sound(h)
      BY SafeIs
    <3>2. /\ Alive(h.row)[f] \in HeldCells /\ Alive(h.row)[f] = h.row[f] /\ h.row[f] # Absent
          /\ h.row[f].val \in Int \cup {Absent}
      BY <2>1, <3>1, AliveCell
    <3>3. T[Alive(h.row)[f]] = Absent /\ A[Alive(h.row)[f]] = h.row[f].val
      BY <3>2
    <3>. HIDE DEF T, A
    <3>. DEFINE x == h.row[f].val
                g == Hash!RemoveField(Hash!Answer(h, x), f)
    <3>. HIDE DEF x
    <3>4. Turned(h, g, f, Absent) /\ g.out = Append(h.out, x)
      BY <3>1, <3>2, RemoveTurns DEF x
    <3>. QED
      BY <3>3, <3>4 DEF Turns, TakeStep, x
  <2>. QED
    BY <2>1 DEF TakeTurn
<1>. HIDE DEF T, A
<1>4. HashInv' /\ Hash!Held' = Filled(fs, T) /\ ret' = Replies(fs, T, A)
  <2>1. \/ ~Hash!Readable /\ Hash!Unchanged([i \in DOMAIN fs |-> A[Absent]])
        \/ Hash!Readable /\ \E g : g[0] = Hash!Here /\ AllTurn(g, fs, T, A) /\ Ends(g[Len(fs)])
    BY <1>2, <1>3, TakeThrough
  <2>. QED
    BY <1>2, <2>1, ThroughDoes
<1>5. \A f \in Fields : Hash!Held[f] \in HeldCells
  BY HeldCell
<1>6. Hash!Held' = Hash!Hashes!Without(Hash!Hashes!Named(fs))
  BY <1>4, <1>5 DEF Filled, Hash!Hashes!Without, T
<1>7. ret' = Hash!Hashes!AnswersOnce(fs)
  <2>1. \A i \in DOMAIN fs : fs[i] \in Fields
    BY ListIs
  <2>2. ASSUME NEW i \in DOMAIN fs
        PROVE  A[IF Hash!Hashes!Again(fs, i) THEN T[Hash!Held[fs[i]]] ELSE Hash!Held[fs[i]]]
                 = IF Hash!Hashes!Again(fs, i) THEN Absent ELSE Hash!Hashes!ValueOf(fs[i])
    BY <1>1, <1>5, <2>1 DEF Hash!Hashes!ValueOf, T, A
  <2>. QED
    BY <1>4, <2>2 DEF Replies, Hash!Hashes!AnswersOnce
<1>. QED
  BY <1>4, <1>6, <1>7 DEF Hash!Hashes!HGetDel

\* Cells a command writes.
LEMMA NewCell ==
    ASSUME HashContext, NEW v \in 0 .. MaxVal, NEW at \in 0 .. MaxNow
    PROVE  /\ Cell(v, at) \in HeldCells /\ Cell(v, at) # Absent
           /\ Cell(v, at).val = v /\ Cell(v, at).exp = at
<1>1. Cell(v, at) \in Hash!Cells /\ Absent \notin Hash!Cells
  BY HashAssumed DEF Cell, Hash!Cells
<1>. QED
  BY <1>1 DEF Cell, HeldCells

LEMMA CellParts ==
    ASSUME NEW b \in HeldCells, b # Absent
    PROVE  b.val \in 0 .. MaxVal /\ b.exp \in 0 .. MaxNow /\ b = Cell(b.val, b.exp)
BY DEF HeldCells, Hash!Cells, Cell

\* HGETEX.
ReadStep(fs, action, at, h, f) ==
    IF action = "set" /\ at <= now
    THEN Hash!RemoveField(Hash!Answer(h, IF Len(fs) = 1 THEN Absent ELSE h.row[f].val), f)
    ELSE LET a == Hash!Answer(h, h.row[f].val)
         IN  CASE action = "discard" -> a
               [] action = "persist" -> Hash!Retimed(a, f, 0)
               [] action = "set" -> Hash!Retimed(a, f, at)
ReadTurn(fs, action, at, T, A) ==
    \A h \in Safe, f \in Fields : AliveAt(h.row, f) => Turns(h, ReadStep(fs, action, at, h, f), f, T, A)

LEMMA ReadThrough ==
    ASSUME HashContext, HashInv, NEW fs \in Lists, NEW action, NEW at, Hash!HGetEx(fs, action, at),
           NEW T, NEW A, T[Absent] = Absent, A[Absent] = Absent, ReadTurn(fs, action, at, T, A)
    PROVE  \/ ~Hash!Readable /\ Hash!Unchanged([i \in DOMAIN fs |-> A[Absent]])
           \/ Hash!Readable /\ \E g : g[0] = Hash!Here /\ AllTurn(g, fs, T, A) /\ Ends(g[Len(fs)])
<1>1. CASE ~Hash!Readable
  BY <1>1 DEF Hash!HGetEx, Hash!Through
<1>2. CASE Hash!Readable
  <2>. DEFINE n == Len(fs)
              v == Hash!Here
              Step(h, i) == PurgeOr(h, fs[i], Absent, ReadStep(fs, action, at, h, fs[i]))
              F == [p \in Safe \X (1 .. n) |-> Step(p[1], p[2])]
              Body(g) == [i \in 0 .. n |-> IF i = 0 THEN v ELSE Step(g[i - 1], i)]
              after == CHOOSE g : g = Body(g)
  <2>1. n \in Nat /\ v \in Safe /\ \A i \in 1 .. n : fs[i] \in Fields
    BY <1>2, ListIs, HereBegins, SafeIs DEF Begins, Hash!Readable
  <2>2. Ends(after[n])
    BY <1>2, Zenon DEF Hash!HGetEx, Hash!Through, Hash!Each, PurgeOr, ReadStep, Ends
  <2>. HIDE DEF v
  <2>3. ASSUME NEW h \in Safe, NEW i \in 1 .. n PROVE Turns(h, Step(h, i), fs[i], T, A)
    <3>. DEFINE f == fs[i]
                x == ReadStep(fs, action, at, h, f)
    <3>1. AliveAt(h.row, f) => Turns(h, x, f, T, A)
      BY <2>1 DEF ReadTurn
    <3>2. Sound(h) /\ f \in Fields /\ Absent \in Int \cup {Absent}
      BY <2>1, SafeIs
    <3>. HIDE DEF f, x
    <3>3. Turns(h, PurgeOr(h, f, Absent, x), f, T, A)
      BY <3>1, <3>2, PurgeTurns
    <3>. QED
      BY <3>3 DEF f, x
  <2>4. \A h \in Safe, i \in 1 .. n : Step(h, i) \in Safe
    BY <2>3, SafeIs DEF Turns, Turned
  <2>. HIDE DEF Step
  <2>5. \A h \in Safe, i \in 1 .. n : F[<<h, i>>] = Step(h, i) /\ F[<<h, i>>] \in Safe
    BY <2>4
  <2>. HIDE DEF F
  <2>6. \E g : g = Body(g)
    <3>1. PICK g : /\ g = [i \in 0 .. n |-> IF i = 0 THEN v ELSE F[<<g[i - 1], i>>]]
                   /\ \A i \in 0 .. n : g[i] \in Safe
      <4>1. Stays(F, n, Safe)
        BY <2>5 DEF Stays
      <4>. QED
        BY <2>1, <4>1, LoopIs
    <3>2. \A i \in 0 .. n : i # 0 => i - 1 \in 0 .. n /\ i \in 1 .. n
      BY <2>1
    <3>3. g = Body(g)
      BY <2>5, <3>1, <3>2
    <3>. QED
      BY <3>3
  <2>7. after = Body(after)
    BY <2>6
  <2>. HIDE DEF after
  <2>8. after[0] = v /\ \A i \in 1 .. n : after[i] = Step(after[i - 1], i)
    <3>1. 0 \in 0 .. n /\ \A i \in 1 .. n : i \in 0 .. n /\ i # 0
      BY <2>1
    <3>. QED
      BY <2>7, <3>1
  <2>9. AllTurn(after, fs, T, A)
    BY <2>3, <2>8, SafeIs DEF AllTurn
  <2>. QED
    BY <1>2, <2>2, <2>8, <2>9 DEF v
<1>. QED
  BY <1>1, <1>2

LEMMA HGetExRefines ==
    ASSUME HashContext, HashInv, NEW fs \in Lists, NEW action \in {"discard", "set", "persist"},
           NEW at \in 1 .. MaxNow, Hash!HGetEx(fs, action, at), now' = now
    PROVE  HashInv' /\ Hash!Hashes!HGetEx(fs, action, at)
<1>. DEFINE gone == action = "set" /\ at <= now
            next == IF action = "persist" THEN 0 ELSE at
            T == [b \in HeldCells |-> IF b = Absent \/ gone THEN Absent
                                      ELSE IF action = "discard" THEN b ELSE Cell(b.val, next)]
            A == [b \in HeldCells |-> IF b = Absent \/ (gone /\ Len(fs) = 1) THEN Absent ELSE b.val]
<1>1. Absent \in HeldCells /\ next \in 0 .. MaxNow /\ now \in Nat /\ MaxNow \in Nat
  BY HashAssumed DEF HeldCells
<1>2. Settles(T) /\ T[Absent] = Absent /\ A[Absent] = Absent
  <2>. HIDE DEF next
  <2>1. ASSUME NEW b \in HeldCells PROVE T[b] \in HeldCells /\ T[T[b]] = T[b]
    <3>1. CASE b = Absent \/ gone \/ action = "discard"
      BY <1>1, <3>1
    <3>2. CASE b # Absent /\ ~gone /\ action # "discard"
      <4>. DEFINE d == Cell(b.val, next)
      <4>1. d \in HeldCells /\ d # Absent /\ d.val = b.val
        BY <1>1, <3>2, CellParts, NewCell
      <4>2. T[b] = d
        BY <3>2
      <4>3. T[d] = Cell(d.val, next)
        <5>. HIDE DEF d
        <5>. QED
          BY <3>2, <4>1
      <4>. QED
        BY <4>1, <4>2, <4>3
    <3>. QED
      BY <3>1, <3>2
  <2>2. T[Absent] = Absent /\ A[Absent] = Absent
    BY <1>1
  <2>. HIDE DEF T
  <2>. QED
    BY <2>1, <2>2 DEF Settles
<1>3. ReadTurn(fs, action, at, T, A)
  <2>1. ASSUME NEW h \in Safe, NEW f \in Fields, AliveAt(h.row, f)
        PROVE  Turns(h, ReadStep(fs, action, at, h, f), f, T, A)
    <3>. DEFINE b == h.row[f]
                y == IF gone /\ Len(fs) = 1 THEN Absent ELSE b.val
    <3>1. Sound(h)
      BY SafeIs
    <3>2. /\ b \in HeldCells /\ Alive(h.row)[f] = b /\ b # Absent
          /\ b.val \in Int \cup {Absent} /\ y \in Int \cup {Absent}
      BY <2>1, <3>1, AliveCell
    <3>3. /\ T[b] = IF gone THEN Absent ELSE IF action = "discard" THEN b ELSE Cell(b.val, next)
          /\ A[b] = y
      BY <3>2
    <3>. HIDE DEF T, A
    <3>4. CASE gone
      <4>1. ReadStep(fs, action, at, h, f) = Hash!RemoveField(Hash!Answer(h, y), f)
        BY <3>4 DEF ReadStep
      <4>. HIDE DEF y, gone
      <4>2. LET g == Hash!RemoveField(Hash!Answer(h, y), f)
            IN  Turned(h, g, f, Absent) /\ g.out = Append(h.out, y)
        BY <3>1, <3>2, RemoveTurns
      <4>. QED
        BY <3>2, <3>3, <3>4, <4>1, <4>2 DEF Turns
    <3>5. CASE ~gone /\ action = "discard"
      <4>1. ReadStep(fs, action, at, h, f) = Hash!Answer(h, y) /\ y = b.val
        BY <3>5 DEF ReadStep
      <4>. HIDE DEF y, gone
      <4>2. LET g == Hash!Answer(h, y)
            IN  Turned(h, g, f, Alive(h.row)[f]) /\ g.out = Append(h.out, y)
        BY <3>1, <3>2, AnswerTurns
      <4>. QED
        BY <3>2, <3>3, <3>5, <4>1, <4>2 DEF Turns
    <3>6. CASE ~gone /\ action # "discard"
      <4>1. ReadStep(fs, action, at, h, f) = Hash!Retimed(Hash!Answer(h, y), f, next) /\ y = b.val
        BY <3>6 DEF ReadStep
      <4>2. next = 0 \/ ~(next <= now)
        BY <3>6
      <4>. HIDE DEF y, gone, next
      <4>3. LET g == Hash!Retimed(Hash!Answer(h, y), f, next)
            IN  Turned(h, g, f, Cell(h.row[f].val, next)) /\ g.out = Append(h.out, y)
        BY <1>1, <2>1, <3>1, <3>2, <4>2, RetimeTurns
      <4>. QED
        BY <3>2, <3>3, <3>6, <4>1, <4>3 DEF Turns
    <3>. QED
      BY <3>4, <3>5, <3>6
  <2>. HIDE DEF T, A
  <2>. QED
    BY <2>1 DEF ReadTurn
<1>. HIDE DEF T, A
<1>4. HashInv' /\ Hash!Held' = Filled(fs, T) /\ ret' = Replies(fs, T, A)
  <2>1. \/ ~Hash!Readable /\ Hash!Unchanged([i \in DOMAIN fs |-> A[Absent]])
        \/ Hash!Readable /\ \E g : g[0] = Hash!Here /\ AllTurn(g, fs, T, A) /\ Ends(g[Len(fs)])
    BY <1>2, <1>3, ReadThrough
  <2>. QED
    BY <1>2, <2>1, ThroughDoes
<1>. DEFINE S == Hash!Hashes!There(Hash!Hashes!Named(fs))
<1>5. /\ \A f \in Fields : Hash!Held[f] \in HeldCells
      /\ \A f \in Fields : Hash!Held[f] # Absent => Hash!Held[f].val \in 0 .. MaxVal
      /\ Hash!Hashes!Named(fs) \subseteq Fields /\ \A i \in DOMAIN fs : fs[i] \in Fields
      /\ DOMAIN fs = 1 .. Len(fs) /\ Len(fs) \in Nat
  BY HeldCell, ListIs
<1>6. /\ \A f \in Fields : f \in S <=> f \in Hash!Hashes!Named(fs) /\ Hash!Held[f] # Absent
      /\ Hash!Held = [f \in Fields |-> Hash!Held[f]]
  BY <1>5, ThereIs DEF Hash!Held
<1>. HIDE DEF S
<1>7. CASE gone
  <2>1. Hash!Held' = Hash!Hashes!Without(S)
    <3>1. ASSUME NEW f \in Fields
          PROVE  (IF f \in Hash!Hashes!Named(fs) THEN T[Hash!Held[f]] ELSE Hash!Held[f])
                   = IF f \in S THEN Absent ELSE Hash!Held[f]
      BY <1>5, <1>6, <1>7 DEF T
    <3>. QED
      BY <1>4, <3>1 DEF Filled, Hash!Hashes!Without
  <2>2. ret' = IF Len(fs) = 1 THEN <<Absent>> ELSE Hash!Hashes!AnswersOnce(fs)
    <3>1. ASSUME NEW i \in DOMAIN fs
          PROVE  A[IF Hash!Hashes!Again(fs, i) THEN T[Hash!Held[fs[i]]] ELSE Hash!Held[fs[i]]]
                   = IF Hash!Hashes!Again(fs, i) \/ Len(fs) = 1 THEN Absent
                     ELSE Hash!Hashes!ValueOf(fs[i])
      <4>1. T[Hash!Held[fs[i]]] = Absent
        BY <1>5, <1>7 DEF T
      <4>. QED
        BY <1>1, <1>2, <1>5, <1>7, <4>1 DEF Hash!Hashes!ValueOf, A
    <3>2. CASE Len(fs) = 1
      <4>1. ret' = [i \in 1 .. 1 |-> Absent]
        BY <1>4, <1>5, <3>1, <3>2 DEF Replies
      <4>. QED
        BY <3>2, <4>1
    <3>3. CASE Len(fs) # 1
      BY <1>4, <3>1, <3>3 DEF Replies, Hash!Hashes!AnswersOnce
    <3>. QED
      BY <3>2, <3>3
  <2>. QED
    BY <1>4, <1>7, <2>1, <2>2 DEF Hash!Hashes!HGetEx, S
<1>8. CASE ~gone
  <2>1. ASSUME NEW f \in Fields, Hash!Held[f] # Absent
        PROVE  T[Hash!Held[f]] \in HeldCells /\ T[Hash!Held[f]] # Absent /\ T[Hash!Held[f]].val = Hash!Held[f].val
    <3>1. Hash!Held[f] \in HeldCells /\ Hash!Held[f].val \in 0 .. MaxVal
      BY <1>5, <2>1
    <3>. DEFINE v == Hash!Held[f].val
                d == Cell(v, next)
    <3>2. T[Hash!Held[f]] = IF action = "discard" THEN Hash!Held[f] ELSE d
      BY <1>8, <2>1, <3>1 DEF T
    <3>. HIDE DEF next
    <3>3. d \in HeldCells /\ d # Absent /\ d.val = v
      <4>1. v \in 0 .. MaxVal
        BY <3>1
      <4>. HIDE DEF v
      <4>. QED
        BY <1>1, <4>1, NewCell
    <3>. HIDE DEF d
    <3>. QED
      BY <2>1, <3>1, <3>2, <3>3
  <2>2. ret' = Hash!Hashes!Answers(fs)
    <3>1. ASSUME NEW i \in DOMAIN fs
          PROVE  A[IF Hash!Hashes!Again(fs, i) THEN T[Hash!Held[fs[i]]] ELSE Hash!Held[fs[i]]]
                   = Hash!Hashes!ValueOf(fs[i])
      <4>1. CASE Hash!Held[fs[i]] = Absent
        BY <1>1, <1>2, <1>5, <4>1 DEF Hash!Hashes!ValueOf
      <4>2. CASE Hash!Held[fs[i]] # Absent
        BY <1>5, <1>8, <2>1, <4>2 DEF Hash!Hashes!ValueOf, A
      <4>. QED
        BY <4>1, <4>2
    <3>. QED
      BY <1>4, <3>1 DEF Replies, Hash!Hashes!Answers
  <2>3. CASE action = "discard"
    <3>1. \A f \in Fields : T[Hash!Held[f]] = Hash!Held[f]
      BY <1>5, <1>8, <2>3 DEF T
    <3>2. Filled(fs, T) = Hash!Held
      BY <1>6, <3>1 DEF Filled
    <3>. QED
      BY <1>4, <2>2, <2>3, <3>2 DEF Hash!Hashes!HGetEx, Hash!Hashes!Keep
  <2>4. CASE action # "discard"
    <3>1. ASSUME NEW f \in Fields
          PROVE  (IF f \in Hash!Hashes!Named(fs) THEN T[Hash!Held[f]] ELSE Hash!Held[f])
                   = IF f \in S THEN [val |-> Hash!Held[f].val, exp |-> next] ELSE Hash!Held[f]
      BY <1>5, <1>6, <1>8, <2>4 DEF T, Cell
    <3>2. Hash!Held' = [f \in Fields |-> IF f \in S THEN [val |-> Hash!Held[f].val, exp |-> next] ELSE Hash!Held[f]]
      BY <1>4, <3>1 DEF Filled
    <3>3. action = "persist" \/ (action = "set" /\ at > now)
      BY <1>1, <1>8, <2>4
    <3>. QED
      BY <1>4, <2>2, <3>2, <3>3 DEF Hash!Hashes!HGetEx, Hash!Hashes!Rewritten, S
  <2>. QED
    BY <2>3, <2>4
<1>. QED
  BY <1>7, <1>8

\* HEXPIRE.
ExpireStep(at, cond, h, f) ==
    IF ~Hash!ConditionPasses(cond, h.row[f].exp, at) THEN Hash!Answer(h, 0)
    ELSE IF at <= now THEN Hash!RemoveField(Hash!Answer(h, 2), f)
    ELSE Hash!Retimed(Hash!Answer(h, 1), f, at)
ExpireTurn(at, cond, T, A) ==
    \A h \in Safe, f \in Fields : AliveAt(h.row, f) => Turns(h, ExpireStep(at, cond, h, f), f, T, A)

LEMMA ExpireThrough ==
    ASSUME HashContext, HashInv, NEW fs \in Lists, NEW at, NEW cond, Hash!HExpire(fs, at, cond),
           NEW T, NEW A, T[Absent] = Absent, A[Absent] = -2, ExpireTurn(at, cond, T, A)
    PROVE  \/ ~Hash!Readable /\ Hash!Unchanged([i \in DOMAIN fs |-> A[Absent]])
           \/ Hash!Readable /\ \E g : g[0] = Hash!Here /\ AllTurn(g, fs, T, A) /\ Ends(g[Len(fs)])
<1>1. CASE ~Hash!Readable
  BY <1>1 DEF Hash!HExpire, Hash!Through
<1>2. CASE Hash!Readable
  <2>. DEFINE n == Len(fs)
              v == Hash!Here
              Step(h, i) == PurgeOr(h, fs[i], -2, ExpireStep(at, cond, h, fs[i]))
              F == [p \in Safe \X (1 .. n) |-> Step(p[1], p[2])]
              Body(g) == [i \in 0 .. n |-> IF i = 0 THEN v ELSE Step(g[i - 1], i)]
              after == CHOOSE g : g = Body(g)
  <2>1. n \in Nat /\ v \in Safe /\ \A i \in 1 .. n : fs[i] \in Fields
    BY <1>2, ListIs, HereBegins, SafeIs DEF Begins, Hash!Readable
  <2>2. Ends(after[n])
    BY <1>2, Zenon DEF Hash!HExpire, Hash!Through, Hash!Each, PurgeOr, ExpireStep, Ends
  <2>. HIDE DEF v
  <2>3. ASSUME NEW h \in Safe, NEW i \in 1 .. n PROVE Turns(h, Step(h, i), fs[i], T, A)
    <3>. DEFINE f == fs[i]
                x == ExpireStep(at, cond, h, f)
    <3>1. AliveAt(h.row, f) => Turns(h, x, f, T, A)
      BY <2>1 DEF ExpireTurn
    <3>2. Sound(h) /\ f \in Fields /\ -2 \in Int \cup {Absent}
      BY <2>1, SafeIs
    <3>. HIDE DEF f, x
    <3>3. Turns(h, PurgeOr(h, f, -2, x), f, T, A)
      BY <3>1, <3>2, PurgeTurns
    <3>. QED
      BY <3>3 DEF f, x
  <2>4. \A h \in Safe, i \in 1 .. n : Step(h, i) \in Safe
    BY <2>3, SafeIs DEF Turns, Turned
  <2>. HIDE DEF Step
  <2>5. \A h \in Safe, i \in 1 .. n : F[<<h, i>>] = Step(h, i) /\ F[<<h, i>>] \in Safe
    BY <2>4
  <2>. HIDE DEF F
  <2>6. \E g : g = Body(g)
    <3>1. PICK g : /\ g = [i \in 0 .. n |-> IF i = 0 THEN v ELSE F[<<g[i - 1], i>>]]
                   /\ \A i \in 0 .. n : g[i] \in Safe
      <4>1. Stays(F, n, Safe)
        BY <2>5 DEF Stays
      <4>. QED
        BY <2>1, <4>1, LoopIs
    <3>2. \A i \in 0 .. n : i # 0 => i - 1 \in 0 .. n /\ i \in 1 .. n
      BY <2>1
    <3>3. g = Body(g)
      BY <2>5, <3>1, <3>2
    <3>. QED
      BY <3>3
  <2>7. after = Body(after)
    BY <2>6
  <2>. HIDE DEF after
  <2>8. after[0] = v /\ \A i \in 1 .. n : after[i] = Step(after[i - 1], i)
    <3>1. 0 \in 0 .. n /\ \A i \in 1 .. n : i \in 0 .. n /\ i # 0
      BY <2>1
    <3>. QED
      BY <2>7, <3>1
  <2>9. AllTurn(after, fs, T, A)
    BY <2>3, <2>8, SafeIs DEF AllTurn
  <2>. QED
    BY <1>2, <2>2, <2>8, <2>9 DEF v
<1>. QED
  BY <1>1, <1>2

LEMMA HExpireRefines ==
    ASSUME HashContext, HashInv, NEW fs \in Lists, NEW at \in 1 .. MaxNow, NEW cond,
           Hash!HExpire(fs, at, cond), now' = now
    PROVE  HashInv' /\ Hash!Hashes!HExpire(fs, at, cond)
<1>. DEFINE Lets(exp) == Hash!Hashes!Passes(cond, exp, at)
            T == [b \in HeldCells |-> IF b = Absent THEN Absent ELSE IF ~Lets(b.exp) THEN b
                                      ELSE IF at <= now THEN Absent ELSE Cell(b.val, at)]
            A == [b \in HeldCells |-> IF b = Absent THEN -2 ELSE IF ~Lets(b.exp) THEN 0
                                      ELSE IF at <= now THEN 2 ELSE 1]
<1>0. \A exp : Hash!ConditionPasses(cond, exp, at) <=> Lets(exp)
  BY Zenon DEF Hash!ConditionPasses, Hash!Hashes!Passes
<1>. HIDE DEF Lets
<1>1. Absent \in HeldCells /\ at \in 0 .. MaxNow /\ now \in Nat /\ MaxNow \in Nat
  BY HashAssumed DEF HeldCells
<1>2. Settles(T) /\ T[Absent] = Absent /\ A[Absent] = -2
  <2>1. ASSUME NEW b \in HeldCells PROVE T[b] \in HeldCells /\ T[T[b]] = T[b]
    <3>1. CASE b = Absent \/ ~Lets(b.exp) \/ at <= now
      BY <1>1, <3>1
    <3>2. CASE b # Absent /\ Lets(b.exp) /\ ~(at <= now)
      <4>. DEFINE d == Cell(b.val, at)
      <4>1. d \in HeldCells /\ d # Absent /\ d.val = b.val
        BY <1>1, <3>2, CellParts, NewCell
      <4>2. T[b] = d
        BY <3>2
      <4>3. T[d] \in {d, Cell(d.val, at)}
        <5>. HIDE DEF d
        <5>. QED
          BY <3>2, <4>1
      <4>. QED
        BY <4>1, <4>2, <4>3
    <3>. QED
      BY <3>1, <3>2
  <2>2. T[Absent] = Absent /\ A[Absent] = -2
    BY <1>1
  <2>. HIDE DEF T
  <2>. QED
    BY <2>1, <2>2 DEF Settles
<1>3. ExpireTurn(at, cond, T, A)
  <2>1. ASSUME NEW h \in Safe, NEW f \in Fields, AliveAt(h.row, f)
        PROVE  Turns(h, ExpireStep(at, cond, h, f), f, T, A)
    <3>. DEFINE b == h.row[f]
    <3>1. Sound(h)
      BY SafeIs
    <3>2. b \in HeldCells /\ Alive(h.row)[f] = b /\ b # Absent
      BY <2>1, <3>1, AliveCell
    <3>3. /\ T[b] = IF ~Lets(b.exp) THEN b ELSE IF at <= now THEN Absent ELSE Cell(b.val, at)
          /\ A[b] = IF ~Lets(b.exp) THEN 0 ELSE IF at <= now THEN 2 ELSE 1
      BY <3>2
    <3>. HIDE DEF T, A
    <3>4. CASE ~Lets(b.exp)
      <4>1. ExpireStep(at, cond, h, f) = Hash!Answer(h, 0)
        BY <1>0, <3>4 DEF ExpireStep
      <4>2. LET g == Hash!Answer(h, 0)
            IN  Turned(h, g, f, Alive(h.row)[f]) /\ g.out = Append(h.out, 0)
        BY <3>1, AnswerTurns
      <4>. QED
        BY <3>2, <3>3, <3>4, <4>1, <4>2 DEF Turns
    <3>5. CASE Lets(b.exp) /\ at <= now
      <4>1. ExpireStep(at, cond, h, f) = Hash!RemoveField(Hash!Answer(h, 2), f)
        BY <1>0, <3>5 DEF ExpireStep
      <4>2. LET g == Hash!RemoveField(Hash!Answer(h, 2), f)
            IN  Turned(h, g, f, Absent) /\ g.out = Append(h.out, 2)
        BY <3>1, <3>2, RemoveTurns
      <4>. QED
        BY <3>2, <3>3, <3>5, <4>1, <4>2 DEF Turns
    <3>6. CASE Lets(b.exp) /\ ~(at <= now)
      <4>1. ExpireStep(at, cond, h, f) = Hash!Retimed(Hash!Answer(h, 1), f, at)
        BY <1>0, <3>6 DEF ExpireStep
      <4>2. LET g == Hash!Retimed(Hash!Answer(h, 1), f, at)
            IN  Turned(h, g, f, Cell(h.row[f].val, at)) /\ g.out = Append(h.out, 1)
        BY <1>1, <2>1, <3>1, <3>6, RetimeTurns
      <4>. QED
        BY <3>2, <3>3, <3>6, <4>1, <4>2 DEF Turns
    <3>. QED
      BY <3>4, <3>5, <3>6
  <2>. HIDE DEF T, A
  <2>. QED
    BY <2>1 DEF ExpireTurn
<1>. HIDE DEF T, A
<1>4. HashInv' /\ Hash!Held' = Filled(fs, T) /\ ret' = Replies(fs, T, A)
  <2>1. \/ ~Hash!Readable /\ Hash!Unchanged([i \in DOMAIN fs |-> A[Absent]])
        \/ Hash!Readable /\ \E g : g[0] = Hash!Here /\ AllTurn(g, fs, T, A) /\ Ends(g[Len(fs)])
    BY <1>2, <1>3, ExpireThrough
  <2>. QED
    BY <1>2, <2>1, ThroughDoes
<1>. DEFINE S == {f \in Hash!Hashes!There(Hash!Hashes!Named(fs)) : Lets(Hash!Held[f].exp)}
<1>5. /\ \A f \in Fields : Hash!Held[f] \in HeldCells
      /\ \A f \in Fields : Hash!Held[f] # Absent => Hash!Held[f].val \in 0 .. MaxVal
      /\ Hash!Hashes!Named(fs) \subseteq Fields
      /\ \A i \in DOMAIN fs : fs[i] \in Fields /\ fs[i] \in Hash!Hashes!Named(fs)
  <2>1. \A i \in DOMAIN fs : fs[i] \in Hash!Hashes!Named(fs)
    BY DEF Hash!Hashes!Named
  <2>. QED
    BY <2>1, HeldCell, ListIs
<1>6. /\ \A f \in Fields : f \in S <=> f \in Hash!Hashes!Named(fs) /\ Hash!Held[f] # Absent /\ Lets(Hash!Held[f].exp)
      /\ \A f \in Fields : f \in Hash!Hashes!There(Fields) <=> Hash!Held[f] # Absent
  BY <1>5, ThereIs
<1>. HIDE DEF S
<1>7. CASE at <= now
  <2>1. Hash!Held' = Hash!Hashes!Without(S)
    <3>1. ASSUME NEW f \in Fields
          PROVE  (IF f \in Hash!Hashes!Named(fs) THEN T[Hash!Held[f]] ELSE Hash!Held[f])
                   = IF f \in S THEN Absent ELSE Hash!Held[f]
      BY <1>5, <1>6, <1>7 DEF T
    <3>. QED
      BY <1>4, <3>1 DEF Filled, Hash!Hashes!Without
  <2>2. ret' = [i \in DOMAIN fs |-> IF fs[i] \notin Hash!Hashes!There(Fields) THEN -2
                                     ELSE IF fs[i] \notin S THEN 0
                                     ELSE IF Hash!Hashes!Again(fs, i) THEN -2 ELSE 2]
    <3>1. ASSUME NEW i \in DOMAIN fs
          PROVE  A[IF Hash!Hashes!Again(fs, i) THEN T[Hash!Held[fs[i]]] ELSE Hash!Held[fs[i]]]
                   = IF fs[i] \notin Hash!Hashes!There(Fields) THEN -2
                     ELSE IF fs[i] \notin S THEN 0
                     ELSE IF Hash!Hashes!Again(fs, i) THEN -2 ELSE 2
      BY <1>1, <1>5, <1>6, <1>7 DEF T, A
    <3>. QED
      BY <1>4, <3>1 DEF Replies
  <2>. QED
    BY <1>4, <1>7, <2>1, <2>2, Zenon DEF Hash!Hashes!HExpire, S, Lets
<1>8. CASE ~(at <= now)
  <2>1. Hash!Held' = [f \in Fields |-> IF f \in S THEN [val |-> Hash!Held[f].val, exp |-> at] ELSE Hash!Held[f]]
    <3>1. ASSUME NEW f \in Fields
          PROVE  (IF f \in Hash!Hashes!Named(fs) THEN T[Hash!Held[f]] ELSE Hash!Held[f])
                   = IF f \in S THEN [val |-> Hash!Held[f].val, exp |-> at] ELSE Hash!Held[f]
      BY <1>5, <1>6, <1>8 DEF T, Cell
    <3>. QED
      BY <1>4, <3>1 DEF Filled
  <2>2. ret' = [i \in DOMAIN fs |-> IF fs[i] \notin Hash!Hashes!There(Fields) THEN -2
                                     ELSE IF fs[i] \notin S THEN 0
                                     ELSE IF Hash!Hashes!Again(fs, i) /\ ~Lets(at) THEN 0 ELSE 1]
    <3>1. ASSUME NEW i \in DOMAIN fs
          PROVE  A[IF Hash!Hashes!Again(fs, i) THEN T[Hash!Held[fs[i]]] ELSE Hash!Held[fs[i]]]
                   = IF fs[i] \notin Hash!Hashes!There(Fields) THEN -2
                     ELSE IF fs[i] \notin S THEN 0
                     ELSE IF Hash!Hashes!Again(fs, i) /\ ~Lets(at) THEN 0 ELSE 1
      <4>. DEFINE b == Hash!Held[fs[i]]
                  d == Cell(b.val, at)
      <4>1. /\ fs[i] \in Fields /\ b \in HeldCells
            /\ fs[i] \in Hash!Hashes!There(Fields) <=> b # Absent
            /\ fs[i] \in S <=> b # Absent /\ Lets(b.exp)
        BY <1>5, <1>6
      <4>2. b # Absent => d \in HeldCells /\ d # Absent /\ d.exp = at
        <5>1. b # Absent => b.val \in 0 .. MaxVal
          BY <1>5
        <5>. HIDE DEF b
        <5>. QED
          BY <1>1, <5>1, NewCell
      <4>. HIDE DEF b
      <4>3. T[b] = IF b = Absent THEN Absent ELSE IF ~Lets(b.exp) THEN b ELSE d
        BY <1>8, <4>1 DEF T
      <4>. HIDE DEF d
      <4>4. /\ A[b] = IF b = Absent THEN -2 ELSE IF ~Lets(b.exp) THEN 0 ELSE 1
            /\ A[T[b]] = IF b = Absent THEN -2 ELSE IF ~Lets(b.exp) \/ ~Lets(at) THEN 0 ELSE 1
        BY <1>1, <1>8, <4>1, <4>2, <4>3 DEF A
      <4>. QED
        BY <4>1, <4>4 DEF b
    <3>. QED
      BY <1>4, <3>1 DEF Replies
  <2>. QED
    BY <1>4, <1>8, <2>1, <2>2, Zenon DEF Hash!Hashes!HExpire, Hash!Hashes!Rewritten, S, Lets
<1>. QED
  BY <1>7, <1>8

\* HPERSIST.
PersistStep(h, f) ==
    IF Hash!Kind(h, f) = "persistent" THEN Hash!Answer(h, -1)
    ELSE Hash!Retimed(Hash!Answer(h, 1), f, 0)
PersistTurn(T, A) ==
    \A h \in Safe, f \in Fields : AliveAt(h.row, f) => Turns(h, PersistStep(h, f), f, T, A)

LEMMA PersistThrough ==
    ASSUME HashContext, HashInv, NEW fs \in Lists, Hash!HPersist(fs),
           NEW T, NEW A, T[Absent] = Absent, A[Absent] = -2, PersistTurn(T, A)
    PROVE  \/ ~Hash!Readable /\ Hash!Unchanged([i \in DOMAIN fs |-> A[Absent]])
           \/ Hash!Readable /\ \E g : g[0] = Hash!Here /\ AllTurn(g, fs, T, A) /\ Ends(g[Len(fs)])
<1>1. CASE ~Hash!Readable
  BY <1>1 DEF Hash!HPersist, Hash!Through
<1>2. CASE Hash!Readable
  <2>. DEFINE n == Len(fs)
              v == Hash!Here
              Step(h, i) == PurgeOr(h, fs[i], -2, PersistStep(h, fs[i]))
              F == [p \in Safe \X (1 .. n) |-> Step(p[1], p[2])]
              Body(g) == [i \in 0 .. n |-> IF i = 0 THEN v ELSE Step(g[i - 1], i)]
              after == CHOOSE g : g = Body(g)
  <2>1. n \in Nat /\ v \in Safe /\ \A i \in 1 .. n : fs[i] \in Fields
    BY <1>2, ListIs, HereBegins, SafeIs DEF Begins, Hash!Readable
  <2>2. Ends(after[n])
    BY <1>2, Zenon DEF Hash!HPersist, Hash!Through, Hash!Each, PurgeOr, PersistStep, Ends
  <2>. HIDE DEF v
  <2>3. ASSUME NEW h \in Safe, NEW i \in 1 .. n PROVE Turns(h, Step(h, i), fs[i], T, A)
    <3>. DEFINE f == fs[i]
                x == PersistStep(h, f)
    <3>1. AliveAt(h.row, f) => Turns(h, x, f, T, A)
      BY <2>1 DEF PersistTurn
    <3>2. Sound(h) /\ f \in Fields /\ -2 \in Int \cup {Absent}
      BY <2>1, SafeIs
    <3>. HIDE DEF f, x
    <3>3. Turns(h, PurgeOr(h, f, -2, x), f, T, A)
      BY <3>1, <3>2, PurgeTurns
    <3>. QED
      BY <3>3 DEF f, x
  <2>4. \A h \in Safe, i \in 1 .. n : Step(h, i) \in Safe
    BY <2>3, SafeIs DEF Turns, Turned
  <2>. HIDE DEF Step
  <2>5. \A h \in Safe, i \in 1 .. n : F[<<h, i>>] = Step(h, i) /\ F[<<h, i>>] \in Safe
    BY <2>4
  <2>. HIDE DEF F
  <2>6. \E g : g = Body(g)
    <3>1. PICK g : /\ g = [i \in 0 .. n |-> IF i = 0 THEN v ELSE F[<<g[i - 1], i>>]]
                   /\ \A i \in 0 .. n : g[i] \in Safe
      <4>1. Stays(F, n, Safe)
        BY <2>5 DEF Stays
      <4>. QED
        BY <2>1, <4>1, LoopIs
    <3>2. \A i \in 0 .. n : i # 0 => i - 1 \in 0 .. n /\ i \in 1 .. n
      BY <2>1
    <3>3. g = Body(g)
      BY <2>5, <3>1, <3>2
    <3>. QED
      BY <3>3
  <2>7. after = Body(after)
    BY <2>6
  <2>. HIDE DEF after
  <2>8. after[0] = v /\ \A i \in 1 .. n : after[i] = Step(after[i - 1], i)
    <3>1. 0 \in 0 .. n /\ \A i \in 1 .. n : i \in 0 .. n /\ i # 0
      BY <2>1
    <3>. QED
      BY <2>7, <3>1
  <2>9. AllTurn(after, fs, T, A)
    BY <2>3, <2>8, SafeIs DEF AllTurn
  <2>. QED
    BY <1>2, <2>2, <2>8, <2>9 DEF v
<1>. QED
  BY <1>1, <1>2

LEMMA HPersistRefines ==
    ASSUME HashContext, HashInv, NEW fs \in Lists, Hash!HPersist(fs), now' = now
    PROVE  HashInv' /\ Hash!Hashes!HPersist(fs)
<1>. DEFINE T == [b \in HeldCells |-> IF b = Absent THEN Absent ELSE Cell(b.val, 0)]
            A == [b \in HeldCells |-> IF b = Absent THEN -2 ELSE IF b.exp = 0 THEN -1 ELSE 1]
<1>1. Absent \in HeldCells /\ 0 \in 0 .. MaxNow /\ now \in Nat /\ MaxNow \in Nat
  BY HashAssumed DEF HeldCells
<1>2. Settles(T) /\ T[Absent] = Absent /\ A[Absent] = -2
  <2>1. ASSUME NEW b \in HeldCells PROVE T[b] \in HeldCells /\ T[T[b]] = T[b]
    <3>1. CASE b = Absent
      BY <1>1, <3>1
    <3>2. CASE b # Absent
      <4>. DEFINE d == Cell(b.val, 0)
      <4>1. d \in HeldCells /\ d # Absent /\ d.val = b.val
        BY <1>1, <3>2, CellParts, NewCell
      <4>2. T[b] = d
        BY <3>2
      <4>3. T[d] = Cell(d.val, 0)
        <5>. HIDE DEF d
        <5>. QED
          BY <3>2, <4>1
      <4>. QED
        BY <4>1, <4>2, <4>3
    <3>. QED
      BY <3>1, <3>2
  <2>2. T[Absent] = Absent /\ A[Absent] = -2
    BY <1>1
  <2>. HIDE DEF T
  <2>. QED
    BY <2>1, <2>2 DEF Settles
<1>3. PersistTurn(T, A)
  <2>1. ASSUME NEW h \in Safe, NEW f \in Fields, AliveAt(h.row, f)
        PROVE  Turns(h, PersistStep(h, f), f, T, A)
    <3>. DEFINE b == h.row[f]
    <3>1. Sound(h) /\ h \in Views
      BY SafeIs DEF Sound
    <3>2. b \in HeldCells /\ Alive(h.row)[f] = b /\ b # Absent /\ b = Cell(b.val, b.exp)
      BY <2>1, <3>1, AliveCell
    <3>3. T[b] = Cell(b.val, 0) /\ A[b] = IF b.exp = 0 THEN -1 ELSE 1
      BY <3>2
    <3>4. Hash!Kind(h, f) = "persistent" <=> b.exp = 0
      BY <3>1, <3>2, KindIsOf
    <3>. HIDE DEF T, A
    <3>5. CASE b.exp = 0
      <4>1. PersistStep(h, f) = Hash!Answer(h, -1)
        BY <3>4, <3>5 DEF PersistStep
      <4>2. LET g == Hash!Answer(h, -1)
            IN  Turned(h, g, f, Alive(h.row)[f]) /\ g.out = Append(h.out, -1)
        BY <3>1, AnswerTurns
      <4>. QED
        BY <3>2, <3>3, <3>5, <4>1, <4>2 DEF Turns
    <3>6. CASE b.exp # 0
      <4>1. PersistStep(h, f) = Hash!Retimed(Hash!Answer(h, 1), f, 0)
        BY <3>4, <3>6 DEF PersistStep
      <4>2. LET g == Hash!Retimed(Hash!Answer(h, 1), f, 0)
            IN  Turned(h, g, f, Cell(h.row[f].val, 0)) /\ g.out = Append(h.out, 1)
        BY <1>1, <2>1, <3>1, RetimeTurns
      <4>. QED
        BY <3>2, <3>3, <3>6, <4>1, <4>2 DEF Turns
    <3>. QED
      BY <3>5, <3>6
  <2>. HIDE DEF T, A
  <2>. QED
    BY <2>1 DEF PersistTurn
<1>. HIDE DEF T, A
<1>4. HashInv' /\ Hash!Held' = Filled(fs, T) /\ ret' = Replies(fs, T, A)
  <2>1. \/ ~Hash!Readable /\ Hash!Unchanged([i \in DOMAIN fs |-> A[Absent]])
        \/ Hash!Readable /\ \E g : g[0] = Hash!Here /\ AllTurn(g, fs, T, A) /\ Ends(g[Len(fs)])
    BY <1>2, <1>3, PersistThrough
  <2>. QED
    BY <1>2, <2>1, ThroughDoes
<1>. DEFINE S == Hash!Hashes!There(Hash!Hashes!Named(fs))
<1>5. /\ \A f \in Fields : Hash!Held[f] \in HeldCells
      /\ \A f \in Fields : Hash!Held[f] # Absent => Hash!Held[f].val \in 0 .. MaxVal
      /\ Hash!Hashes!Named(fs) \subseteq Fields /\ \A i \in DOMAIN fs : fs[i] \in Fields
  BY HeldCell, ListIs
<1>6. \A f \in Fields : f \in S <=> f \in Hash!Hashes!Named(fs) /\ Hash!Held[f] # Absent
  BY <1>5, ThereIs
<1>. HIDE DEF S
<1>7. Hash!Held' = [f \in Fields |-> IF f \in S THEN [val |-> Hash!Held[f].val, exp |-> 0] ELSE Hash!Held[f]]
  <2>1. ASSUME NEW f \in Fields
        PROVE  (IF f \in Hash!Hashes!Named(fs) THEN T[Hash!Held[f]] ELSE Hash!Held[f])
                 = IF f \in S THEN [val |-> Hash!Held[f].val, exp |-> 0] ELSE Hash!Held[f]
    BY <1>5, <1>6 DEF T, Cell
  <2>. QED
    BY <1>4, <2>1 DEF Filled
<1>8. ret' = [i \in DOMAIN fs |-> IF Hash!Held[fs[i]] = Absent THEN -2
                                   ELSE IF Hash!Held[fs[i]].exp = 0 \/ Hash!Hashes!Again(fs, i) THEN -1 ELSE 1]
  <2>1. ASSUME NEW i \in DOMAIN fs
        PROVE  A[IF Hash!Hashes!Again(fs, i) THEN T[Hash!Held[fs[i]]] ELSE Hash!Held[fs[i]]]
                 = IF Hash!Held[fs[i]] = Absent THEN -2
                   ELSE IF Hash!Held[fs[i]].exp = 0 \/ Hash!Hashes!Again(fs, i) THEN -1 ELSE 1
    <3>. DEFINE b == Hash!Held[fs[i]]
                d == Cell(b.val, 0)
    <3>1. fs[i] \in Fields /\ b \in HeldCells
      BY <1>5
    <3>2. b # Absent => d \in HeldCells /\ d # Absent /\ d.exp = 0
      <4>1. b # Absent => b.val \in 0 .. MaxVal
        BY <1>5
      <4>. HIDE DEF b
      <4>. QED
        BY <1>1, <4>1, NewCell
    <3>. HIDE DEF b
    <3>3. T[b] = IF b = Absent THEN Absent ELSE d
      BY <3>1 DEF T
    <3>. HIDE DEF d
    <3>4. /\ A[b] = IF b = Absent THEN -2 ELSE IF b.exp = 0 THEN -1 ELSE 1
          /\ A[T[b]] = IF b = Absent THEN -2 ELSE -1
      BY <1>1, <3>1, <3>2, <3>3 DEF A
    <3>. QED
      BY <3>4 DEF b
  <2>. QED
    BY <1>4, <2>1 DEF Replies
<1>. QED
  BY <1>4, <1>7, <1>8, Zenon DEF Hash!Hashes!HPersist, Hash!Hashes!Rewritten, S

\* One field written where a command begins.
LEMMA OneWritten ==
    ASSUME HashContext, HashInv, NEW h, Begins(h), NEW g, NEW f \in Fields, NEW b,
           Turned(h, g, f, b), Hash!Commit(g), now' = now
    PROVE  HashInv' /\ Hash!Held' = [Hash!Held EXCEPT ![f] = b]
<1>1. /\ Sound(g) /\ g.meta.lapsed = FALSE
      /\ \A e \in Fields \ {f} : Alive(g.row)[e] = Hash!Held[e]
      /\ Alive(g.row)[f] = b
  BY DEF Begins, Turned
<1>2. HashInv' /\ Hash!Held' = Alive(g.row)
  BY <1>1, CommitKeeps
<1>3. Alive(g.row) = [e \in Fields |-> Alive(g.row)[e]] /\ Hash!Held = [e \in Fields |-> Hash!Held[e]]
  BY DEF Alive, Hash!Held
<1>. QED
  BY <1>1, <1>2, <1>3

LEMMA PreparedHeld ==
    ASSUME HashContext, HashInv, NEW f \in Fields
    PROVE  /\ Sound(Hash!Prepared) /\ Hash!Prepared \in Views
           /\ Hash!Held[f] = IF AliveAt(Hash!Prepared.row, f) THEN Hash!Prepared.row[f] ELSE Absent
           /\ Hash!Held[f] # Absent <=> AliveAt(Hash!Prepared.row, f)
           /\ Hash!Held[f] # Absent <=> Hash!Kind(Hash!Prepared, f) \in {"persistent", "live"}
<1>. DEFINE h == Hash!Prepared
<1>1. Sound(h) /\ h \in Views /\ Alive(h.row) = Hash!Held
  BY PreparedBegins DEF Begins, Sound
<1>. HIDE DEF h
<1>2. /\ Hash!Kind(h, f) \in {"persistent", "live"} <=> AliveAt(h.row, f)
      /\ Alive(h.row)[f] = IF AliveAt(h.row, f) THEN h.row[f] ELSE Absent
      /\ Alive(h.row)[f] # Absent <=> AliveAt(h.row, f)
  BY <1>1, AliveIs
<1>. QED
  BY <1>1, <1>2 DEF h

\* HSETNX refines HSETNX.
LEMMA HSetNxRefines ==
    ASSUME HashContext, HashInv, NEW f \in Fields, NEW v \in 0 .. MaxVal, Hash!HSetNx(f, v), now' = now
    PROVE  HashInv' /\ Hash!Hashes!HSetNx(f, v)
<1>. DEFINE p == [field |-> f, val |-> v]
            h == Hash!Prepared
            g == Hash!SetField(h, p)
            b == Cell(v, 0)
            s == Append(h.out, IF Hash!Kind(h, f) \in {"missing", "expired"} THEN 1 ELSE 0)
<1>1. Begins(h) /\ Sound(h)
  BY PreparedBegins DEF Begins
<1>2. CASE Hash!Live /\ Hash!Kind(Hash!Here, f) \in {"persistent", "live"}
  <2>1. Hash!Unchanged(0)
    BY <1>2 DEF Hash!HSetNx
  <2>2. HashInv' /\ Hash!Held' = Hash!Held /\ ret' = 0
    BY <2>1, UnchangedKeeps DEF Hash!Unchanged
  <2>3. Hash!Prepared = Hash!Here
    BY <1>2 DEF Hash!Prepared
  <2>4. Hash!Held[f] # Absent
    BY <1>2, <2>3, PreparedHeld
  <2>. QED
    BY <2>2, <2>4 DEF Hash!Hashes!HSetNx, Hash!Hashes!Keep
<1>3. CASE ~(Hash!Live /\ Hash!Kind(Hash!Here, f) \in {"persistent", "live"})
  <2>1. Hash!Commit(g) /\ ret' = 1
    BY <1>3 DEF Hash!HSetNx
  <2>2. Hash!Held[f] = Absent
    <3>1. CASE Hash!Live
      <4>1. Hash!Prepared = Hash!Here
        BY <3>1 DEF Hash!Prepared
      <4>. QED
        BY <1>3, <3>1, <4>1, PreparedHeld
    <3>2. CASE ~Hash!Live
      BY <3>2, HeldIs
    <3>. QED
      BY <3>1, <3>2
  <2>3. p.field = f /\ p.val = v
    OBVIOUS
  <2>. HIDE DEF h, p
  <2>4. Becomes(h, g, f, b, s)
    BY <1>1, <2>3, SetBecomes
  <2>. HIDE DEF g, s, b
  <2>5. Turned(h, g, f, IF Lasts(b) THEN b ELSE Absent)
    BY <1>1, <2>4, TurnedIs
  <2>6. Lasts(b) /\ b = [val |-> v, exp |-> 0]
    <3>1. 0 \in 0 .. MaxNow
      BY HashAssumed
    <3>. QED
      BY <3>1, NewCell DEF b, Lasts, Cell
  <2>7. HashInv' /\ Hash!Held' = [Hash!Held EXCEPT ![f] = b]
    BY <1>1, <2>1, <2>5, <2>6, OneWritten
  <2>. QED
    BY <2>1, <2>2, <2>6, <2>7 DEF Hash!Hashes!HSetNx
<1>. QED
  BY <1>2, <1>3

\* HINCRBY refines HINCRBY.
LEMMA HIncrByRefines ==
    ASSUME HashContext, HashInv, NEW f \in Fields, Hash!HIncrBy(f), now' = now
    PROVE  HashInv' /\ Hash!Hashes!HIncrBy(f)
<1>. DEFINE h == Hash!Prepared
            kind == Hash!Kind(h, f)
            there == kind \in {"persistent", "live"}
            v == 1 + (IF there THEN h.row[f].val ELSE 0)
            e == IF there THEN h.row[f].exp ELSE 0
            m == CASE kind = "missing" -> Hash!MissingToPersistent(h.meta)
                   [] kind = "expired" -> Hash!TTLToPersistent(h.meta)
                   [] OTHER -> h.meta
            b == Cell(v, e)
            g == Hash!Put(Hash!With(h, m), f, v, e)
<1>1. v <= MaxVal /\ Hash!Commit(g) /\ ret' = v
  BY DEF Hash!HIncrBy
<1>2. /\ Begins(h) /\ Sound(h) /\ h \in Views /\ h.meta \in Hash!Metas /\ h.row \in HashRows
      /\ CountsOf(h.meta, h.row)
  BY PreparedBegins, ViewIs DEF Begins, Sound
<1>3. /\ Hash!Held[f] = IF AliveAt(h.row, f) THEN h.row[f] ELSE Absent
      /\ Hash!Held[f] # Absent <=> there
  BY PreparedHeld
<1>. HIDE DEF h
<1>4. /\ kind \in {"missing", "persistent", "expired", "live"}
      /\ kind = "missing" <=> h.row[f] = Absent
      /\ kind = "persistent" <=> h.row[f] # Absent /\ h.row[f].exp = 0
      /\ kind = "expired" <=> h.row[f] # Absent /\ h.row[f].exp # 0 /\ h.row[f].exp <= now
      /\ kind = "live" <=> h.row[f] # Absent /\ h.row[f].exp # 0 /\ ~(h.row[f].exp <= now)
      /\ there <=> AliveAt(h.row, f)
  BY <1>2, KindIsOf, AliveIs
<1>. HIDE DEF kind
<1>5. /\ v \in 0 .. MaxVal /\ e \in 0 .. MaxNow /\ (e = 0 \/ ~(e <= now))
  <2>1. MaxNow \in Nat /\ MaxVal \in Nat
    BY HashAssumed
  <2>2. there => h.row[f].val \in 0 .. MaxVal /\ h.row[f].exp \in 0 .. MaxNow
                 /\ (h.row[f].exp = 0 \/ ~(h.row[f].exp <= now))
    BY <1>2, <1>4, CellIs DEF AliveAt
  <2>. QED
    BY <1>1, <2>1, <2>2
<1>6. Moved(h.meta, h.row, f, m, b)
  <2>1. CASE kind = "missing"
    <3>1. m = Hash!MissingToPersistent(h.meta) /\ e = 0
      BY <2>1
    <3>. HIDE DEF m, v, e
    <3>. QED
      BY <1>2, <1>4, <1>5, <2>1, <3>1, MissingMoves
  <2>2. CASE kind = "expired"
    <3>1. m = Hash!TTLToPersistent(h.meta) /\ e = 0
      BY <2>2
    <3>. HIDE DEF m, v, e
    <3>. QED
      BY <1>2, <1>4, <1>5, <2>2, <3>1, TimedMoves
  <2>3. CASE kind = "persistent"
    <3>1. m = h.meta /\ e = 0
      BY <1>4, <2>3
    <3>. HIDE DEF m, v, e
    <3>. QED
      BY <1>2, <1>4, <1>5, <2>3, <3>1, LastingMoves
  <2>4. CASE kind = "live"
    <3>1. m = h.meta /\ e = h.row[f].exp
      BY <2>4
    <3>. HIDE DEF m, v, e
    <3>. QED
      BY <1>2, <1>4, <1>5, <2>4, <3>1, TimedMoves
  <2>. QED
    BY <1>4, <2>1, <2>2, <2>3, <2>4
<1>7. HashInv' /\ Hash!Held' = [Hash!Held EXCEPT ![f] = b]
  <2>. HIDE DEF m, v, e
  <2>1. Becomes(h, g, f, b, h.out)
    BY <1>2, <1>6, PutBecomes
  <2>2. b # Absent /\ b.exp = e
    BY <1>5, NewCell
  <2>. DEFINE s == h.out
  <2>. HIDE DEF g, b, s
  <2>3. Turned(h, g, f, IF Lasts(b) THEN b ELSE Absent)
    BY <1>2, <2>1, TurnedIs DEF s
  <2>4. Lasts(b)
    BY <1>5, <2>2 DEF Lasts
  <2>. QED
    BY <1>1, <1>2, <2>3, <2>4, OneWritten
<1>8. b = [val |-> v, exp |-> e]
  BY DEF Cell
<1>9. CASE Hash!Held[f] = Absent
  <2>1. v = 1 /\ e = 0
    BY <1>3, <1>9
  <2>. HIDE DEF v, e, b
  <2>2. Hash!Held' = [Hash!Held EXCEPT ![f] = [val |-> 1, exp |-> 0]] /\ 1 <= MaxVal /\ ret' = 1
    BY <1>1, <1>7, <1>8, <2>1
  <2>. QED
    BY <1>7, <1>9, <2>2 DEF Hash!Hashes!HIncrBy
<1>10. CASE Hash!Held[f] # Absent
  <2>. DEFINE c == Hash!Held[f]
              w == c.val + 1
  <2>1. c = h.row[f] /\ v = w /\ e = c.exp /\ c \in Hash!Cells
    <3>1. c = h.row[f] /\ there /\ c.val \in 0 .. MaxVal
      BY <1>3, <1>4, <1>10, HeldCell
    <3>2. c \in Hash!Cells
      BY <1>10, HeldCell DEF HeldCells
    <3>. HIDE DEF c
    <3>. QED
      BY <3>1, <3>2
  <2>. HIDE DEF v, e, b
  <2>2. b = [c EXCEPT !.val = w]
    <3>. HIDE DEF c, w
    <3>. QED
      BY <1>8, <2>1 DEF Hash!Cells
  <2>3. w <= MaxVal /\ ret' = w
    BY <1>1, <2>1
  <2>4. Hash!Held' = [Hash!Held EXCEPT ![f] = [c EXCEPT !.val = w]]
    BY <1>7, <2>2
  <2>5. Hash!Held' = [Hash!Held EXCEPT ![f] = IF @ = Absent THEN [val |-> w, exp |-> 0]
                                              ELSE [@ EXCEPT !.val = w]]
    BY <1>10, <2>4
  <2>. QED
    BY <1>7, <1>10, <2>3, <2>5 DEF Hash!Hashes!HIncrBy
<1>. QED
  BY <1>9, <1>10

\* What a hash holds is gone with its record, or with the expiry of its key.
LEMMA VanishRefines ==
    ASSUME HashContext, HashInv, Hash!Lapse \/ Hash!Erase, now' = now
    PROVE  HashInv' /\ Hash!Held' = Hash!Hashes!None /\ ret' = ret
<1>1. CASE Hash!Lapse
  <2>1. /\ meta \in Hash!Metas /\ meta' = [meta EXCEPT !.lapsed = TRUE] /\ row' = row /\ ret' = ret
    BY <1>1 DEF Hash!Lapse, Hash!Live, HashInv
  <2>2. meta' \in Hash!Metas /\ meta'.lapsed = TRUE
    BY <2>1 DEF Hash!Metas
  <2>3. ~Hash!Live'
    BY <2>2 DEF Hash!Live
  <2>4. HashInv'
    BY <2>1, <2>2, <2>3 DEF HashInv
  <2>5. Hash!Held' = Hash!Hashes!None
    BY <2>3 DEF Hash!Held, Hash!Hashes!None
  <2>. QED
    BY <2>1, <2>4, <2>5
<1>2. CASE Hash!Erase
  <2>1. meta' = Absent /\ row' = Hash!NoRows /\ ret' = ret
    BY <1>2 DEF Hash!Erase
  <2>2. ~Hash!Live'
    BY <2>1 DEF Hash!Live
  <2>3. HashInv'
    BY <2>1, <2>2, HeldIs DEF HashInv
  <2>4. Hash!Held' = Hash!Hashes!None
    BY <2>2 DEF Hash!Held, Hash!Hashes!None
  <2>. QED
    BY <2>1, <2>3, <2>4
<1>. QED
  BY <1>1, <1>2

\* Time passes.
LEMMA HashTickRefines ==
    ASSUME HashContext, HashInv, Hash!Tick
    PROVE  HashInv' /\ Hash!Hashes!Tick
<1>1. /\ now < MaxNow /\ now' = now + 1 /\ meta' = meta /\ row' = row /\ asked' = asked /\ ret' = ret
      /\ now \in Nat /\ MaxNow \in Nat
  BY HashAssumed DEF Hash!Tick
<1>2. Hash!Live' <=> Hash!Live
  BY <1>1 DEF Hash!Live
<1>3. Hash!Live => CountsOf(meta, row)'
  <2>1. ASSUME Hash!Live PROVE CountsOf(meta, row)'
    <3>1. CountsOf(meta, row) /\ meta.lower \in Nat
      BY <2>1, MetaIs DEF HashInv, Hash!Live
    <3>2. Rowed(row)' = Rowed(row) /\ Lasting(row)' = Lasting(row) /\ Bounding(meta, row)' = Bounding(meta, row)
      BY <1>1 DEF Rowed, Lasting, Bounding
    <3>3. meta.lower <= now => meta.lower <= now'
      BY <1>1, <3>1
    <3>. QED
      BY <1>1, <3>1, <3>2, <3>3 DEF CountsOf
  <2>. QED
    BY <2>1
<1>4. HashInv'
  BY <1>1, <1>2, <1>3 DEF HashInv
<1>5. ASSUME NEW f \in Fields
      PROVE  (IF Hash!Live' /\ Hash!LiveRow(f)' THEN row'[f] ELSE Absent)
               = IF Hash!Held[f] # Absent /\ Hash!Held[f].exp = now + 1 THEN Absent ELSE Hash!Held[f]
  <2>1. /\ row[f] # Absent => row[f].exp \in Nat
        /\ Hash!Held[f] = IF Hash!Live /\ Hash!LiveRow(f) THEN row[f] ELSE Absent
    BY CellIs DEF HashInv, Hash!Held
  <2>2. /\ Hash!LiveRow(f) <=> row[f] # Absent /\ ~(row[f].exp > 0 /\ row[f].exp <= now)
        /\ Hash!LiveRow(f)' <=> row[f] # Absent /\ ~(row[f].exp > 0 /\ row[f].exp <= now + 1)
    BY <1>1 DEF Hash!LiveRow, Hash!Expired
  <2>3. CASE row[f] = Absent \/ ~Hash!Live
    BY <1>1, <1>2, <2>1, <2>2, <2>3
  <2>4. CASE row[f] # Absent /\ Hash!Live
    <3>1. /\ (row[f].exp <= now + 1) <=> (row[f].exp <= now \/ row[f].exp = now + 1)
          /\ row[f].exp = now + 1 => row[f].exp > 0 /\ ~(row[f].exp <= now)
      BY <1>1, <2>1, <2>4
    <3>. QED
      BY <1>1, <1>2, <2>1, <2>2, <2>4, <3>1
  <2>. QED
    BY <2>3, <2>4
<1>6. Hash!Held' = [f \in Fields |-> IF Hash!Held[f] # Absent /\ Hash!Held[f].exp = now + 1 THEN Absent ELSE Hash!Held[f]]
  BY <1>5 DEF Hash!Held
<1>. QED
  BY <1>1, <1>4, <1>6 DEF Hash!Hashes!Tick

\* The bounds a count of the rows finds.
LEMMA BoundsFound ==
    ASSUME NEW S, IsFiniteSet(S), S # {}, S \subseteq Nat
    PROVE  /\ Hash!Lowest(S) \in S /\ \A x \in S : Hash!Lowest(S) <= x
           /\ Hash!Highest(S) \in S /\ \A x \in S : x <= Hash!Highest(S)
<1>1. \E m \in S : \A x \in S : m <= x
  BY LeastOf
<1>2. \E m \in S : \A x \in S : x <= m
  BY GreatestOf
<1>. QED
  BY <1>1, <1>2 DEF Hash!Lowest, Hash!Highest

\* A count of the rows keeps what has not run out, and counts it.
LEMMA RepairedIs ==
    ASSUME HashContext, HashInv, Hash!Live
    PROVE  LET h == [meta |-> Hash!Repaired.meta, row |-> Hash!Repaired.row, out |-> <<>>]
           IN  /\ Sound(h) /\ h.meta.lapsed = FALSE /\ Alive(h.row) = Hash!Held
               /\ h.meta.size = Cardinality({f \in Fields : Hash!Held[f] # Absent})
<1>. DEFINE left == {f \in Fields : Hash!Kind(Hash!Here, f) \in {"persistent", "live"}}
            timed == {row[f].exp : f \in {g \in left : row[g].exp # 0}}
            size == Cardinality(left)
            persist == Cardinality({f \in left : row[f].exp = 0})
            low == IF timed = {} THEN 0 ELSE Hash!Lowest(timed)
            up == IF timed = {} THEN 0 ELSE Hash!Highest(timed)
            m == [meta EXCEPT !.size = size, !.persist = persist, !.lower = low, !.upper = up]
            r == [f \in Fields |-> IF f \in left THEN row[f] ELSE Absent]
            s == <<>>
            h == [meta |-> m, row |-> r, out |-> s]
<1>1. Hash!Repaired.meta = m /\ Hash!Repaired.row = r
  <2>1. Hash!Repaired = [meta |-> m, row |-> r]
    BY HashCardinality DEF Hash!Repaired
  <2>. HIDE DEF m, r
  <2>. QED
    BY <2>1
<1>2. /\ meta \in Hash!Metas /\ row \in HashRows /\ meta.lapsed = FALSE
      /\ Hash!Held = Alive(row) /\ Hash!Here \in Views /\ Hash!Here.row = row
  BY MetaIs, HeldIs, HereBegins DEF HashInv, Hash!Live, Begins, Sound
<1>3. ASSUME NEW f \in Fields
      PROVE  /\ f \in left <=> AliveAt(row, f)
             /\ Hash!Held[f] = IF f \in left THEN row[f] ELSE Absent
             /\ f \in left => row[f] # Absent
             /\ row[f] # Absent => row[f].exp \in 0 .. MaxNow
  BY <1>2, AliveIs, CellIs DEF AliveAt
<1>4. IsFiniteSet(left) /\ left \subseteq Fields
  <2>1. left \subseteq Fields
    OBVIOUS
  <2>. HIDE DEF left
  <2>. QED
    BY <2>1, HashAssumed, FS_Subset
<1>. HIDE DEF left
<1>5. /\ timed \subseteq Nat /\ IsFiniteSet(timed) /\ 0 \notin timed
      /\ \A f \in left : row[f].exp # 0 => row[f].exp \in timed
  <2>1. timed \subseteq 0 .. MaxNow /\ 0 \notin timed /\ MaxNow \in Nat
    BY <1>3, <1>4, HashAssumed
  <2>2. \A f \in left : row[f].exp # 0 => row[f].exp \in timed
    OBVIOUS
  <2>. HIDE DEF timed
  <2>3. IsFiniteSet(timed)
    <3>1. MaxNow \in Int /\ 0 \in Int
      BY <2>1
    <3>2. IsFiniteSet(0 .. MaxNow)
      BY <3>1, FS_Interval
    <3>. QED
      BY <2>1, <3>2, FS_Subset
  <2>. QED
    BY <2>1, <2>2, <2>3
<1>. HIDE DEF timed
<1>6. /\ low \in Nat /\ up \in Nat
      /\ \A x \in timed : low # 0 /\ low <= x /\ x <= up
  <2>1. CASE timed = {}
    BY <2>1
  <2>2. CASE timed # {}
    <3>1. /\ Hash!Lowest(timed) \in timed /\ \A x \in timed : Hash!Lowest(timed) <= x
          /\ Hash!Highest(timed) \in timed /\ \A x \in timed : x <= Hash!Highest(timed)
      BY <1>5, <2>2, BoundsFound
    <3>2. low = Hash!Lowest(timed) /\ up = Hash!Highest(timed)
      BY <2>2
    <3>. HIDE DEF low, up
    <3>. QED
      BY <1>5, <3>1, <3>2
  <2>. QED
    BY <2>1, <2>2
<1>7. size \in Nat /\ persist \in Nat
  <2>. DEFINE L == {f \in left : row[f].exp = 0}
  <2>1. L \subseteq left
    OBVIOUS
  <2>. HIDE DEF L
  <2>2. Cardinality(L) \in Nat
    BY <1>4, <2>1, FS_Subset, FS_CardinalityType
  <2>. QED
    BY <1>4, <2>2, FS_CardinalityType DEF L
<1>8. r \in HashRows /\ \A f \in Fields : r[f] = IF f \in left THEN row[f] ELSE Absent
  BY <1>2 DEF HashRows
<1>9. Rowed(r) = left /\ Lasting(r) = {f \in left : row[f].exp = 0}
  <2>. HIDE DEF r
  <2>. QED
    BY <1>3, <1>4, <1>8 DEF Rowed, Lasting
<1>. HIDE DEF low, up
<1>10. m \in Hash!Metas /\ m.size = size /\ m.persist = persist /\ m.lower = low /\ m.upper = up /\ m.lapsed = FALSE
  <2>. HIDE DEF size, persist
  <2>. QED
    BY <1>2, <1>6, <1>7 DEF Hash!Metas
<1>. HIDE DEF m
<1>11. Bounding(m, r)
  <2>1. ASSUME NEW f \in Fields, r[f] # Absent, r[f].exp # 0
        PROVE  m.lower # 0 /\ m.lower <= r[f].exp /\ r[f].exp <= m.upper
    <3>1. f \in left /\ r[f] = row[f]
      BY <1>8, <2>1
    <3>2. row[f].exp \in timed
      BY <1>5, <2>1, <3>1
    <3>. QED
      BY <1>6, <1>10, <3>1, <3>2
  <2>. HIDE DEF r
  <2>. QED
    BY <2>1 DEF Bounding
<1>. HIDE DEF r
<1>12. CountsOf(m, r)
  BY <1>7, <1>9, <1>10, <1>11 DEF CountsOf
<1>13. s \in Seq(Int \cup {Absent})
  OBVIOUS
<1>. HIDE DEF s
<1>14. h \in Views /\ h.meta = m /\ h.row = r
  BY <1>8, <1>10, <1>13, ViewOf
<1>15. Alive(r) = Hash!Held
  <2>1. ASSUME NEW f \in Fields PROVE (IF AliveAt(r, f) THEN r[f] ELSE Absent) = Hash!Held[f]
    BY <1>3, <1>8 DEF AliveAt
  <2>2. Hash!Held = [f \in Fields |-> Hash!Held[f]]
    BY DEF Hash!Held
  <2>. QED
    BY <2>1, <2>2 DEF Alive
<1>16. left = {f \in Fields : Hash!Held[f] # Absent}
  BY <1>3, <1>4
<1>. HIDE DEF h
<1>17. /\ Sound(h) /\ h.meta.lapsed = FALSE /\ Alive(h.row) = Hash!Held
       /\ h.meta.size = Cardinality({f \in Fields : Hash!Held[f] # Absent})
  BY <1>10, <1>12, <1>14, <1>15, <1>16 DEF Sound
<1>. QED
  BY <1>1, <1>17 DEF h, s

\* HLEN refines HLEN.
LEMMA HLenRefines ==
    ASSUME HashContext, HashInv, Hash!HLen, now' = now
    PROVE  HashInv' /\ Hash!Hashes!HLen
<1>. DEFINE There == {f \in Fields : Hash!Held[f] # Absent}
<1>1. Hash!Hashes!There(Fields) = There /\ Hash!Hashes!Cardinality(There) = Cardinality(There)
  BY ThereIs, HashesCardinality
<1>2. SUFFICES HashInv' /\ Hash!Held' = Hash!Held /\ ret' = Cardinality(There)
  BY <1>1 DEF Hash!Hashes!HLen, Hash!Hashes!Keep
<1>3. CASE ~Hash!Live
  <2>1. Hash!Unchanged(0)
    BY <1>3 DEF Hash!HLen
  <2>2. There = {}
    BY <1>3, HeldIs
  <2>3. Cardinality(There) = 0
    BY <2>2, FS_EmptySet
  <2>. QED
    BY <2>1, <2>3, UnchangedKeeps DEF Hash!Unchanged
<1>4. CASE Hash!Live
  <2>1. /\ meta \in Hash!Metas /\ row \in HashRows /\ CountsOf(meta, row)
        /\ meta.size \in Nat /\ meta.persist \in Nat /\ meta.lower \in Nat /\ now \in Nat
    BY <1>4, MetaIs, HashAssumed DEF HashInv, Hash!Live
  <2>2. /\ Cardinality(Rowed(row)) \in Nat /\ Cardinality(Lasting(row)) \in Nat
        /\ Cardinality(Lasting(row)) <= Cardinality(Rowed(row))
        /\ meta.size >= Cardinality(Rowed(row)) /\ meta.persist = Cardinality(Lasting(row))
        /\ meta.size = Cardinality(Rowed(row)) \/ (meta.lower # 0 /\ meta.lower <= now)
        /\ Cardinality(Lasting(row)) = Cardinality(Rowed(row)) =>
              \A f \in Fields : row[f] = Absent \/ row[f].exp = 0
        /\ Bounding(meta, row)
    BY <2>1, RowedIs DEF CountsOf
  <2>3. ASSUME NEW f \in Fields
        PROVE  /\ Hash!Held[f] = IF AliveAt(row, f) THEN row[f] ELSE Absent
               /\ row[f] # Absent => row[f].exp \in Nat
    BY <1>4, <2>1, HeldIs, CellIs DEF Alive
  <2>4. CASE meta.size = meta.persist \/ (meta.lower # 0 /\ now < meta.lower)
    <3>1. Hash!Unchanged(meta.size)
      <4>1. ~(meta.persist > meta.size)
        BY <2>1, <2>2
      <4>. QED
        BY <1>4, <2>4, <4>1 DEF Hash!HLen
    <3>2. meta.size = Cardinality(Rowed(row))
      BY <2>1, <2>2, <2>4
    <3>3. \A f \in Fields : row[f] # Absent => row[f].exp = 0 \/ ~(row[f].exp <= now)
      <4>1. CASE meta.size = meta.persist
        BY <2>2, <3>2, <4>1
      <4>2. CASE meta.lower # 0 /\ now < meta.lower
        <5>1. ASSUME NEW f \in Fields, row[f] # Absent, row[f].exp # 0 PROVE ~(row[f].exp <= now)
          <6>1. meta.lower <= row[f].exp /\ row[f].exp \in Nat
            BY <2>2, <2>3, <5>1 DEF Bounding
          <6>. QED
            BY <2>1, <4>2, <6>1
        <5>. QED
          BY <5>1
      <4>. QED
        BY <2>4, <4>1, <4>2
    <3>4. There = Rowed(row)
      BY <2>3, <3>3 DEF Rowed, AliveAt
    <3>. QED
      BY <3>1, <3>2, <3>4, UnchangedKeeps DEF Hash!Unchanged
  <2>5. CASE ~(meta.size = meta.persist \/ (meta.lower # 0 /\ now < meta.lower)) /\ Hash!AllGone
    <3>1. meta' = Absent /\ row' = row /\ ret' = 0
      <4>1. ~(meta.persist > meta.size)
        BY <2>1, <2>2
      <4>. QED
        BY <1>4, <2>5, <4>1 DEF Hash!HLen
    <3>2. Hash!Held = Hash!NoRows
      BY <1>4, <2>5, AllGoneIs
    <3>3. There = {}
      BY <3>2, HeldIs
    <3>4. ~Hash!Live' /\ Cardinality(There) = 0
      BY <3>1, <3>3, FS_EmptySet DEF Hash!Live
    <3>5. HashInv'
      BY <3>1, <3>4 DEF HashInv
    <3>6. Hash!Held' = Hash!Held
      BY <3>2, <3>4 DEF Hash!Held, Hash!NoRows
    <3>. QED
      BY <3>1, <3>4, <3>5, <3>6
  <2>6. CASE ~(meta.size = meta.persist \/ (meta.lower # 0 /\ now < meta.lower)) /\ ~Hash!AllGone
    <3>. DEFINE h == [meta |-> Hash!Repaired.meta, row |-> Hash!Repaired.row, out |-> <<>>]
    <3>1. Hash!Commit(Hash!Repaired) /\ ret' = Hash!Repaired.meta.size
      <4>1. ~(meta.persist > meta.size)
        BY <2>1, <2>2
      <4>. QED
        BY <1>4, <2>6, <4>1 DEF Hash!HLen
    <3>2. h.meta = Hash!Repaired.meta /\ h.row = Hash!Repaired.row
      OBVIOUS
    <3>3. /\ Sound(h) /\ h.meta.lapsed = FALSE /\ Alive(h.row) = Hash!Held
          /\ h.meta.size = Cardinality(There)
      BY <1>4, RepairedIs
    <3>. HIDE DEF h, There
    <3>4. Hash!Commit(h)
      BY <3>1, <3>2 DEF Hash!Commit
    <3>5. HashInv' /\ Hash!Held' = Alive(h.row)
      BY <3>3, <3>4, CommitKeeps
    <3>. QED
      BY <3>1, <3>2, <3>3, <3>5
  <2>. QED
    BY <2>4, <2>5, <2>6
<1>. QED
  BY <1>3, <1>4

\* HSETEX with an expiry that has passed.
GoneStep(ps, h, i) == IF h.row[ps[i].field] = Absent THEN h ELSE Hash!RemoveField(h, ps[i].field)

LEMMA GoneTurns ==
    ASSUME HashContext, NEW h, Sound(h), NEW ps \in HashPairs, NEW i \in 1 .. Len(ps)
    PROVE  Turned(h, GoneStep(ps, h, i), ps[i].field, Absent)
<1>. DEFINE f == ps[i].field
            g == Hash!RemoveField(h, f)
<1>1. f \in Fields /\ h \in Views
  BY PairIs DEF Sound
<1>. HIDE DEF f
<1>2. CASE h.row[f] = Absent
  <2>1. ~AliveAt(h.row, f)
    BY <1>2 DEF AliveAt
  <2>2. Alive(h.row)[f] = Absent
    BY <1>1, <2>1, AliveIs
  <2>3. GoneStep(ps, h, i) = h
    BY <1>2 DEF GoneStep, f
  <2>. QED
    BY <2>2, <2>3 DEF Turned, f
<1>3. CASE h.row[f] # Absent
  <2>1. Becomes(h, g, f, Absent, h.out)
    BY <1>1, <1>3, RemoveBecomes
  <2>. HIDE DEF g
  <2>2. Turned(h, g, f, IF Lasts(Absent) THEN Absent ELSE Absent)
    BY <1>1, <2>1, TurnedIs
  <2>3. GoneStep(ps, h, i) = g
    BY <1>3 DEF GoneStep, f, g
  <2>. QED
    BY <2>2, <2>3 DEF f
<1>. QED
  BY <1>2, <1>3

\* HSETEX of pairs that are met.
SetExStep(ps, action, at, h, i) ==
    IF Hash!Passed(ps, i) THEN h
    ELSE Hash!SetExField(h, ps[i], Hash!Target(h, ps[i].field, action, at))

\* What HSETEX does to one field: p is written until t.
SetExTurned(h, p, t, g) ==
    /\ t \in 0 .. MaxNow /\ Sound(g)
    /\ Turned(h, g, p.field, IF Lasts(Cell(p.val, t)) THEN Cell(p.val, t) ELSE Absent)
    /\ \A e \in Fields \ {p.field} : g.row[e] = h.row[e]

LEMMA SetExTurns ==
    ASSUME HashContext, NEW h, Sound(h), NEW ps \in HashPairs, NEW i \in 1 .. Len(ps),
           NEW action \in {"discard", "keep", "set"}, NEW at \in 1 .. MaxNow
    PROVE  SetExTurned(h, ps[i], Hash!Target(h, ps[i].field, action, at),
                       Hash!SetExField(h, ps[i], Hash!Target(h, ps[i].field, action, at)))
<1>. DEFINE f == ps[i].field
            v == ps[i].val
            p == ps[i]
            t == Hash!Target(h, f, action, at)
            b == Cell(v, t)
            g == Hash!SetExField(h, p, t)
<1>1. f \in Fields /\ v \in 0 .. MaxVal /\ h \in Views /\ h.row \in HashRows /\ p.field = f /\ p.val = v
  BY PairIs, ViewIs DEF Sound
<1>. HIDE DEF f, v, p
<1>2. t \in 0 .. MaxNow
  <2>1. Hash!Kind(h, f) \in {"live", "expired"} => h.row[f].exp \in 0 .. MaxNow
    BY <1>1, KindIsOf, CellIs
  <2>2. MaxNow \in Nat
    BY HashAssumed
  <2>. QED
    BY <2>1, <2>2 DEF Hash!Target
<1>. HIDE DEF t
<1>3. Becomes(h, g, f, b, h.out)
  BY <1>1, <1>2, SetExBecomes
<1>. DEFINE s == h.out
<1>. HIDE DEF g, b, s
<1>4. Becomes(h, g, f, b, s)
  BY <1>3 DEF s
<1>5. Turned(h, g, f, IF Lasts(b) THEN b ELSE Absent) /\ g.out = s
  BY <1>1, <1>4, TurnedIs
<1>6. /\ Sound(g) /\ g.meta.lapsed = h.meta.lapsed /\ g.out = s
      /\ \A e \in Fields \ {f} : Alive(g.row)[e] = Alive(h.row)[e] /\ g.row[e] = h.row[e]
      /\ Alive(g.row)[f] = IF Lasts(b) THEN b ELSE Absent
      /\ g.row[f] = b
  BY <1>1, <1>4, AliveBecomes
<1>. QED
  <2>1. SetExTurned(h, p, t, g)
    BY <1>1, <1>2, <1>5, <1>6 DEF SetExTurned, b
  <2>. QED
    BY <2>1 DEF g, t, f, p

\* The loops of HSETEX and its cases.
GoneEach(ps) ==
    LET after == CHOOSE g : g = [i \in 0 .. Len(ps) |-> IF i = 0 THEN Hash!Prepared ELSE GoneStep(ps, g[i - 1], i)]
    IN  after[Len(ps)]
SetExEach(ps, action, at) ==
    LET after == CHOOSE g : g = [i \in 0 .. Len(ps) |-> IF i = 0 THEN Hash!Prepared
                                                        ELSE SetExStep(ps, action, at, g[i - 1], i)]
    IN  after[Len(ps)]
HashMet(ps, cond) ==
    CASE cond = "none" -> TRUE
      [] cond = "nx" -> \A i \in DOMAIN ps : ~(Hash!Kind(Hash!Prepared, ps[i].field) \in {"persistent", "live"})
      [] cond = "xx" -> \A i \in DOMAIN ps : Hash!Kind(Hash!Prepared, ps[i].field) \in {"persistent", "live"}

LEMMA HSetExCases ==
    ASSUME NEW ps, NEW cond, NEW action, NEW at, Hash!HSetEx(ps, cond, action, at)
    PROVE  \/ ~HashMet(ps, cond) /\ Hash!Unchanged(FALSE)
           \/ /\ HashMet(ps, cond) /\ action = "set" /\ at <= now
              /\ \/ Len(ps) = 1 /\ Hash!Prepared.row[ps[1].field] = Absent /\ Hash!Unchanged(TRUE)
                 \/ Hash!Commit(GoneEach(ps)) /\ ret' = TRUE
           \/ /\ HashMet(ps, cond) /\ ~(action = "set" /\ at <= now)
              /\ Hash!Commit(SetExEach(ps, action, at)) /\ ret' = TRUE
<1>1. IF ~HashMet(ps, cond) THEN Hash!Unchanged(FALSE)
      ELSE IF action = "set" /\ at <= now
      THEN IF Len(ps) = 1 /\ Hash!Prepared.row[ps[1].field] = Absent THEN Hash!Unchanged(TRUE)
           ELSE Hash!Commit(GoneEach(ps)) /\ ret' = TRUE
      ELSE Hash!Commit(SetExEach(ps, action, at)) /\ ret' = TRUE
  BY Zenon DEF Hash!HSetEx, Hash!Each, HashMet, GoneEach, SetExEach, GoneStep, SetExStep
<1>. QED
  BY <1>1

LEMMA GoneEachIs ==
    ASSUME HashContext, HashInv, NEW ps \in HashPairs
    PROVE  \E g : /\ g[0] = Hash!Prepared
                  /\ \A i \in 1 .. Len(ps) : g[i] = GoneStep(ps, g[i - 1], i)
                  /\ g[Len(ps)] = GoneEach(ps)
<1>. DEFINE n == Len(ps)
            v == Hash!Prepared
            F == [p \in Safe \X (1 .. n) |-> GoneStep(ps, p[1], p[2])]
            Body(g) == [i \in 0 .. n |-> IF i = 0 THEN v ELSE GoneStep(ps, g[i - 1], i)]
            after == CHOOSE g : g = Body(g)
<1>1. n \in Nat /\ v \in Safe
  BY PairIs, PreparedBegins, SafeIs DEF Begins
<1>2. after[n] = GoneEach(ps)
  BY DEF GoneEach
<1>. HIDE DEF v
<1>3. \A h \in Safe, i \in 1 .. n : GoneStep(ps, h, i) \in Safe
  BY <1>1, GoneTurns, SafeIs DEF Turned
<1>4. \A h \in Safe, i \in 1 .. n : F[<<h, i>>] = GoneStep(ps, h, i) /\ F[<<h, i>>] \in Safe
  BY <1>3
<1>. HIDE DEF F
<1>5. \E g : g = Body(g)
  <2>1. PICK g : /\ g = [i \in 0 .. n |-> IF i = 0 THEN v ELSE F[<<g[i - 1], i>>]]
                 /\ \A i \in 0 .. n : g[i] \in Safe
    <3>1. Stays(F, n, Safe)
      BY <1>4 DEF Stays
    <3>. QED
      BY <1>1, <3>1, LoopIs
  <2>2. \A i \in 0 .. n : i # 0 => i - 1 \in 0 .. n /\ i \in 1 .. n
    BY <1>1
  <2>3. g = Body(g)
    BY <1>4, <2>1, <2>2
  <2>. QED
    BY <2>3
<1>6. after = Body(after)
  BY <1>5
<1>. HIDE DEF after
<1>7. after[0] = v /\ \A i \in 1 .. n : after[i] = GoneStep(ps, after[i - 1], i)
  <2>1. 0 \in 0 .. n /\ \A i \in 1 .. n : i \in 0 .. n /\ i # 0
    BY <1>1
  <2>. QED
    BY <1>6, <2>1
<1>. QED
  BY <1>2, <1>7 DEF v

LEMMA SetExEachIs ==
    ASSUME HashContext, HashInv, NEW ps \in HashPairs,
           NEW action \in {"discard", "keep", "set"}, NEW at \in 1 .. MaxNow
    PROVE  \E g : /\ g[0] = Hash!Prepared
                  /\ \A i \in 1 .. Len(ps) : g[i] = SetExStep(ps, action, at, g[i - 1], i)
                  /\ g[Len(ps)] = SetExEach(ps, action, at)
<1>. DEFINE n == Len(ps)
            v == Hash!Prepared
            F == [p \in Safe \X (1 .. n) |-> SetExStep(ps, action, at, p[1], p[2])]
            Body(g) == [i \in 0 .. n |-> IF i = 0 THEN v ELSE SetExStep(ps, action, at, g[i - 1], i)]
            after == CHOOSE g : g = Body(g)
<1>1. n \in Nat /\ v \in Safe
  BY PairIs, PreparedBegins, SafeIs DEF Begins
<1>2. after[n] = SetExEach(ps, action, at)
  BY DEF SetExEach
<1>. HIDE DEF v
<1>3. \A h \in Safe, i \in 1 .. n : SetExStep(ps, action, at, h, i) \in Safe
  <2>. SUFFICES ASSUME NEW h \in Safe, NEW i \in 1 .. n PROVE SetExStep(ps, action, at, h, i) \in Safe
    OBVIOUS
  <2>. DEFINE t == Hash!Target(h, ps[i].field, action, at)
              x == Hash!SetExField(h, ps[i], t)
  <2>1. Sound(h)
    BY SafeIs
  <2>2. SetExTurned(h, ps[i], t, x)
    BY <2>1, SetExTurns, Zenon
  <2>3. SetExStep(ps, action, at, h, i) = IF Hash!Passed(ps, i) THEN h ELSE x
    BY DEF SetExStep
  <2>. HIDE DEF x
  <2>. QED
    BY <2>2, <2>3, SafeIs DEF SetExTurned
<1>4. \A h \in Safe, i \in 1 .. n : F[<<h, i>>] = SetExStep(ps, action, at, h, i) /\ F[<<h, i>>] \in Safe
  BY <1>3
<1>. HIDE DEF F
<1>5. \E g : g = Body(g)
  <2>1. PICK g : /\ g = [i \in 0 .. n |-> IF i = 0 THEN v ELSE F[<<g[i - 1], i>>]]
                 /\ \A i \in 0 .. n : g[i] \in Safe
    <3>1. Stays(F, n, Safe)
      BY <1>4 DEF Stays
    <3>. QED
      BY <1>1, <3>1, LoopIs
  <2>2. \A i \in 0 .. n : i # 0 => i - 1 \in 0 .. n /\ i \in 1 .. n
    BY <1>1
  <2>3. g = Body(g)
    BY <1>4, <2>1, <2>2
  <2>. QED
    BY <2>3
<1>6. after = Body(after)
  BY <1>5
<1>. HIDE DEF after
<1>7. after[0] = v /\ \A i \in 1 .. n : after[i] = SetExStep(ps, action, at, after[i - 1], i)
  <2>1. 0 \in 0 .. n /\ \A i \in 1 .. n : i \in 0 .. n /\ i # 0
    BY <1>1
  <2>. QED
    BY <1>6, <2>1
<1>. QED
  BY <1>2, <1>7 DEF v

AbstractMet(ps, cond) ==
    CASE cond = "none" -> TRUE
      [] cond = "nx" -> Hash!Hashes!There(Hash!Hashes!Written(ps)) = {}
      [] cond = "xx" -> Hash!Hashes!There(Hash!Hashes!Written(ps)) = Hash!Hashes!Written(ps)

LEMMA MetIs ==
    ASSUME HashContext, HashInv, NEW ps \in HashPairs, NEW cond \in {"none", "nx", "xx"}
    PROVE  HashMet(ps, cond) <=> AbstractMet(ps, cond)
<1>. DEFINE S == Hash!Hashes!Written(ps)
            There == Hash!Hashes!There(S)
            Is(i) == Hash!Kind(Hash!Prepared, ps[i].field) \in {"persistent", "live"}
<1>1. /\ DOMAIN ps = 1 .. Len(ps) /\ \A i \in 1 .. Len(ps) : ps[i].field \in Fields
      /\ S = {ps[i].field : i \in 1 .. Len(ps)} /\ S \subseteq Fields
  BY PairIs
<1>2. \A i \in 1 .. Len(ps) : Is(i) <=> Hash!Held[ps[i].field] # Absent
  BY <1>1, PreparedHeld
<1>3. There = {f \in S : Hash!Held[f] # Absent}
  BY <1>1, ThereIs
<1>. HIDE DEF S, There, Is
<1>4. There = {} <=> \A i \in DOMAIN ps : ~Is(i)
  BY <1>1, <1>2, <1>3
<1>5. There = S <=> \A i \in DOMAIN ps : Is(i)
  BY <1>1, <1>2, <1>3
<1>6. CASE cond = "none"
  BY <1>6 DEF HashMet, AbstractMet
<1>7. CASE cond = "nx"
  BY <1>4, <1>7 DEF HashMet, AbstractMet, Is, There, S
<1>8. CASE cond = "xx"
  BY <1>5, <1>8 DEF HashMet, AbstractMet, Is, There, S
<1>. QED
  BY <1>6, <1>7, <1>8

LEMMA GoneDoes ==
    ASSUME HashContext, HashInv, NEW ps \in HashPairs, Hash!Commit(GoneEach(ps)), now' = now
    PROVE  HashInv' /\ Hash!Held' = Hash!Hashes!Without(Hash!Hashes!Written(ps))
<1>. DEFINE n == Len(ps)
            c == [f \in Fields |-> Absent]
            Done(i) == {ps[j].field : j \in 1 .. i}
            Fit(i, h) == Fills(h, Done(i), c)
            W == [i \in 0 .. n |-> {h \in Views : Fit(i, h)}]
<1>1. /\ n \in Nat /\ \A i \in 1 .. n : ps[i].field \in Fields
      /\ Hash!Hashes!Written(ps) = Done(n) /\ Done(n) \subseteq Fields
  BY PairIs
<1>2. PICK g : /\ g[0] = Hash!Prepared
               /\ \A i \in 1 .. n : g[i] = GoneStep(ps, g[i - 1], i)
               /\ g[n] = GoneEach(ps)
  BY GoneEachIs
<1>3. \A f \in Fields : c[f] = Absent
  OBVIOUS
<1>4. ASSUME NEW i \in 1 .. n PROVE Done(i) = Done(i - 1) \cup {ps[i].field}
  <2>1. /\ \A j \in 1 .. i : j = i \/ j \in 1 .. i - 1
        /\ i \in 1 .. i /\ \A j \in 1 .. i - 1 : j \in 1 .. i
    BY <1>1
  <2>. QED
    BY <2>1
<1>5. Done(0) = {}
  OBVIOUS
<1>. HIDE DEF Done, c
<1>6. g[0] \in W[0]
  <2>1. Begins(g[0])
    BY <1>2, PreparedBegins
  <2>2. Fills(g[0], {}, c)
    BY <2>1, BeginsFilling
  <2>3. Fit(0, g[0]) /\ g[0] \in Views /\ 0 \in 0 .. n
    <3>1. g[0] \in Views
      BY <2>1 DEF Begins, Sound
    <3>2. Fills(g[0], Done(0), c)
      BY <1>5, <2>2
    <3>. QED
      BY <1>1, <3>1, <3>2
  <2>. HIDE DEF Fit
  <2>. QED
    BY <2>3
<1>7. ASSUME NEW i \in 1 .. n, g[i - 1] \in W[i - 1] PROVE g[i] \in W[i]
  <2>. DEFINE h == g[i - 1]
              f == ps[i].field
  <2>1. i - 1 \in 0 .. n /\ i \in 0 .. n
    BY <1>1
  <2>2. h \in Views /\ Fit(i - 1, h)
    <3>. HIDE DEF Fit
    <3>. QED
      BY <1>7, <2>1
  <2>3. Sound(h) /\ f \in Fields /\ Fills(h, Done(i - 1), c) /\ c[f] = Absent
    BY <1>1, <1>3, <2>2 DEF Fills
  <2>4. Turned(h, g[i], f, Absent)
    BY <1>2, <2>3, GoneTurns
  <2>. HIDE DEF h, f
  <2>5. Fills(g[i], Done(i - 1) \cup {f}, c)
    BY <2>3, <2>4, FillsTurned
  <2>6. Fit(i, g[i]) /\ g[i] \in Views
    BY <1>4, <2>5 DEF Fills, Sound, f
  <2>. HIDE DEF Fit
  <2>. QED
    BY <2>1, <2>6
<1>8. Fit(n, g[n])
  <2>. HIDE DEF W
  <2>1. g[n] \in W[n]
    BY <1>1, <1>6, <1>7, LoopKeeps
  <2>2. n \in 0 .. n
    BY <1>1
  <2>. HIDE DEF Fit
  <2>. QED
    BY <2>1, <2>2 DEF W
<1>9. HashInv' /\ Hash!Held' = [f \in Fields |-> IF f \in Done(n) THEN c[f] ELSE Hash!Held[f]]
  BY <1>2, <1>8, FillsHeld
<1>. QED
  BY <1>1, <1>3, <1>9 DEF Hash!Hashes!Without

Rewrote(ps, action, at) ==
    LET S == Hash!Hashes!Written(ps)
        time(f) == CASE action = "discard" -> 0
                     [] action = "keep" -> IF Hash!Held[f] = Absent THEN 0 ELSE Hash!Held[f].exp
                     [] action = "set" -> at
        lost == IF action = "keep" THEN SUBSET (S \ Hash!Hashes!There(S)) ELSE {{}}
    IN  \E L \in lost :
           Hash!Held' = [f \in Fields |-> IF f \in S \ L THEN [val |-> Hash!Hashes!LastOf(ps, f), exp |-> time(f)]
                                          ELSE Hash!Held[f]]

LEMMA SetExDoes ==
    ASSUME HashContext, HashInv, NEW ps \in HashPairs, NEW action \in {"discard", "keep", "set"},
           NEW at \in 1 .. MaxNow, ~(action = "set" /\ at <= now),
           Hash!Commit(SetExEach(ps, action, at)), now' = now
    PROVE  HashInv' /\ Rewrote(ps, action, at)
<1>. DEFINE n == Len(ps)
            S == Hash!Hashes!Written(ps)
            time(f) == CASE action = "discard" -> 0
                         [] action = "keep" -> IF Hash!Held[f] = Absent THEN 0 ELSE Hash!Held[f].exp
                         [] action = "set" -> at
            row0 == Hash!Prepared.row
            Out(f) == action = "keep" /\ row0[f] # Absent /\ row0[f].exp # 0 /\ row0[f].exp <= now
            c == [f \in Fields |-> IF Out(f) THEN Absent ELSE Cell(Hash!Hashes!LastOf(ps, f), time(f))]
            Done(i) == {ps[j].field : j \in {k \in 1 .. i : ~Hash!Passed(ps, k)}}
            Fit(i, h) == Fills(h, Done(i), c) /\ \A f \in Fields \ Done(i) : h.row[f] = row0[f]
            W == [i \in 0 .. n |-> {h \in Views : Fit(i, h)}]
<1>1. /\ n \in Nat /\ \A i \in 1 .. n : ps[i].field \in Fields /\ ps[i].val \in 0 .. MaxVal
      /\ S = {ps[i].field : i \in 1 .. n} /\ S \subseteq Fields
  BY PairIs
<1>2. PICK g : /\ g[0] = Hash!Prepared
               /\ \A i \in 1 .. n : g[i] = SetExStep(ps, action, at, g[i - 1], i)
               /\ g[n] = SetExEach(ps, action, at)
  BY SetExEachIs
<1>3. \A i \in 1 .. n : ~Hash!Passed(ps, i) => ps[i].val = Hash!Hashes!LastOf(ps, ps[i].field)
  BY WriterIs
<1>4. Done(n) = S
  <2>1. Done(n) \subseteq S
    BY <1>1
  <2>2. ASSUME NEW f \in S PROVE f \in Done(n)
    <3>1. \E i \in 1 .. n : ps[i].field = f /\ ~Hash!Passed(ps, i)
      BY WritersAre
    <3>. QED
      BY <3>1
  <2>. HIDE DEF Done
  <2>. QED
    BY <2>1, <2>2
<1>5. ASSUME NEW i \in 1 .. n, Hash!Passed(ps, i) PROVE Done(i) = Done(i - 1)
  <2>1. \A k \in 1 .. i : k = i \/ k \in 1 .. i - 1
    BY <1>1
  <2>2. \A k \in 1 .. i - 1 : k \in 1 .. i
    BY <1>1
  <2>. QED
    BY <1>5, <2>1, <2>2
<1>6. ASSUME NEW i \in 1 .. n, ~Hash!Passed(ps, i)
      PROVE  Done(i) = Done(i - 1) \cup {ps[i].field} /\ ps[i].field \notin Done(i - 1)
  <2>1. \A k \in 1 .. i : k = i \/ k \in 1 .. i - 1
    BY <1>1
  <2>2. i \in 1 .. i /\ \A k \in 1 .. i - 1 : k \in 1 .. i /\ k \in 1 .. n /\ i \in k + 1 .. n
    BY <1>1
  <2>3. ASSUME NEW k \in 1 .. i - 1, ps[k].field = ps[i].field PROVE Hash!Passed(ps, k)
    BY <2>2, <2>3 DEF Hash!Passed
  <2>. QED
    BY <1>6, <2>1, <2>2, <2>3
<1>7. Done(0) = {}
  OBVIOUS
<1>. HIDE DEF Done, c, row0, S
<1>8. g[0] \in W[0]
  <2>1. Begins(g[0])
    BY <1>2, PreparedBegins
  <2>2. Fit(0, g[0])
    BY <1>2, <1>7, <2>1, BeginsFilling DEF row0
  <2>3. g[0] \in Views /\ 0 \in 0 .. n
    BY <1>1, <2>1 DEF Begins, Sound
  <2>. HIDE DEF Fit
  <2>. QED
    BY <2>2, <2>3
<1>9. ASSUME NEW i \in 1 .. n, g[i - 1] \in W[i - 1] PROVE g[i] \in W[i]
  <2>. DEFINE h == g[i - 1]
              f == ps[i].field
  <2>1. i - 1 \in 0 .. n /\ i \in 0 .. n
    BY <1>1
  <2>2. h \in Views /\ Fit(i - 1, h)
    <3>. HIDE DEF Fit
    <3>. QED
      BY <1>9, <2>1
  <2>. HIDE DEF h
  <2>3. CASE Hash!Passed(ps, i)
    <3>1. g[i] = h
      BY <1>2, <2>3 DEF SetExStep, h
    <3>2. Fit(i, g[i]) /\ g[i] \in Views
      BY <1>5, <2>2, <2>3, <3>1
    <3>. HIDE DEF Fit
    <3>. QED
      BY <2>1, <3>2
  <2>4. CASE ~Hash!Passed(ps, i)
    <3>. DEFINE t == Hash!Target(h, f, action, at)
                b == Cell(ps[i].val, t)
    <3>1. Sound(h) /\ f \in Fields /\ f \notin Done(i - 1) /\ Fills(h, Done(i - 1), c) /\ h.row[f] = row0[f]
      BY <1>1, <1>6, <2>2, <2>4 DEF Fills
    <3>2. /\ t \in 0 .. MaxNow /\ Sound(g[i])
          /\ Turned(h, g[i], f, IF Lasts(b) THEN b ELSE Absent)
          /\ \A e \in Fields \ {f} : g[i].row[e] = h.row[e]
      <4>. DEFINE x == Hash!SetExField(h, ps[i], t)
      <4>1. g[i] = x
        BY <1>2, <2>4 DEF SetExStep, h
      <4>2. /\ t \in 0 .. MaxNow /\ Sound(x)
            /\ Turned(h, x, f, IF Lasts(b) THEN b ELSE Absent)
            /\ \A e \in Fields \ {f} : x.row[e] = h.row[e]
        <5>1. Sound(h)
          BY <3>1
        <5>2. SetExTurned(h, ps[i], t, x)
          BY <5>1, SetExTurns, Zenon
        <5>. HIDE DEF x, t
        <5>. QED
          BY <5>2 DEF SetExTurned
      <4>. HIDE DEF x, t, b
      <4>. QED
        BY <4>1, <4>2
    <3>3. c[f] = IF Lasts(b) THEN b ELSE Absent
      <4>1. /\ Hash!Kind(h, f) \in {"live", "expired"} <=> row0[f] # Absent /\ row0[f].exp # 0
            /\ Hash!Held[f] = IF row0[f] # Absent /\ (row0[f].exp = 0 \/ ~(row0[f].exp <= now)) THEN row0[f] ELSE Absent
            /\ row0[f] # Absent => Hash!Held[f] = Absent \/ Hash!Held[f] = row0[f]
        <5>1. Alive(h.row)[f] = Hash!Held[f]
          BY <3>1 DEF Fills
        <5>2. h \in Views
          BY <2>2
        <5>3. /\ Hash!Kind(h, f) \in {"live", "expired"} <=> h.row[f] # Absent /\ h.row[f].exp # 0
              /\ Alive(h.row)[f] = IF AliveAt(h.row, f) THEN h.row[f] ELSE Absent
          BY <3>1, <5>2, KindIsOf, AliveIs
        <5>. QED
          BY <3>1, <5>1, <5>3 DEF AliveAt
      <4>2. b # Absent /\ b.exp = t
        BY <1>1, <3>2, NewCell
      <4>3. /\ c[f] = IF Out(f) THEN Absent ELSE Cell(ps[i].val, time(f))
        BY <1>3, <2>4, <3>1 DEF c
      <4>4. t = CASE action = "discard" -> 0
                  [] action = "keep" -> IF row0[f] # Absent /\ row0[f].exp # 0 THEN row0[f].exp ELSE 0
                  [] action = "set" -> at
        BY <3>1, <4>1 DEF Hash!Target
      <4>. HIDE DEF t, f
      <4>5. CASE action = "discard"
        <5>1. t = 0 /\ time(f) = 0 /\ ~Out(f)
          BY <4>4, <4>5
        <5>. HIDE DEF Out
        <5>. QED
          BY <4>2, <4>3, <5>1 DEF Lasts
      <4>6. CASE action = "set"
        <5>1. t = at /\ time(f) = at /\ ~Out(f)
          BY <4>4, <4>6
        <5>. HIDE DEF Out
        <5>. QED
          BY <4>2, <4>3, <4>6, <5>1 DEF Lasts
      <4>7. CASE action = "keep"
        <5>1. CASE Out(f)
          <6>1. t = row0[f].exp
            BY <4>4, <4>7, <5>1
          <6>. QED
            BY <4>2, <4>3, <5>1, <6>1 DEF Lasts
        <5>2. CASE ~Out(f)
          <6>1. t = time(f) /\ (t = 0 \/ ~(t <= now))
            BY <4>1, <4>4, <4>7, <5>2
          <6>. HIDE DEF Out
          <6>. QED
            BY <4>2, <4>3, <5>2, <6>1 DEF Lasts
        <5>. QED
          BY <5>1, <5>2
      <4>. QED
        BY <4>5, <4>6, <4>7
    <3>4. Fills(g[i], Done(i - 1) \cup {f}, c)
      <4>1. Turned(h, g[i], f, c[f])
        BY <3>2, <3>3
      <4>. HIDE DEF f
      <4>. QED
        BY <3>1, <4>1, FillsTurned
    <3>5. Fit(i, g[i]) /\ g[i] \in Views
      <4>1. Done(i) = Done(i - 1) \cup {f}
        BY <1>6, <2>4
      <4>2. \A e \in Fields \ Done(i) : e # f /\ e \in Fields \ Done(i - 1)
        BY <4>1
      <4>3. \A e \in Fields \ Done(i - 1) : h.row[e] = row0[e]
        BY <2>2
      <4>4. g[i] \in Views
        BY <3>2 DEF Sound
      <4>. HIDE DEF f
      <4>5. \A e \in Fields \ Done(i) : g[i].row[e] = row0[e]
        BY <3>2, <4>2, <4>3
      <4>. QED
        BY <3>4, <4>1, <4>4, <4>5
    <3>. HIDE DEF Fit
    <3>. QED
      BY <2>1, <3>5
  <2>. QED
    BY <2>3, <2>4
<1>10. Fit(n, g[n])
  <2>. HIDE DEF W
  <2>1. g[n] \in W[n]
    BY <1>1, <1>8, <1>9, LoopKeeps
  <2>2. n \in 0 .. n
    BY <1>1
  <2>. HIDE DEF Fit
  <2>. QED
    BY <2>1, <2>2 DEF W
<1>11. HashInv' /\ Hash!Held' = [f \in Fields |-> IF f \in S THEN c[f] ELSE Hash!Held[f]]
  BY <1>2, <1>4, <1>10, FillsHeld
<1>. DEFINE L == {f \in S : Out(f)}
<1>12. ASSUME NEW f \in Fields, Out(f) PROVE Hash!Held[f] = Absent
  <2>1. Hash!Held[f] = IF AliveAt(row0, f) THEN row0[f] ELSE Absent
    BY PreparedHeld DEF row0
  <2>. QED
    BY <1>12, <2>1 DEF AliveAt
<1>13. L \in IF action = "keep" THEN SUBSET (S \ Hash!Hashes!There(S)) ELSE {{}}
  <2>1. Hash!Hashes!There(S) = {f \in S : Hash!Held[f] # Absent}
    BY <1>1, ThereIs
  <2>2. CASE action = "keep"
    <3>1. L \subseteq S \ Hash!Hashes!There(S)
      BY <1>1, <1>12, <2>1
    <3>. QED
      BY <2>2, <3>1
  <2>3. CASE action # "keep"
    <3>1. L = {}
      BY <2>3
    <3>. QED
      BY <2>3, <3>1
  <2>. QED
    BY <2>2, <2>3
<1>14. Hash!Held' = [f \in Fields |-> IF f \in S \ L THEN [val |-> Hash!Hashes!LastOf(ps, f), exp |-> time(f)]
                                      ELSE Hash!Held[f]]
  <2>1. ASSUME NEW f \in Fields
        PROVE  (IF f \in S THEN c[f] ELSE Hash!Held[f])
                 = IF f \in S \ L THEN [val |-> Hash!Hashes!LastOf(ps, f), exp |-> time(f)] ELSE Hash!Held[f]
    <3>1. c[f] = IF Out(f) THEN Absent ELSE [val |-> Hash!Hashes!LastOf(ps, f), exp |-> time(f)]
      BY DEF c, Cell
    <3>2. f \in L <=> f \in S /\ Out(f)
      OBVIOUS
    <3>. HIDE DEF Out, L, time
    <3>. QED
      BY <1>12, <3>1, <3>2
  <2>. HIDE DEF time, L
  <2>. QED
    BY <1>11, <2>1
<1>. QED
  BY <1>11, <1>13, <1>14, Zenon DEF S, Rewrote

\* HSETEX refines HSETEX.
LEMMA HSetExRefines ==
    ASSUME HashContext, HashInv, NEW ps \in HashPairs, NEW cond \in {"none", "nx", "xx"},
           NEW action \in {"discard", "keep", "set"}, NEW at \in 1 .. MaxNow,
           Hash!HSetEx(ps, cond, action, at), now' = now
    PROVE  HashInv' /\ Hash!Hashes!HSetEx(ps, cond, action, at)
<1>1. HashMet(ps, cond) <=> AbstractMet(ps, cond)
  BY MetIs
<1>2. \/ ~HashMet(ps, cond) /\ Hash!Unchanged(FALSE)
      \/ /\ HashMet(ps, cond) /\ action = "set" /\ at <= now
         /\ \/ Len(ps) = 1 /\ Hash!Prepared.row[ps[1].field] = Absent /\ Hash!Unchanged(TRUE)
            \/ Hash!Commit(GoneEach(ps)) /\ ret' = TRUE
      \/ /\ HashMet(ps, cond) /\ ~(action = "set" /\ at <= now)
         /\ Hash!Commit(SetExEach(ps, action, at)) /\ ret' = TRUE
  BY HSetExCases
<1>3. CASE ~HashMet(ps, cond) /\ Hash!Unchanged(FALSE)
  <2>1. HashInv' /\ Hash!Held' = Hash!Held /\ ret' = FALSE
    BY <1>3, UnchangedKeeps DEF Hash!Unchanged
  <2>2. ~AbstractMet(ps, cond)
    BY <1>1, <1>3
  <2>. QED
    BY <2>1, <2>2, Zenon DEF Hash!Hashes!HSetEx, AbstractMet, Hash!Hashes!Keep
<1>4. CASE /\ HashMet(ps, cond) /\ action = "set" /\ at <= now
           /\ \/ Len(ps) = 1 /\ Hash!Prepared.row[ps[1].field] = Absent /\ Hash!Unchanged(TRUE)
              \/ Hash!Commit(GoneEach(ps)) /\ ret' = TRUE
  <2>1. HashInv' /\ Hash!Held' = Hash!Hashes!Without(Hash!Hashes!Written(ps)) /\ ret' = TRUE
    <3>1. CASE Len(ps) = 1 /\ Hash!Prepared.row[ps[1].field] = Absent /\ Hash!Unchanged(TRUE)
      <4>. DEFINE f == ps[1].field
      <4>1. HashInv' /\ Hash!Held' = Hash!Held /\ ret' = TRUE
        BY <3>1, UnchangedKeeps DEF Hash!Unchanged
      <4>2. Hash!Hashes!Written(ps) = {f} /\ f \in Fields
        <5>1. 1 \in 1 .. Len(ps) /\ 1 .. Len(ps) = {1}
          BY <3>1
        <5>. QED
          BY <5>1, PairIs
      <4>3. Hash!Held[f] = Absent
        BY <3>1, <4>2, PreparedHeld
      <4>4. Hash!Held = [e \in Fields |-> Hash!Held[e]]
        BY DEF Hash!Held
      <4>. HIDE DEF f
      <4>5. Hash!Held = Hash!Hashes!Without(Hash!Hashes!Written(ps))
        BY <4>2, <4>3, <4>4 DEF Hash!Hashes!Without
      <4>. QED
        BY <4>1, <4>5
    <3>2. CASE Hash!Commit(GoneEach(ps)) /\ ret' = TRUE
      BY <3>2, GoneDoes
    <3>. QED
      BY <1>4, <3>1, <3>2
  <2>2. AbstractMet(ps, cond) /\ action = "set" /\ at <= now
    BY <1>1, <1>4
  <2>. QED
    BY <2>1, <2>2, Zenon DEF Hash!Hashes!HSetEx, AbstractMet
<1>5. CASE /\ HashMet(ps, cond) /\ ~(action = "set" /\ at <= now)
           /\ Hash!Commit(SetExEach(ps, action, at)) /\ ret' = TRUE
  <2>1. AbstractMet(ps, cond) /\ ~(action = "set" /\ at <= now) /\ ret' = TRUE
    BY <1>1, <1>5
  <2>2. HashInv' /\ Rewrote(ps, action, at)
    BY <1>5, SetExDoes
  <2>. QED
    BY <2>1, <2>2, Zenon DEF Hash!Hashes!HSetEx, AbstractMet, Hash!Hashes!Rewritten, Rewrote
<1>. QED
  BY <1>2, <1>3, <1>4, <1>5

----------------------------------------------------------------------------
(* What holds of hashes.                                                   *)

LEMMA HashInit ==
    ASSUME Hash!HashAssumption, Hash!Init
    PROVE  HashInv /\ Hash!Hashes!Init
<1>1. /\ now = 1 /\ meta = Absent /\ row = Hash!NoRows /\ asked = <<>> /\ ret = 0
      /\ MaxNow \in Nat \ {0}
  BY DEF Hash!Init, Hash!HashAssumption
<1>2. ~Hash!Live /\ Hash!NoRows \in HashRows
  BY <1>1 DEF Hash!Live, Hash!NoRows, HashRows
<1>3. HashInv
  BY <1>1, <1>2 DEF HashInv
<1>4. HashContext
  BY <1>1 DEF HashContext
<1>5. Hash!Held = Hash!NoRows
  BY <1>2, <1>3, <1>4, HeldIs
<1>. QED
  BY <1>1, <1>3, <1>5 DEF Hash!Hashes!Init, Hash!Hashes!None, Hash!NoRows

\* Every command keeps the invariant and is a command of the abstract hash.
LEMMA HashCall ==
    ASSUME HashContext, HashInv, Hash!Call, now' = now
    PROVE  HashInv' /\ Hash!Hashes!Call
<1>0. Hash!Moments = 1 .. MaxNow /\ Hash!Hashes!Moments = 1 .. MaxNow /\ 1 \in 0 .. MaxVal
  BY HashAssumed DEF Hash!Moments, Hash!Hashes!Moments
<1>1. ASSUME NEW ps \in HashPairs, asked' = <<"set", ps>>, Hash!HSet(ps)
      PROVE  HashInv' /\ Hash!Hashes!Call
  <2>1. HashInv' /\ Hash!Hashes!HSet(ps)
    BY <1>1, HSetRefines
  <2>. QED
    BY <1>1, <2>1 DEF Hash!Hashes!Call
<1>2. ASSUME NEW ps \in HashPairs, NEW cond \in {"none", "nx", "xx"},
             NEW action \in {"discard", "keep", "set"}, NEW at \in 1 .. MaxNow,
             asked' = <<"setex", ps, cond, action, at>>, Hash!HSetEx(ps, cond, action, at)
      PROVE  HashInv' /\ Hash!Hashes!Call
  <2>1. HashInv' /\ Hash!Hashes!HSetEx(ps, cond, action, at)
    BY <1>2, HSetExRefines
  <2>. QED
    BY <1>0, <1>2, <2>1 DEF Hash!Hashes!Call
<1>3. ASSUME NEW f \in Fields, asked' = <<"setnx", f>>, Hash!HSetNx(f, 1)
      PROVE  HashInv' /\ Hash!Hashes!Call
  <2>1. HashInv' /\ Hash!Hashes!HSetNx(f, 1)
    BY <1>0, <1>3, HSetNxRefines
  <2>. QED
    BY <1>3, <2>1 DEF Hash!Hashes!Call
<1>4. ASSUME NEW f \in Fields, asked' = <<"incr", f>>, Hash!HIncrBy(f)
      PROVE  HashInv' /\ Hash!Hashes!Call
  <2>1. HashInv' /\ Hash!Hashes!HIncrBy(f)
    BY <1>4, HIncrByRefines
  <2>. QED
    BY <1>4, <2>1 DEF Hash!Hashes!Call
<1>5. ASSUME NEW fs \in Lists, asked' = <<"del", fs>>, Hash!HDel(fs)
      PROVE  HashInv' /\ Hash!Hashes!Call
  <2>1. HashInv' /\ Hash!Hashes!HDel(fs)
    BY <1>5, HDelRefines
  <2>. QED
    BY <1>5, <2>1 DEF Hash!Hashes!Call
<1>6. ASSUME NEW fs \in Lists, asked' = <<"getdel", fs>>, Hash!HGetDel(fs)
      PROVE  HashInv' /\ Hash!Hashes!Call
  <2>1. HashInv' /\ Hash!Hashes!HGetDel(fs)
    BY <1>6, HGetDelRefines
  <2>. QED
    BY <1>6, <2>1 DEF Hash!Hashes!Call
<1>7. ASSUME NEW fs \in Lists, asked' = <<"persist", fs>>, Hash!HPersist(fs)
      PROVE  HashInv' /\ Hash!Hashes!Call
  <2>1. HashInv' /\ Hash!Hashes!HPersist(fs)
    BY <1>7, HPersistRefines
  <2>. QED
    BY <1>7, <2>1 DEF Hash!Hashes!Call
<1>8. ASSUME NEW fs \in Lists, NEW at \in 1 .. MaxNow, NEW cond \in Hash!Conditions,
             asked' = <<"expire", fs, at, cond>>, Hash!HExpire(fs, at, cond)
      PROVE  HashInv' /\ Hash!Hashes!Call
  <2>1. HashInv' /\ Hash!Hashes!HExpire(fs, at, cond)
    BY <1>8, HExpireRefines
  <2>2. cond \in Hash!Hashes!Conditions
    BY DEF Hash!Conditions, Hash!Hashes!Conditions
  <2>. QED
    BY <1>0, <1>8, <2>1, <2>2 DEF Hash!Hashes!Call
<1>9. ASSUME NEW fs \in Lists, NEW at \in 1 .. MaxNow, NEW action \in {"discard", "set", "persist"},
             asked' = <<"getex", fs, action, at>>, Hash!HGetEx(fs, action, at)
      PROVE  HashInv' /\ Hash!Hashes!Call
  <2>1. HashInv' /\ Hash!Hashes!HGetEx(fs, action, at)
    BY <1>9, HGetExRefines
  <2>. QED
    BY <1>0, <1>9, <2>1 DEF Hash!Hashes!Call
<1>10. CASE asked' = <<"len">> /\ Hash!HLen
  <2>1. HashInv' /\ Hash!Hashes!HLen
    BY <1>10, HLenRefines
  <2>. QED
    BY <1>10, <2>1 DEF Hash!Hashes!Call
<1>11. CASE asked' = <<"vanish">> /\ (Hash!Lapse \/ Hash!Erase)
  <2>1. HashInv' /\ Hash!Held' = Hash!Hashes!None /\ ret' = ret
    BY <1>11, VanishRefines
  <2>. QED
    BY <1>11, <2>1 DEF Hash!Hashes!Call
<1>. QED
  BY <1>0, <1>1, <1>2, <1>3, <1>4, <1>5, <1>6, <1>7, <1>8, <1>9, <1>10, <1>11, Zenon DEF Hash!Call

\* Every step keeps the invariant and is a step of the abstract hash.
LEMMA HashStep ==
    ASSUME Hash!HashAssumption, HashInv, [Hash!Next]_(Hash!vars)
    PROVE  HashInv' /\ [Hash!Hashes!HashNext]_(Hash!Hashes!vars)
<1>1. HashContext
  BY DEF HashContext, HashInv
<1>2. CASE Hash!Call /\ UNCHANGED now
  BY <1>1, <1>2, HashCall DEF Hash!Hashes!HashNext
<1>3. CASE Hash!Tick
  BY <1>1, <1>3, HashTickRefines DEF Hash!Hashes!HashNext
<1>4. CASE UNCHANGED Hash!vars
  <2>1. UNCHANGED <<meta, row>> /\ now' = now /\ asked' = asked /\ ret' = ret
    BY <1>4 DEF Hash!vars
  <2>2. HashInv' /\ Hash!Held' = Hash!Held
    BY <1>1, <2>1, UnchangedKeeps
  <2>. QED
    BY <2>1, <2>2 DEF Hash!Hashes!vars
<1>. QED
  BY <1>2, <1>3, <1>4 DEF Hash!Next

LEMMA HashTyped == Hash!HashAssumption /\ HashInv => Hash!TypeOK
<1>. SUFFICES ASSUME Hash!HashAssumption, HashInv PROVE Hash!TypeOK
  OBVIOUS
<1>1. HashContext
  BY DEF HashContext, HashInv
<1>. QED
  BY <1>1, CellIs DEF HashInv, Hash!TypeOK

LEMMA HashBounded == HashInv => Hash!BoundsExact
BY HashCardinality DEF HashInv, CountsOf, Bounding, Rowed, Lasting, Hash!BoundsExact

\* A reader that stops at the bounds does so only when nothing is there.
LEMMA HashRead == Hash!HashAssumption /\ HashInv => Hash!ReadsExact
<1>. SUFFICES ASSUME Hash!HashAssumption, HashInv, NEW f \in Fields PROVE Hash!Seen(f) = Hash!Held[f]
  BY DEF Hash!ReadsExact
<1>1. HashContext
  BY DEF HashContext, HashInv
<1>2. Hash!Held[f] = IF Hash!Live /\ Hash!LiveRow(f) THEN row[f] ELSE Absent
  BY DEF Hash!Held
<1>3. Hash!Live /\ Hash!AllGone => ~Hash!LiveRow(f)
  BY <1>1, AllGoneIs
<1>. QED
  BY <1>2, <1>3 DEF Hash!Seen, Hash!Readable

(* The clock, the record with its counts and bounds, and the rows of the   *)
(* fields have their types.                                                *)
THEOREM HashTypeCorrect ==
    ASSUME Hash!HashAssumption
    PROVE  Hash!Spec => []Hash!TypeOK
<1>1. Hash!Init => HashInv
  BY HashInit
<1>2. HashInv /\ [Hash!Next]_(Hash!vars) => HashInv'
  BY HashStep
<1>3. HashInv => Hash!TypeOK
  BY HashTyped
<1>. QED
  BY <1>1, <1>2, <1>3, PTL DEF Hash!Spec

(* After any commands, and as time passes between them, the bounds in the  *)
(* record of a live hash hold the expiry of every row, it counts no fewer  *)
(* rows than there are and just those that never expire (the transitions   *)
(* of HashMeta, what hset, hsetex, hexpire, hpersist, hgetex, hdel, hgetdel *)
(* and hincrby write, and what scan_and_repair_hash puts right).           *)
THEOREM HashBoundsExact ==
    ASSUME Hash!HashAssumption
    PROVE  Hash!Spec => []Hash!BoundsExact
<1>1. Hash!Init => HashInv
  BY HashInit
<1>2. HashInv /\ [Hash!Next]_(Hash!vars) => HashInv'
  BY HashStep
<1>3. HashInv => Hash!BoundsExact
  BY HashBounded
<1>. QED
  BY <1>1, <1>2, <1>3, PTL DEF Hash!Spec

(* A reader that takes "everything ran out" from the bounds, without a     *)
(* look at the rows, misses no field that is there (get_live_hfe_meta).    *)
THEOREM HashReadsExact ==
    ASSUME Hash!HashAssumption
    PROVE  Hash!Spec => []Hash!ReadsExact
<1>1. Hash!Init => HashInv
  BY HashInit
<1>2. HashInv /\ [Hash!Next]_(Hash!vars) => HashInv'
  BY HashStep
<1>3. HashInv => Hash!ReadsExact
  BY HashRead
<1>. QED
  BY <1>1, <1>2, <1>3, PTL DEF Hash!Spec

(* The store, whose rows outlive their fields and whose record is put      *)
(* right only by the commands that meet them, implements hashes with       *)
(* expiring fields under every command, every condition and every list of  *)
(* fields, named once or again, with the answer of each: HLEN is right     *)
(* even where it answers from the record (embed/src/api/hash).             *)
THEOREM HashStoreImplementsRedisHashes ==
    ASSUME Hash!HashAssumption
    PROVE  Hash!Spec => Hash!ImplementsRedisHashes
<1>1. Hash!Init => HashInv /\ Hash!Hashes!Init
  BY HashInit
<1>2. HashInv /\ [Hash!Next]_(Hash!vars) => HashInv' /\ [Hash!Hashes!HashNext]_(Hash!Hashes!vars)
  BY HashStep
<1>. QED
  BY <1>1, <1>2, PTL DEF Hash!Spec, Hash!ImplementsRedisHashes
=============================================================================
