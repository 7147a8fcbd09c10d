----------------------------- MODULE ListProofs -----------------------------
(***************************************************************************)
(* The proof that ListStore implements RedisLists and that its items are   *)
(* those of their windows, for any number of indexes and any longest list  *)
(* shorter than that.                                                      *)
(***************************************************************************)
EXTENDS ListStore, Ranks, SequenceTheorems

----------------------------------------------------------------------------
(* Indexes.                                                                *)

\* The remainder of a number at most one turn away.
LEMMA ModIs ==
    ASSUME NEW w \in Nat, w > 0, NEW q \in {-1, 0, 1}, NEW r \in 0 .. (w - 1), NEW a \in Int, a = q * w + r
    PROVE  a % w = r
OBVIOUS

\* An index plus an offset of at most a turn: past either end it wraps once.
LEMMA AddIs ==
    ASSUME ListAssumption, NEW i \in Index, NEW n \in (-Width) .. Width
    PROVE  /\ Add(i, n) \in Index
           /\ i + n < 0 => Add(i, n) = i + n + Width
           /\ i + n >= Width => Add(i, n) = i + n - Width
           /\ i + n \in Index => Add(i, n) = i + n
BY ModIs DEF Add, Index, ListAssumption

\* The offset 0 stays in place.
LEMMA AddZero ==
    ASSUME ListAssumption, NEW i \in Index
    PROVE  Add(i, 0) = i
BY AddIs DEF Index, ListAssumption

\* Two offsets taken one after the other are their sum.
LEMMA AddAdd ==
    ASSUME ListAssumption, NEW i \in Index,
           NEW a \in (-Width) .. Width, NEW b \in (-Width) .. Width, a + b \in (-Width) .. Width
    PROVE  Add(Add(i, a), b) = Add(i, a + b)
<1>. Width \in Nat /\ Width > 0
  BY DEF ListAssumption
<1>1. i \in Int /\ a \in Int /\ b \in Int /\ Add(i, a) \in Index
  BY AddIs DEF Index
<1>2. \/ Add(i, a) = i + a \/ Add(i, a) = i + a + Width \/ Add(i, a) = i + a - Width
  BY <1>1, AddIs DEF Index
<1>3. LET j == Add(i, a)
      IN  \/ Add(j, b) = j + b \/ Add(j, b) = j + b + Width \/ Add(j, b) = j + b - Width
  BY <1>1, AddIs DEF Index
<1>4. LET j == a + b
      IN \/ Add(i, j) = i + j \/ Add(i, j) = i + j + Width \/ Add(i, j) = i + j - Width
  BY <1>1, AddIs DEF Index
<1>5. Add(Add(i, a), b) \in Index /\ Add(i, a + b) \in Index
  BY <1>1, AddIs
<1>. QED
  BY <1>1, <1>2, <1>3, <1>4, <1>5 DEF Index

\* The offset of index i from h: what Add(h, _) takes to i.
Off(h, i) == Add(i, -h)

\* Every index has one offset from head.
LEMMA OffIs ==
    ASSUME ListAssumption, NEW h \in Index, NEW i \in Index
    PROVE  /\ Off(h, i) \in Index
           /\ Add(h, Off(h, i)) = i
           /\ \A o \in Index : Add(h, o) = i <=> Off(h, i) = o
<1>. Width \in Nat /\ Width > 0 /\ h \in Int /\ i \in Int /\ -h \in (-Width) .. Width
  BY DEF ListAssumption, Index
<1>1. Off(h, i) \in Index /\ (i - h < 0 => Off(h, i) = i - h + Width)
                          /\ (i - h >= 0 => Off(h, i) = i - h)
  BY AddIs DEF Off, Index
<1>2. \A o \in Index : /\ Add(h, o) \in Index
                       /\ h + o >= Width => Add(h, o) = h + o - Width
                       /\ h + o < Width => Add(h, o) = h + o
  BY AddIs DEF Index
<1>. QED
  BY <1>1, <1>2 DEF Index

\* Seen from a head that has moved by n, an offset is less by n.
LEMMA OffMoved ==
    ASSUME ListAssumption, NEW h \in Index, NEW i \in Index, NEW n \in (-Width) .. Width
    PROVE  /\ Add(h, n) \in Index
           /\ Off(Add(h, n), i) = Add(Off(h, i), -n)
<1>. Width \in Nat /\ Width > 0 /\ h \in Int /\ i \in Int /\ n \in Int /\ -n \in (-Width) .. Width
  BY DEF ListAssumption, Index
<1>1. Add(h, n) \in Index /\ \/ Add(h, n) = h + n \/ Add(h, n) = h + n + Width \/ Add(h, n) = h + n - Width
  BY AddIs DEF Index
<1>2. \A g \in Index : /\ Off(g, i) \in Index
                       /\ Off(g, i) = i - g \/ Off(g, i) = i - g + Width
  BY AddIs DEF Off, Index
<1>3. LET x == Off(h, i)
      IN  /\ Add(x, -n) \in Index
          /\ Add(x, -n) = x - n \/ Add(x, -n) = x - n + Width \/ Add(x, -n) = x - n - Width
  BY <1>2, AddIs DEF Index
<1>. QED
  BY <1>1, <1>2, <1>3 DEF Index

----------------------------------------------------------------------------
(* A record and items that hold a sequence.                                *)

\* The items of a list whose window begins at head and holds s.
Laid(head, s) ==
    [i \in Index |-> IF Off(head, i) < Len(s) THEN s[Off(head, i) + 1] ELSE Absent]

Holds(m, items, s) ==
    /\ m \in Metas
    /\ s \in Seq(Values)
    /\ Len(s) = m.size
    /\ m.tail = Add(m.head, m.size)
    /\ items = Laid(m.head, s)

\* What Holds says of the record and of the elements.
LEMMA HoldsSize ==
    ASSUME ListAssumption, NEW m, NEW items, NEW s, Holds(m, items, s)
    PROVE  /\ m.head \in Index /\ m.tail \in Index /\ m.size \in 0 .. MaxLen
           /\ MaxLen \in Nat /\ MaxLen < Width /\ Width \in Nat
           /\ Len(s) = m.size /\ \A p \in 1 .. m.size : s[p] \in Values /\ s[p] # Absent
<1>1. m.head \in Index /\ m.tail \in Index /\ m.size \in 0 .. MaxLen
  BY DEF Holds, Metas
<1>2. \A p \in 1 .. Len(s) : s[p] \in Values
  BY ElementOfSeq DEF Holds
<1>. QED
  BY <1>1, <1>2 DEF Holds, ListAssumption

\* The item at an offset is the element there.
LEMMA HoldsAt ==
    ASSUME ListAssumption, NEW m, NEW items, NEW s, Holds(m, items, s), NEW o \in Index
    PROVE  /\ Add(m.head, o) \in Index
           /\ o < m.size => items[Add(m.head, o)] = s[o + 1]
           /\ ~(o < m.size) => items[Add(m.head, o)] = Absent
<1>1. o \in (-Width) .. Width /\ m.head \in Index
  BY HoldsSize DEF Index
<1>2. Add(m.head, o) \in Index
  BY <1>1, AddIs
<1>3. Off(m.head, Add(m.head, o)) = o
  BY <1>1, <1>2, OffIs
<1>. QED
  BY <1>1, <1>2, <1>3, HoldsSize DEF Holds, Laid

\* A list of size 0 has no items.
LEMMA HoldsNothing ==
    ASSUME ListAssumption, NEW m, NEW items, NEW s, Holds(m, items, s), m.size = 0
    PROVE  items = NoItems /\ s = <<>>
<1>1. s \in Seq(Values) /\ Len(s) = 0 /\ items = Laid(m.head, s)
  BY DEF Holds
<1>2. s = <<>>
  BY <1>1, EmptySeq
<1>3. \A i \in Index : Off(m.head, i) \in Index
  BY OffIs, HoldsSize
<1>. QED
  BY <1>1, <1>2, <1>3 DEF Laid, NoItems, Index

\* A new list stands for the empty sequence.
LEMMA FreshHolds ==
    ASSUME ListAssumption
    PROVE  Holds(Fresh, NoItems, <<>>)
<1>1. Initial \in Index /\ Width \in Nat /\ MaxLen \in Nat
  BY DEF Initial, Index, ListAssumption
<1>2. Fresh \in Metas
  BY <1>1 DEF Fresh, Metas
<1>3. Fresh.tail = Add(Fresh.head, 0)
  BY <1>1, AddZero DEF Fresh
<1>4. \A i \in Index : Off(Initial, i) \in Index
  BY <1>1, OffIs
<1>. QED
  BY <1>1, <1>2, <1>3, <1>4, EmptySeq DEF Holds, Laid, Fresh, NoItems, Index


----------------------------------------------------------------------------
(* Pushing.                                                                *)

\* The elements of a reversed sequence.
LEMMA ReverseIs ==
    ASSUME NEW S, NEW s \in Seq(S)
    PROVE  /\ Reverse(s) \in Seq(S) /\ Len(Reverse(s)) = Len(s)
           /\ \A i \in 1 .. Len(s) : Reverse(s)[i] = s[Len(s) - i + 1]
BY DEF Reverse

\* Pushed to the left, the elements end up in front, the last one first.
LEMMA PushedLeft ==
    ASSUME ListAssumption, NEW b, NEW s, Holds(b.m, b.items, s), NEW vs \in Seq(Values),
           Len(s) + Len(vs) <= MaxLen
    PROVE  LET p == Pushed(b, vs, TRUE) IN Holds(p.m, p.items, Reverse(vs) \o s)
<1>. DEFINE n == Len(vs)
            h == b.m.head
            p == Pushed(b, vs, TRUE)
            t == Reverse(vs) \o s
            at(j) == Add(h, -j)
<1>1. /\ n \in Nat /\ h \in Index /\ b.m.size \in 0 .. MaxLen /\ MaxLen \in Nat /\ Width \in Nat /\ MaxLen < Width
      /\ b.m.size + n <= MaxLen /\ -n \in (-Width) .. Width /\ Len(s) = b.m.size
  BY HoldsSize
<1>2. p = [m |-> [b.m EXCEPT !.head = Add(@, -n), !.tail = @, !.size = @ + n],
           items |-> [i \in Index |-> IF \E j \in 1 .. n : i = at(j) THEN vs[CHOOSE j \in 1 .. n : i = at(j)]
                                      ELSE b.items[i]]]
  BY DEF Pushed
<1>. HIDE DEF n, h, at, p, t
<1>3. p.m \in Metas /\ p.m.head = Add(h, -n) /\ p.m.tail = b.m.tail /\ p.m.size = b.m.size + n
  <2>1. b.m \in Metas
    BY DEF Holds
  <2>2. Add(h, -n) \in Index
    BY <1>1, AddIs
  <2>3. b.m.size + n \in 0 .. MaxLen
    BY <1>1
  <2>4. p.m = [b.m EXCEPT !.head = Add(@, -n), !.tail = @, !.size = @ + n]
    BY <1>2
  <2>. QED
    BY <2>1, <2>2, <2>3, <2>4 DEF Metas, h
<1>4. p.m.tail = Add(p.m.head, p.m.size)
  <2>1. Add(Add(h, -n), b.m.size + n) = Add(h, b.m.size)
    <3>1. b.m.size + n \in (-Width) .. Width /\ (-n) + (b.m.size + n) = b.m.size
          /\ b.m.size \in (-Width) .. Width
      BY SMTT(30), <1>1
    <3>2. -n \in (-Width) .. Width /\ h \in Index
      BY <1>1
    <3>3. \A c, d \in (-Width) .. Width : c + d \in (-Width) .. Width => Add(Add(h, c), d) = Add(h, c + d)
      BY <3>2, AddAdd, <1>1
    <3>. QED
      BY <3>1, <3>2, <3>3
  <2>. QED
    BY <1>3, <2>1 DEF Holds, h
<1>5. /\ t \in Seq(Values) /\ Len(t) = n + b.m.size
      /\ \A x \in 1 .. (n + b.m.size) : t[x] = IF x <= n THEN vs[n - x + 1] ELSE s[x - n]
  <2>1. Reverse(vs) \in Seq(Values) /\ Len(Reverse(vs)) = n
        /\ \A i \in 1 .. n : Reverse(vs)[i] = vs[n - i + 1]
    BY ReverseIs DEF n
  <2>2. s \in Seq(Values)
    BY DEF Holds
  <2>. QED
    <3>1. t \in Seq(Values) /\ Len(t) = Len(Reverse(vs)) + Len(s)
          /\ \A i \in 1 .. Len(Reverse(vs)) + Len(s) :
                t[i] = IF i <= Len(Reverse(vs)) THEN Reverse(vs)[i] ELSE s[i - Len(Reverse(vs))]
      BY <2>1, <2>2, ConcatProperties DEF t
    <3>. QED
      BY <1>1, <2>1, <3>1
<1>6. ASSUME NEW i \in Index
      PROVE  p.items[i] = IF Off(p.m.head, i) < Len(t) THEN t[Off(p.m.head, i) + 1] ELSE Absent
  <2>. DEFINE x == Off(h, i)
              y == Off(Add(h, -n), i)
  <2>1. x \in Index /\ y \in Index /\ Add(h, -n) \in Index
    BY <1>1, OffIs, AddIs
  <2>2. y = IF x + n >= Width THEN x + n - Width ELSE x + n
    <3>1. y = Add(x, -(-n)) /\ -(-n) = n
      BY <1>1, OffMoved
    <3>2. n \in (-Width) .. Width /\ y = Add(x, n)
      BY <1>1, <3>1
    <3>3. x \in Nat /\ x < Width
      BY <1>1, <2>1 DEF Index
    <3>. HIDE DEF x, y
    <3>4. CASE x + n >= Width
      BY <1>1, <2>1, <3>2, <3>4, AddIs
    <3>5. CASE x + n < Width
      <4>1. x + n \in Index
        BY <1>1, <3>3, <3>5 DEF Index
      <4>. QED
        BY <1>1, <2>1, <3>2, <3>3, <3>5, <4>1, AddIs
    <3>. QED
      BY <1>1, <3>3, <3>4, <3>5
  <2>3. \A j \in 1 .. n : i = at(j) <=> j = n - y
    <3>. SUFFICES ASSUME NEW j \in 1 .. n
                  PROVE  i = at(j) <=> j = n - y
      OBVIOUS
    <3>1. at(j) = Add(Add(h, -n), n - j)
      <4>1. n - j \in (-Width) .. Width /\ (-n) + (n - j) = -j /\ -j \in (-Width) .. Width
        BY <1>1
      <4>. QED
        BY <1>1, <4>1, AddAdd DEF at
    <3>2. n - j \in Index
      BY <1>1 DEF Index
    <3>. HIDE DEF at
    <3>3. Add(Add(h, -n), n - j) = i <=> y = n - j
      BY <2>1, <3>2, OffIs
    <3>4. y \in Int /\ n \in Int /\ j \in Int
      BY <1>1, <2>1 DEF Index
    <3>. HIDE DEF y
    <3>. QED
      BY <3>1, <3>3, <3>4
  <2>4. p.items[i] = IF \E j \in 1 .. n : i = at(j) THEN vs[CHOOSE j \in 1 .. n : i = at(j)] ELSE b.items[i]
    BY <1>2
  <2>. HIDE DEF at, x, y, t, p
  <2>5. CASE y < n
    <3>1. n - y \in 1 .. n
      BY <1>1, <2>1, <2>5 DEF Index
    <3>2. i = at(n - y) /\ \A j \in 1 .. n : i = at(j) => j = n - y
      BY <2>3, <3>1
    <3>3. (CHOOSE j \in 1 .. n : i = at(j)) = n - y
      BY <3>1, <3>2
    <3>4. p.items[i] = vs[n - y]
      BY <2>4, <3>1, <3>2, <3>3
    <3>5. t[y + 1] = vs[n - y] /\ y < Len(t)
      <4>1. y \in Nat /\ y + 1 \in 1 .. (n + b.m.size) /\ y + 1 <= n /\ n - (y + 1) + 1 = n - y
        BY <1>1, <2>1, <2>5 DEF Index
      <4>2. t[y + 1] = vs[n - y]
        BY <1>5, <4>1
      <4>3. y < Len(t)
        BY <1>1, <1>5, <4>1, <2>5
      <4>. QED
        BY <4>2, <4>3
    <3>. QED
      BY <1>3, <3>4, <3>5 DEF y
  <2>6. CASE ~(y < n)
    <3>1. y = x + n /\ y >= n
      BY <1>1, <2>1, <2>2, <2>6 DEF Index
    <3>2. p.items[i] = b.items[i]
      BY <1>1, <2>1, <2>3, <2>4, <2>6 DEF Index
    <3>3. b.items[i] = IF x < b.m.size THEN s[x + 1] ELSE Absent
      BY <1>1 DEF Holds, Laid, x, h
    <3>4. x < b.m.size <=> y < Len(t)
      BY SMTT(30), <1>1, <1>5, <2>1, <3>1 DEF Index
    <3>5. x < b.m.size => t[y + 1] = s[x + 1]
      <4>. SUFFICES ASSUME x < b.m.size PROVE t[y + 1] = s[x + 1]
        OBVIOUS
      <4>1. y + 1 \in 1 .. (n + b.m.size) /\ ~(y + 1 <= n) /\ (y + 1) - n = x + 1
        BY <1>1, <2>1, <3>1 DEF Index
      <4>. QED
        BY <1>5, <4>1
    <3>. QED
      BY <1>3, <3>2, <3>3, <3>4, <3>5 DEF y
  <2>. QED
    BY <2>5, <2>6
<1>7. p.items = [i \in Index |-> p.items[i]]
  BY <1>2
<1>8. p.items = Laid(p.m.head, t)
  BY <1>6, <1>7 DEF Laid
<1>9. Holds(p.m, p.items, t)
  BY <1>1, <1>3, <1>4, <1>5, <1>8 DEF Holds
<1>. QED
  BY <1>9 DEF p, t

\* Pushed to the right, they follow in their order.
LEMMA PushedRight ==
    ASSUME ListAssumption, NEW b, NEW s, Holds(b.m, b.items, s), NEW vs \in Seq(Values),
           Len(s) + Len(vs) <= MaxLen
    PROVE  LET p == Pushed(b, vs, FALSE) IN Holds(p.m, p.items, s \o vs)
<1>. DEFINE n == Len(vs)
            h == b.m.head
            z == b.m.size
            p == Pushed(b, vs, FALSE)
            t == s \o vs
            at(j) == Add(b.m.tail, j - 1)
<1>1. /\ n \in Nat /\ h \in Index /\ z \in 0 .. MaxLen /\ MaxLen \in Nat /\ Width \in Nat /\ MaxLen < Width
      /\ z + n <= MaxLen /\ n \in (-Width) .. Width /\ z \in (-Width) .. Width /\ Len(s) = z
      /\ b.m.tail = Add(h, z) /\ b.m \in Metas
  BY HoldsSize DEF Holds
<1>2. p = [m |-> [b.m EXCEPT !.head = @, !.tail = Add(@, n), !.size = @ + n],
           items |-> [i \in Index |-> IF \E j \in 1 .. n : i = at(j) THEN vs[CHOOSE j \in 1 .. n : i = at(j)]
                                      ELSE b.items[i]]]
  BY DEF Pushed
<1>. HIDE DEF n, h, z, at, p, t
<1>a. \A j \in 0 .. n : Add(b.m.tail, j) = Add(h, z + j) /\ Add(h, z + j) \in Index
  <2>. SUFFICES ASSUME NEW j \in 0 .. n PROVE Add(b.m.tail, j) = Add(h, z + j) /\ Add(h, z + j) \in Index
    OBVIOUS
  <2>1. j \in (-Width) .. Width /\ z + j \in (-Width) .. Width
    BY <1>1
  <2>. QED
    BY <1>1, <2>1, AddAdd, AddIs
<1>3. p.m \in Metas /\ p.m.head = h /\ p.m.tail = Add(b.m.tail, n) /\ p.m.size = z + n
  <2>1. Add(b.m.tail, n) \in Index
    BY <1>1, <1>a
  <2>2. z + n \in 0 .. MaxLen
    BY <1>1
  <2>3. p.m = [b.m EXCEPT !.head = @, !.tail = Add(@, n), !.size = @ + n]
    BY <1>2
  <2>. QED
    BY <1>1, <2>1, <2>2, <2>3 DEF Metas, h, z
<1>4. p.m.tail = Add(p.m.head, p.m.size)
  BY <1>1, <1>a, <1>3
<1>5. /\ t \in Seq(Values) /\ Len(t) = z + n
      /\ \A x \in 1 .. (z + n) : t[x] = IF x <= z THEN s[x] ELSE vs[x - z]
  <2>1. s \in Seq(Values)
    BY DEF Holds
  <2>. QED
    BY <1>1, <2>1, ConcatProperties DEF t, n
<1>6. ASSUME NEW i \in Index
      PROVE  p.items[i] = IF Off(p.m.head, i) < Len(t) THEN t[Off(p.m.head, i) + 1] ELSE Absent
  <2>. DEFINE x == Off(h, i)
  <2>1. x \in Index /\ x \in Nat /\ i = Add(h, x)
    <3>1. x \in Index /\ i = Add(h, x)
      BY <1>1, OffIs
    <3>. QED
      BY <1>1, <3>1 DEF Index
  <2>. HIDE DEF x
  <2>3. \A j \in 1 .. n : i = at(j) <=> j = x - z + 1
    <3>. SUFFICES ASSUME NEW j \in 1 .. n
                  PROVE  i = at(j) <=> j = x - z + 1
      OBVIOUS
    <3>1. j - 1 \in 0 .. n /\ z + (j - 1) \in Index
      BY <1>1 DEF Index
    <3>2. at(j) = Add(h, z + (j - 1))
      BY <1>a, <3>1 DEF at
    <3>3. Add(h, z + (j - 1)) = i <=> x = z + (j - 1)
      BY <1>1, <3>1, OffIs DEF x
    <3>4. x \in Int /\ z \in Int /\ j \in Int
      BY <1>1, <2>1
    <3>. QED
      BY <3>2, <3>3, <3>4
  <2>4. p.items[i] = IF \E j \in 1 .. n : i = at(j) THEN vs[CHOOSE j \in 1 .. n : i = at(j)] ELSE b.items[i]
    BY <1>2
  <2>5. b.items[i] = IF x < z THEN s[x + 1] ELSE Absent
    BY <1>1 DEF Holds, Laid, x, h
  <2>6. CASE x < z
    <3>1. p.items[i] = s[x + 1]
      BY <1>1, <2>1, <2>3, <2>4, <2>5, <2>6
    <3>2. t[x + 1] = s[x + 1] /\ x < Len(t)
      BY <1>1, <1>5, <2>1, <2>6
    <3>. QED
      BY <1>3, <3>1, <3>2 DEF x
  <2>7. CASE x >= z /\ x < z + n
    <3>1. x - z + 1 \in 1 .. n
      BY <1>1, <2>1, <2>7
    <3>2. (CHOOSE j \in 1 .. n : i = at(j)) = x - z + 1
      BY <2>3, <3>1
    <3>3. p.items[i] = vs[x - z + 1]
      BY <2>3, <2>4, <3>1, <3>2
    <3>4. x + 1 \in 1 .. (z + n) /\ ~(x + 1 <= z) /\ (x + 1) - z = x - z + 1
      BY <1>1, <2>1, <2>7
    <3>5. t[x + 1] = vs[x - z + 1] /\ x < Len(t)
      BY <1>5, <2>7, <3>4
    <3>. QED
      BY <1>3, <3>3, <3>5 DEF x
  <2>8. CASE x >= z + n
    <3>1. p.items[i] = Absent /\ ~(x < Len(t))
      BY <1>1, <1>5, <2>1, <2>3, <2>4, <2>5, <2>8
    <3>. QED
      BY <1>3, <3>1 DEF x
  <2>. QED
    BY <1>1, <2>1, <2>6, <2>7, <2>8
<1>7. p.items = [i \in Index |-> p.items[i]]
  BY <1>2
<1>8. p.items = Laid(p.m.head, t)
  BY <1>6, <1>7 DEF Laid
<1>9. Holds(p.m, p.items, t)
  BY <1>1, <1>3, <1>4, <1>5, <1>8 DEF Holds
<1>. QED
  BY <1>9 DEF p, t

----------------------------------------------------------------------------
(* Finite sets of numbers in their order.                                  *)

\* The numbers of an interval in their order.
LEMMA AscendingInterval ==
    ASSUME NEW a \in Int, NEW b \in Int, a <= b + 1
    PROVE  Ascending(a .. b) = [n \in 1 .. (b - a + 1) |-> a + n - 1]
<1>1. \A x, y \in Int : Cardinality(x .. y) = IF x > y THEN 0 ELSE y - x + 1
  BY FS_Interval
<1>2. Cardinality(a .. b) = b - a + 1
  BY <1>1
<1>3. ASSUME NEW n \in 1 .. (b - a + 1)
      PROVE  (CHOOSE x \in a .. b : Cardinality({y \in a .. b : y < x}) = n - 1) = a + n - 1
  <2>1. ASSUME NEW x \in a .. b PROVE Cardinality({y \in a .. b : y < x}) = x - a
    <3>1. {y \in a .. b : y < x} = a .. (x - 1)
      OBVIOUS
    <3>2. x - 1 \in Int /\ x \in Int /\ x >= a
      OBVIOUS
    <3>3. Cardinality(a .. (x - 1)) = IF a > x - 1 THEN 0 ELSE (x - 1) - a + 1
      BY <1>1, <3>2
    <3>4. Cardinality(a .. (x - 1)) = x - a
      BY <3>2, <3>3
    <3>. QED
      BY <3>1, <3>4
  <2>2. \A x \in a .. b : Cardinality({y \in a .. b : y < x}) = n - 1 <=> x = a + n - 1
    BY <2>1
  <2>3. a + n - 1 \in a .. b
    OBVIOUS
  <2>. QED
    BY <2>2, <2>3
<1>. QED
  BY <1>2, <1>3 DEF Ascending

\* When nothing is missing, everything in the interval is found in its order.
LEMMA FoundAll ==
    ASSUME NEW a \in Int, NEW b \in Int, a <= b + 1, NEW f, f = [x \in a .. b |-> f[x]],
           \A x \in a .. b : f[x] # Absent
    PROVE  Found(f) = [n \in 1 .. (b - a + 1) |-> f[a + n - 1]]
<1>. DEFINE S == {x \in DOMAIN f : f[x] # Absent}
<1>1. S = a .. b
  OBVIOUS
<1>2. Ascending(S) = [n \in 1 .. (b - a + 1) |-> a + n - 1]
  BY <1>1, AscendingInterval
<1>3. Len([n \in 1 .. (b - a + 1) |-> a + n - 1]) = b - a + 1
  OBVIOUS
<1>4. Found(f) = [n \in 1 .. Len(Ascending(S)) |-> f[Ascending(S)[n]]]
  BY DEF Found
<1>. HIDE DEF S
<1>. QED
  BY <1>2, <1>3, <1>4

\* A sequence with nothing missing is found as it is.
LEMMA FoundFirst ==
    ASSUME NEW n \in Nat, NEW f, f = [x \in 1 .. n |-> f[x]], \A x \in 1 .. n : f[x] # Absent
    PROVE  Found(f) = f
<1>. DEFINE S == {x \in DOMAIN f : f[x] # Absent}
<1>1. S = 1 .. n
  OBVIOUS
<1>2. Ascending(1 .. n) = [m \in 1 .. (n - 1 + 1) |-> 1 + m - 1]
  <2>1. 1 \in Int /\ n \in Int /\ 1 <= n + 1
    OBVIOUS
  <2>. QED
    BY <2>1, AscendingInterval, Zenon
<1>3. [m \in 1 .. (n - 1 + 1) |-> 1 + m - 1] = [m \in 1 .. n |-> m]
  OBVIOUS
<1>4. Len([m \in 1 .. n |-> m]) = n
  OBVIOUS
<1>5. Found(f) = [m \in 1 .. Len(Ascending(S)) |-> f[Ascending(S)[m]]]
  BY DEF Found
<1>. HIDE DEF S
<1>6. Ascending(S) = [m \in 1 .. n |-> m]
  BY <1>1, <1>2, <1>3
<1>. QED
  BY <1>4, <1>5, <1>6

\* A stretch of a sequence.
LEMMA Stretch ==
    ASSUME NEW S, NEW s \in Seq(S), NEW a \in 1 .. (Len(s) + 1), NEW b \in 0 .. Len(s), a <= b + 1
    PROVE  /\ SubSeq(s, a, b) \in Seq(S)
           /\ Len(SubSeq(s, a, b)) = b - a + 1
           /\ \A j \in 1 .. (b - a + 1) : SubSeq(s, a, b)[j] = s[a + j - 1]
<1>1. Len(s) \in Nat /\ a \in Int /\ b \in Int
  BY LenProperties
<1>2. \A i \in a .. b : s[i] \in S
  BY <1>1, ElementOfSeq
<1>3. SubSeq(s, a, b) \in Seq(S) /\ Len(SubSeq(s, a, b)) = (IF a <= b THEN b - a + 1 ELSE 0)
      /\ \A i \in 1 .. b - a + 1 : SubSeq(s, a, b)[i] = s[a + i - 1]
  BY <1>1, <1>2, SubSeqProperties
<1>. QED
  BY <1>1, <1>3

----------------------------------------------------------------------------
(* Popping.                                                                *)

\* The items at k after n pops.
Without(k, n, left) ==
    [i \in Index |-> IF i \in {At(k, PopOffset(k, j, left)) : j \in 1 .. n} THEN Absent ELSE item[k][i]]

\* After pops from the left the rest of the sequence is held.
LEMMA PoppedLeft ==
    ASSUME ListAssumption, NEW k, NEW s, Holds(meta[k], item[k], s), NEW n \in 0 .. Len(s)
    PROVE  Holds(Popped(meta[k], n, TRUE), Without(k, n, TRUE), SubSeq(s, n + 1, Len(s)))
<1>. DEFINE h == meta[k].head
            z == meta[k].size
            p == Popped(meta[k], n, TRUE)
            items == Without(k, n, TRUE)
            t == SubSeq(s, n + 1, Len(s))
<1>1. /\ n \in Nat /\ n <= z /\ h \in Index /\ z \in 0 .. MaxLen /\ MaxLen \in Nat /\ Width \in Nat /\ MaxLen < Width
      /\ n \in (-Width) .. Width /\ -n \in (-Width) .. Width /\ z \in (-Width) .. Width /\ Len(s) = z
      /\ meta[k].tail = Add(h, z) /\ meta[k] \in Metas
  BY HoldsSize DEF Holds
<1>2. p = [meta[k] EXCEPT !.head = Add(@, n), !.size = @ - n]
  BY DEF Popped
<1>3. items = [i \in Index |-> IF \E j \in 1 .. n : i = Add(h, j - 1) THEN Absent ELSE item[k][i]]
  BY DEF Without, At, PopOffset
<1>. HIDE DEF h, z, p, items, t
<1>4. p \in Metas /\ p.head = Add(h, n) /\ p.tail = Add(h, z) /\ p.size = z - n
  <2>1. Add(h, n) \in Index
    BY <1>1, AddIs
  <2>2. z - n \in 0 .. MaxLen
    BY <1>1
  <2>. QED
    BY <1>1, <1>2, <2>1, <2>2 DEF Metas, h, z
<1>5. p.tail = Add(p.head, p.size)
  <2>1. z - n \in (-Width) .. Width /\ n + (z - n) = z
    BY <1>1
  <2>. QED
    BY <1>1, <1>4, <2>1, AddAdd
<1>6. t \in Seq(Values) /\ Len(t) = z - n /\ \A x \in 1 .. (z - n) : t[x] = s[n + x]
  <2>1. \A x \in (n + 1) .. z : s[x] \in Values
    BY <1>1, HoldsSize DEF z
  <2>2. t \in Seq(Values) /\ Len(t) = (IF n + 1 <= z THEN z - (n + 1) + 1 ELSE 0)
        /\ \A x \in 1 .. z - (n + 1) + 1 : t[x] = s[(n + 1) + x - 1]
    BY <1>1, <2>1, SubSeqProperties DEF t
  <2>. QED
    BY <1>1, <2>2
<1>7. ASSUME NEW i \in Index
      PROVE  items[i] = IF Off(p.head, i) < Len(t) THEN t[Off(p.head, i) + 1] ELSE Absent
  <2>. DEFINE x == Off(h, i)
              y == Off(Add(h, n), i)
  <2>1. x \in Index /\ y \in Index /\ x \in Nat /\ y \in Nat /\ x < Width
    <3>1. x \in Index /\ y \in Index
      BY <1>1, OffIs, AddIs
    <3>. HIDE DEF x, y
    <3>. QED
      BY <1>1, <3>1 DEF Index
  <2>2. y = Add(x, -n)
    BY <1>1, OffMoved
  <2>3. \A j \in 1 .. n : i = Add(h, j - 1) <=> x = j - 1
    <3>1. \A j \in 1 .. n : j - 1 \in Index
      BY <1>1 DEF Index
    <3>. QED
      BY <1>1, <3>1, OffIs
  <2>4. items[i] = IF \E j \in 1 .. n : i = Add(h, j - 1) THEN Absent ELSE item[k][i]
    BY <1>3
  <2>5. item[k][i] = IF x < z THEN s[x + 1] ELSE Absent
    BY <1>1 DEF Holds, Laid, h
  <2>. HIDE DEF x, y
  <2>6. CASE x < n
    <3>1. x + 1 \in 1 .. n /\ x = (x + 1) - 1
      BY <1>1, <2>1, <2>6
    <3>2. items[i] = Absent
      BY <2>3, <2>4, <3>1
    <3>3. y = x + (-n) + Width
      <4>1. x + (-n) < 0
        BY <1>1, <2>1, <2>6
      <4>. QED
        BY <1>1, <2>1, <2>2, <4>1, AddIs
    <3>4. ~(y < Len(t))
      BY <1>1, <1>6, <2>1, <3>3
    <3>. QED
      BY <1>4, <3>2, <3>4 DEF y
  <2>7. CASE ~(x < n)
    <3>1. items[i] = item[k][i]
      BY <1>1, <2>1, <2>3, <2>4, <2>7
    <3>2. y = x - n
      <4>1. x + (-n) \in Index /\ x + (-n) = x - n
        BY <1>1, <2>1, <2>7 DEF Index
      <4>. QED
        BY <1>1, <2>1, <2>2, <4>1, AddIs
    <3>3. x < z <=> y < Len(t)
      BY <1>1, <1>6, <2>1, <3>2
    <3>4. ASSUME x < z PROVE t[y + 1] = s[x + 1]
      <4>1. y + 1 \in 1 .. (z - n) /\ n + (y + 1) = x + 1
        BY <1>1, <2>1, <2>7, <3>2, <3>4
      <4>. QED
        BY <1>6, <4>1
    <3>. QED
      BY <1>4, <2>5, <3>1, <3>3, <3>4 DEF y
  <2>. QED
    BY <2>6, <2>7
<1>8. items = Laid(p.head, t)
  BY <1>3, <1>7 DEF Laid
<1>9. Holds(p, items, t)
  BY <1>1, <1>4, <1>5, <1>6, <1>8 DEF Holds
<1>. QED
  BY <1>9 DEF p, t, items

\* After pops from the right the rest of the sequence is held.
LEMMA PoppedRight ==
    ASSUME ListAssumption, NEW k, NEW s, Holds(meta[k], item[k], s), NEW n \in 0 .. Len(s)
    PROVE  Holds(Popped(meta[k], n, FALSE), Without(k, n, FALSE), SubSeq(s, 1, Len(s) - n))
<1>. DEFINE h == meta[k].head
            z == meta[k].size
            p == Popped(meta[k], n, FALSE)
            items == Without(k, n, FALSE)
            t == SubSeq(s, 1, Len(s) - n)
<1>1. /\ n \in Nat /\ n <= z /\ h \in Index /\ z \in 0 .. MaxLen /\ MaxLen \in Nat /\ Width \in Nat /\ MaxLen < Width
      /\ n \in (-Width) .. Width /\ -n \in (-Width) .. Width /\ z \in (-Width) .. Width /\ Len(s) = z
      /\ meta[k].tail = Add(h, z) /\ meta[k] \in Metas
  BY HoldsSize DEF Holds
<1>2. p = [meta[k] EXCEPT !.tail = Add(@, -n), !.size = @ - n]
  BY DEF Popped
<1>3. items = [i \in Index |-> IF \E j \in 1 .. n : i = Add(h, z - j) THEN Absent ELSE item[k][i]]
  BY DEF Without, At, PopOffset, Size
<1>. HIDE DEF h, z, p, items, t
<1>a. Add(Add(h, z), -n) = Add(h, z - n) /\ Add(h, z - n) \in Index
  <2>1. z - n \in (-Width) .. Width /\ z + (-n) = z - n
    BY <1>1
  <2>. QED
    BY <1>1, <2>1, AddAdd, AddIs
<1>4. p \in Metas /\ p.head = h /\ p.tail = Add(h, z - n) /\ p.size = z - n
  <2>1. z - n \in 0 .. MaxLen
    BY <1>1
  <2>. QED
    BY <1>1, <1>2, <1>a, <2>1 DEF Metas, h, z
<1>5. p.tail = Add(p.head, p.size)
  BY <1>4
<1>6. t \in Seq(Values) /\ Len(t) = z - n /\ \A x \in 1 .. (z - n) : t[x] = s[x]
  <2>1. \A x \in 1 .. (z - n) : s[x] \in Values
    BY <1>1, HoldsSize DEF z
  <2>2. t \in Seq(Values) /\ Len(t) = (IF 1 <= z - n THEN (z - n) - 1 + 1 ELSE 0)
        /\ \A x \in 1 .. (z - n) - 1 + 1 : t[x] = s[1 + x - 1]
    BY <1>1, <2>1, SubSeqProperties DEF t
  <2>. QED
    BY <1>1, <2>2
<1>7. ASSUME NEW i \in Index
      PROVE  items[i] = IF Off(p.head, i) < Len(t) THEN t[Off(p.head, i) + 1] ELSE Absent
  <2>. DEFINE x == Off(h, i)
  <2>1. x \in Index /\ x \in Nat /\ x < Width
    <3>1. x \in Index
      BY <1>1, OffIs
    <3>. HIDE DEF x
    <3>. QED
      BY <1>1, <3>1 DEF Index
  <2>3. \A j \in 1 .. n : i = Add(h, z - j) <=> x = z - j
    <3>1. \A j \in 1 .. n : z - j \in Index
      BY <1>1 DEF Index
    <3>. QED
      BY <1>1, <3>1, OffIs
  <2>4. items[i] = IF \E j \in 1 .. n : i = Add(h, z - j) THEN Absent ELSE item[k][i]
    BY <1>3
  <2>5. item[k][i] = IF x < z THEN s[x + 1] ELSE Absent
    BY <1>1 DEF Holds, Laid, h
  <2>. HIDE DEF x
  <2>6. CASE x < z - n
    <3>1. items[i] = s[x + 1]
      BY <1>1, <2>1, <2>3, <2>4, <2>5, <2>6
    <3>2. x + 1 \in 1 .. (z - n) /\ x < Len(t)
      BY <1>1, <1>6, <2>1, <2>6
    <3>. QED
      BY <1>4, <1>6, <3>1, <3>2 DEF x
  <2>7. CASE ~(x < z - n)
    <3>1. ~(x < Len(t))
      BY <1>6, <2>7
    <3>2. CASE x < z
      <4>1. z - x \in 1 .. n /\ x = z - (z - x)
        BY <1>1, <2>1, <2>7, <3>2
      <4>2. items[i] = Absent
        BY <2>3, <2>4, <4>1
      <4>. QED
        BY <1>4, <3>1, <4>2 DEF x
    <3>3. CASE ~(x < z)
      <4>1. items[i] = Absent
        BY <2>4, <2>5, <3>3
      <4>. QED
        BY <1>4, <3>1, <4>1 DEF x
    <3>. QED
      BY <3>2, <3>3
  <2>. QED
    BY <2>6, <2>7
<1>8. items = Laid(p.head, t)
  BY <1>3, <1>7 DEF Laid
<1>9. Holds(p, items, t)
  BY <1>1, <1>4, <1>5, <1>6, <1>8 DEF Holds
<1>. QED
  BY <1>9 DEF p, t, items

\* After pops from either end, what RedisLists calls the rest is held.
LEMMA PoppedHolds ==
    ASSUME ListAssumption, NEW k, NEW s, Holds(meta[k], item[k], s), NEW n \in 0 .. Len(s),
           NEW left \in BOOLEAN
    PROVE  Holds(Popped(meta[k], n, left), Without(k, n, left), Lists!Rest(s, n, left))
<1>1. CASE left
  BY <1>1, PoppedLeft DEF Lists!Rest
<1>2. CASE ~left
  BY <1>2, PoppedRight DEF Lists!Rest
<1>. QED
  BY <1>1, <1>2

\* What is popped are the elements at the end, outermost first.
LEMMA TakenIs ==
    ASSUME ListAssumption, NEW k, NEW s, Holds(meta[k], item[k], s), NEW n \in 0 .. Len(s),
           NEW left \in BOOLEAN
    PROVE  /\ Taken(k, n, left) = Lists!Ends(s, n, left)
           /\ \A j \in 1 .. n : Item(k, PopOffset(k, j, left)) # Absent
<1>. DEFINE z == Len(s)
            f == [j \in 1 .. n |-> Item(k, PopOffset(k, j, left))]
            at(j) == IF left THEN j ELSE z - j + 1
<1>1. /\ n \in Nat /\ n <= z /\ z \in Nat /\ z < Width /\ Width \in Nat /\ z = meta[k].size
      /\ \A p \in 1 .. z : s[p] \in Values /\ s[p] # Absent
  BY HoldsSize
<1>. HIDE DEF z
<1>0. n \in Int /\ z \in Int /\ 0 <= n /\ n <= z
  BY <1>1
<1>2. ASSUME NEW j \in 1 .. n
      PROVE  f[j] = s[at(j)] /\ f[j] # Absent
  <2>1. PopOffset(k, j, left) = at(j) - 1 /\ at(j) \in 1 .. z
    BY <1>1 DEF PopOffset, Size
  <2>. HIDE DEF at
  <2>2. at(j) - 1 \in Index /\ at(j) - 1 < meta[k].size /\ (at(j) - 1) + 1 = at(j)
    BY <1>1, <2>1 DEF Index
  <2>3. Item(k, PopOffset(k, j, left)) = s[at(j)]
    BY <2>1, <2>2, HoldsAt DEF Item, At
  <2>. QED
    BY <1>1, <2>1, <2>3
<1>3. Taken(k, n, left) = [j \in 1 .. n |-> f[j]]
  <2>1. f = [x \in 1 .. n |-> f[x]] /\ \A x \in 1 .. n : f[x] # Absent
    BY <1>2
  <2>2. Taken(k, n, left) = Found(f)
    BY DEF Taken
  <2>. HIDE DEF f
  <2>3. Found(f) = f
    BY <1>1, <2>1, FoundFirst
  <2>. QED
    BY <2>1, <2>2, <2>3
<1>4. Taken(k, n, left) = [j \in 1 .. n |-> s[at(j)]]
  BY <1>2, <1>3
<1>. HIDE DEF f
<1>5. Lists!Ends(s, n, left) = [j \in 1 .. n |-> s[at(j)]]
  <2>1. CASE left
    <3>1. SubSeq(s, 1, n) = [j \in 1 .. n |-> s[j]]
      <4>1. 1 \in 1 .. (z + 1) /\ n \in 0 .. z /\ 1 <= n + 1 /\ n - 1 + 1 = n
        BY <1>1
      <4>2. SubSeq(s, 1, n) \in Seq(Values) /\ Len(SubSeq(s, 1, n)) = n - 1 + 1
            /\ \A j \in 1 .. (n - 1 + 1) : SubSeq(s, 1, n)[j] = s[1 + j - 1]
        BY <4>1, Stretch DEF Holds, z
      <4>. QED
        BY <1>1, <4>1, <4>2
    <3>. QED
      BY <2>1, <3>1 DEF Lists!Ends
  <2>2. CASE ~left
    <3>. DEFINE u == SubSeq(s, z - n + 1, z)
    <3>2. Len(u) = n /\ \A j \in 1 .. n : u[j] = s[z - n + j]
      <4>. DEFINE a == z - n + 1
      <4>1. a \in 1 .. (z + 1) /\ z \in 0 .. z /\ a <= z + 1 /\ z - a + 1 = n
        BY <1>0
      <4>2. \A j \in 1 .. n : a + j - 1 = z - n + j
        BY <1>0
      <4>. HIDE DEF a
      <4>3. Len(SubSeq(s, a, z)) = z - a + 1 /\ \A j \in 1 .. (z - a + 1) : SubSeq(s, a, z)[j] = s[a + j - 1]
        BY <4>1, Stretch DEF Holds, z
      <4>. QED
        BY <4>1, <4>2, <4>3 DEF a
    <3>3. Lists!Ends(s, n, left) = Lists!Reverse(u)
      BY <2>2 DEF Lists!Ends, z
    <3>. HIDE DEF u
    <3>4. Len(u) = n /\ \A j \in 1 .. n : u[n - j + 1] = s[z - j + 1]
      <4>2. \A j \in 1 .. n : n - j + 1 \in 1 .. n /\ z - n + (n - j + 1) = z - j + 1
        BY <1>0
      <4>. QED
        BY <3>2, <4>2
    <3>. QED
      BY <2>2, <3>3, <3>4 DEF Lists!Reverse
  <2>. QED
    BY <2>1, <2>2
<1>6. \A j \in 1 .. n : f[j] # Absent
  BY <1>2
<1>. QED
  BY <1>4, <1>5, <1>6 DEF f

----------------------------------------------------------------------------
(* The invariant, and the sequence each key stands for.                    *)

Good(m, items) ==
    IF m = Absent THEN items = NoItems
    ELSE m.size > 0 /\ \E s \in Seq(Values) : Holds(m, items, s)

Inv ==
    /\ TypeOK
    /\ \A k \in Keys : Good(meta[k], item[k])

\* The sequence a record and its items stand for.
SeqIn(m, items) ==
    IF m # Absent /\ m.size > 0 /\ ~m.lapsed
      THEN [o \in 1 .. m.size |-> items[Add(m.head, o - 1)]]
      ELSE <<>>

\* The sequence of a key depends on its record and its items alone.
LEMMA SequenceIs ==
    /\ Sequence = [k \in Keys |-> SeqIn(meta[k], item[k])]
    /\ Sequence' = [k \in Keys |-> SeqIn(meta'[k], item'[k])]
    /\ \A k \in Keys : ~Live(k) => Sequence[k] = <<>>
BY DEF Sequence, SeqIn, Live, Size, Item, At

\* A live record that holds s stands for s.
LEMMA HoldsSeq ==
    ASSUME ListAssumption, NEW m, NEW items, NEW s, Holds(m, items, s)
    PROVE  /\ m \in Metas /\ m # Absent
           /\ items \in [Index -> Values \cup {Absent}]
           /\ m.size > 0 /\ ~m.lapsed => SeqIn(m, items) = s
<1>1. m \in Metas /\ m # Absent /\ s \in Seq(Values) /\ items = Laid(m.head, s)
  BY DEF Holds, ListAssumption
<1>2. items \in [Index -> Values \cup {Absent}]
  <2>1. \A i \in Index : Off(m.head, i) \in Nat
    <3>1. \A i \in Index : Off(m.head, i) \in Index
      BY HoldsSize, OffIs
    <3>. QED
      BY <3>1, HoldsSize DEF Index
  <2>2. \A i \in Index : Off(m.head, i) < Len(s) => s[Off(m.head, i) + 1] \in Values
    BY <2>1, HoldsSize
  <2>. QED
    BY <1>1, <2>2 DEF Laid
<1>3. ASSUME m.size > 0, ~m.lapsed PROVE SeqIn(m, items) = s
  <2>1. \A o \in 1 .. m.size : items[Add(m.head, o - 1)] = s[o]
    <3>. SUFFICES ASSUME NEW o \in 1 .. m.size PROVE items[Add(m.head, o - 1)] = s[o]
      OBVIOUS
    <3>1. o - 1 \in Index /\ o - 1 < m.size /\ (o - 1) + 1 = o
      BY HoldsSize DEF Index
    <3>. QED
      BY <3>1, HoldsAt
  <2>2. SeqIn(m, items) = [o \in 1 .. m.size |-> items[Add(m.head, o - 1)]]
    BY <1>1, <1>3 DEF SeqIn
  <2>3. s = [o \in 1 .. m.size |-> s[o]]
    BY <1>1, LenProperties DEF Holds
  <2>. QED
    BY <2>1, <2>2, <2>3
<1>. QED
  BY <1>1, <1>2, <1>3

\* A live list holds its sequence.
LEMMA LiveHolds ==
    ASSUME ListAssumption, Inv, NEW k \in Keys, Live(k)
    PROVE  /\ Holds(meta[k], item[k], Sequence[k])
           /\ Sequence[k] \in Seq(Values) /\ Len(Sequence[k]) = Size(k) /\ Size(k) \in 1 .. MaxLen
           /\ Sequence[k] # <<>>
<1>1. PICK s \in Seq(Values) : Holds(meta[k], item[k], s)
  BY DEF Inv, Good, Live
<1>2. Sequence[k] = SeqIn(meta[k], item[k])
  BY SequenceIs
<1>3. SeqIn(meta[k], item[k]) = s
  BY <1>1, HoldsSeq DEF Live
<1>4. Size(k) \in 1 .. MaxLen /\ Len(s) = Size(k)
  BY <1>1, HoldsSize DEF Live, Size
<1>5. s # <<>>
  BY <1>4
<1>. QED
  BY <1>1, <1>2, <1>3, <1>4, <1>5

\* A batch that writes one key keeps the invariant when what it writes is good.
LEMMA Replaced ==
    ASSUME ListAssumption, Inv, NEW k \in Keys, NEW m, NEW items,
           \/ m = Absent /\ items = NoItems
           \/ m.size > 0 /\ \E s \in Seq(Values) : Holds(m, items, s),
           meta' = [meta EXCEPT ![k] = m], item' = [item EXCEPT ![k] = items]
    PROVE  Inv' /\ Sequence' = [Sequence EXCEPT ![k] = SeqIn(m, items)]
<1>1. Good(m, items) /\ m \in Metas \cup {Absent} /\ items \in [Index -> Values \cup {Absent}]
  <2>1. CASE m = Absent /\ items = NoItems
    BY <2>1 DEF Good, NoItems
  <2>2. CASE m.size > 0 /\ \E s \in Seq(Values) : Holds(m, items, s)
    BY <2>2, HoldsSeq DEF Good
  <2>. QED
    BY <2>1, <2>2
<1>2. \A j \in Keys : /\ meta'[j] = IF j = k THEN m ELSE meta[j]
                      /\ item'[j] = IF j = k THEN items ELSE item[j]
  BY DEF Inv, TypeOK
<1>3. TypeOK'
  BY <1>1 DEF Inv, TypeOK
<1>4. \A j \in Keys : Good(meta'[j], item'[j])
  BY <1>1, <1>2, Zenon DEF Inv
<1>5. Sequence' = [Sequence EXCEPT ![k] = SeqIn(m, items)]
  <2>1. \A j \in Keys : SeqIn(meta'[j], item'[j]) = IF j = k THEN SeqIn(m, items) ELSE SeqIn(meta[j], item[j])
    <3>. SUFFICES ASSUME NEW j \in Keys
                  PROVE  SeqIn(meta'[j], item'[j]) = IF j = k THEN SeqIn(m, items) ELSE SeqIn(meta[j], item[j])
      OBVIOUS
    <3>1. CASE j = k
      BY <1>2, <3>1
    <3>2. CASE j # k
      BY <1>2, <3>2
    <3>. QED
      BY <3>1, <3>2
  <2>. QED
    BY <2>1, SequenceIs
<1>. QED
  BY <1>3, <1>4, <1>5 DEF Inv

\* A commit of a record and items that hold t puts t.
LEMMA Committed ==
    ASSUME ListAssumption, Inv, NEW k \in Keys, NEW m, NEW items, NEW t, NEW r,
           Holds(m, items, t), ~m.lapsed, Commit(k, m, items, r)
    PROVE  Inv' /\ Lists!Put(k, t, r)
<1>1. /\ meta' = [meta EXCEPT ![k] = IF m.size = 0 THEN Absent ELSE m]
      /\ item' = [item EXCEPT ![k] = items] /\ ret' = r
  BY DEF Commit
<1>2. CASE m.size = 0
  <2>1. items = NoItems /\ t = <<>>
    BY <1>2, HoldsNothing
  <2>2. Inv' /\ Sequence' = [Sequence EXCEPT ![k] = SeqIn(Absent, items)]
    BY <1>1, <1>2, <2>1, Replaced
  <2>3. SeqIn(Absent, items) = <<>>
    BY DEF SeqIn
  <2>. QED
    BY <1>1, <2>1, <2>2, <2>3 DEF Lists!Put
<1>3. CASE m.size # 0
  <2>1. m.size > 0 /\ t \in Seq(Values)
    BY <1>3, HoldsSize DEF Holds
  <2>2. Inv' /\ Sequence' = [Sequence EXCEPT ![k] = SeqIn(m, items)]
    BY <1>1, <1>3, <2>1, Replaced
  <2>3. SeqIn(m, items) = t
    BY <2>1, HoldsSeq
  <2>. QED
    BY <1>1, <2>2, <2>3 DEF Lists!Put
<1>. QED
  BY <1>2, <1>3

\* Clearing a key leaves the empty sequence there.
LEMMA Cleared ==
    ASSUME ListAssumption, Inv, NEW k \in Keys,
           meta' = [meta EXCEPT ![k] = Absent], item' = [item EXCEPT ![k] = NoItems]
    PROVE  Inv' /\ Sequence' = [Sequence EXCEPT ![k] = <<>>]
<1>1. Inv' /\ Sequence' = [Sequence EXCEPT ![k] = SeqIn(Absent, NoItems)]
  BY Replaced
<1>. QED
  BY <1>1 DEF SeqIn

\* A call that writes nothing keeps everything.
LEMMA Replied ==
    ASSUME Inv, UNCHANGED <<meta, item>>
    PROVE  Inv' /\ UNCHANGED Sequence
BY SequenceIs DEF Inv, TypeOK

\* An answer about an empty list is a step of RedisLists.
LEMMA PutSame ==
    ASSUME NEW k \in Keys, NEW r, Sequence[k] = <<>>, UNCHANGED Sequence, ret' = r
    PROVE  Lists!Put(k, <<>>, r)
BY SequenceIs DEF Lists!Put

----------------------------------------------------------------------------
(* The commands.                                                           *)

\* What a push starts from holds the sequence of its key, live or not.
LEMMA PreparedHolds ==
    ASSUME ListAssumption, Inv, NEW k \in Keys
    PROVE  Holds(Prepared(k).m, Prepared(k).items, Sequence[k]) /\ ~Prepared(k).m.lapsed
<1>1. CASE Live(k)
  BY <1>1, LiveHolds DEF Prepared, Live
<1>2. CASE ~Live(k)
  <2>1. Prepared(k).m = Fresh /\ Prepared(k).items = NoItems
    BY <1>2 DEF Prepared
  <2>2. ~Fresh.lapsed
    BY DEF Fresh
  <2>. QED
    BY <1>2, <2>1, <2>2, FreshHolds, SequenceIs
<1>. QED
  BY <1>1, <1>2

\* What a push makes of a sequence.
Joined(s, vs, left) == IF left THEN Reverse(vs) \o s ELSE s \o vs

\* After pushes the elements stand at their side of the sequence.
LEMMA PushedHolds ==
    ASSUME ListAssumption, NEW b, NEW s, Holds(b.m, b.items, s), NEW vs \in Seq(Values),
           NEW left \in BOOLEAN, Pushed(b, vs, left).m.size <= MaxLen
    PROVE  LET p == Pushed(b, vs, left)
           IN  /\ Holds(p.m, p.items, Joined(s, vs, left))
               /\ p.m.size = Len(Joined(s, vs, left)) /\ p.m.lapsed = b.m.lapsed
               /\ p.m.size = Len(s) + Len(vs)
<1>. DEFINE p == Pushed(b, vs, left)
<1>1. p.m = [b.m EXCEPT !.head = IF left THEN Add(@, -Len(vs)) ELSE @,
                        !.tail = IF left THEN @ ELSE Add(@, Len(vs)), !.size = @ + Len(vs)]
  BY DEF Pushed
<1>2. b.m \in Metas /\ Len(s) = b.m.size
  BY DEF Holds
<1>3. p.m.size = b.m.size + Len(vs) /\ p.m.lapsed = b.m.lapsed
  BY <1>1, <1>2 DEF Metas
<1>4. Len(s) + Len(vs) <= MaxLen
  BY <1>2, <1>3
<1>5. Holds(p.m, p.items, Joined(s, vs, left))
  <2>1. CASE left
    <3>1. LET q == Pushed(b, vs, TRUE) IN Holds(q.m, q.items, Reverse(vs) \o s)
      BY <1>4, PushedLeft
    <3>. QED
      BY <2>1, <3>1 DEF Joined
  <2>2. CASE ~left
    <3>1. LET q == Pushed(b, vs, FALSE) IN Holds(q.m, q.items, s \o vs)
      BY <1>4, PushedRight
    <3>. QED
      BY <2>2, <3>1 DEF Joined
  <2>. QED
    BY <2>1, <2>2
<1>. QED
  BY <1>2, <1>3, <1>5 DEF Holds

\* LPUSH, RPUSH and their X forms.
LEMMA PushStep ==
    ASSUME ListAssumption, Inv, NEW k \in Keys, NEW vs \in Pushes, NEW left \in BOOLEAN,
           NEW create \in BOOLEAN, Push(k, vs, left, create)
    PROVE  Inv' /\ Lists!Push(k, vs, left, create)
<1>0. vs \in Seq(Values)
  BY DEF ListAssumption
<1>1. Live(k) <=> Sequence[k] # <<>>
  BY LiveHolds, SequenceIs
<1>2. ASSUME vs # <<>>, create \/ Live(k),
             LET b == Pushed(Prepared(k), vs, left)
             IN  b.m.size <= MaxLen /\ Commit(k, b.m, b.items, <<b.m.size>>)
      PROVE  Inv' /\ Lists!Push(k, vs, left, create)
  <2>. DEFINE b == Pushed(Prepared(k), vs, left)
              t == Joined(Sequence[k], vs, left)
  <2>1. b.m.size <= MaxLen /\ Commit(k, b.m, b.items, <<b.m.size>>)
    BY <1>2
  <2>. HIDE DEF b
  <2>2. b = Pushed(Prepared(k), vs, left)
    BY DEF b
  <2>3. Holds(b.m, b.items, t) /\ b.m.size = Len(t) /\ ~b.m.lapsed
    <3>. DEFINE c == Prepared(k)
    <3>1. Holds(c.m, c.items, Sequence[k]) /\ ~c.m.lapsed /\ b = Pushed(c, vs, left)
      BY <2>2, PreparedHolds
    <3>. HIDE DEF c
    <3>. QED
      BY <1>0, <2>1, <3>1, PushedHolds DEF t
  <2>. HIDE DEF t
  <2>4. Inv' /\ Lists!Put(k, t, <<Len(t)>>)
    BY <2>1, <2>3, Committed
  <2>5. t = IF left THEN Lists!Reverse(vs) \o Sequence[k] ELSE Sequence[k] \o vs
    BY DEF t, Joined, Reverse, Lists!Reverse
  <2>. QED
    BY <1>1, <1>2, <2>4, <2>5 DEF Lists!Push
<1>3. ASSUME vs = <<>> \/ (~create /\ ~Live(k)), Reply(<< 0 >>)
      PROVE  Inv' /\ Lists!Push(k, vs, left, create)
  BY <1>1, <1>3, Replied DEF Reply, Lists!Push, Lists!Keep
<1>. QED
  BY <1>2, <1>3 DEF Push

\* The batch of a pop leaves what RedisLists calls the rest.
LEMMA PopItemsStep ==
    ASSUME ListAssumption, Inv, NEW k \in Keys, Live(k), NEW n \in 0 .. Size(k), NEW left \in BOOLEAN,
           NEW r, PopItems(k, n, left, r)
    PROVE  Inv' /\ Lists!Put(k, Lists!Rest(Sequence[k], n, left), r)
<1>1. Commit(k, Popped(meta[k], n, left), Without(k, n, left), r)
  BY DEF PopItems, Without
<1>2. Holds(meta[k], item[k], Sequence[k]) /\ n \in 0 .. Len(Sequence[k])
  BY LiveHolds
<1>3. Holds(Popped(meta[k], n, left), Without(k, n, left), Lists!Rest(Sequence[k], n, left))
  BY <1>2, PoppedHolds
<1>4. ~Popped(meta[k], n, left).lapsed
  <2>1. meta[k] \in Metas /\ ~meta[k].lapsed
    BY <1>2 DEF Holds, Live
  <2>. QED
    BY <2>1 DEF Popped, Metas
<1>. QED
  BY <1>1, <1>3, <1>4, Committed

\* A pop takes its count, or the whole list when that is shorter.
LEMMA PopCountIs ==
    ASSUME ListAssumption, Inv, NEW k \in Keys, Live(k), NEW count \in Counts
    PROVE  /\ PopCount(k, count) \in 1 .. Size(k)
           /\ PopCount(k, count) = IF count < Len(Sequence[k]) THEN count ELSE Len(Sequence[k])
BY LiveHolds DEF PopCount, ListAssumption

\* Of nothing, any end and any rest are nothing.
LEMMA NothingTaken ==
    ASSUME NEW left \in BOOLEAN
    PROVE  Lists!Ends(<<>>, 0, left) = <<>> /\ Lists!Rest(<<>>, 0, left) = <<>>
<1>1. Len(<<>>) = 0
  BY EmptySeq
<1>2. Lists!Reverse(<<>>) = <<>>
  BY <1>1 DEF Lists!Reverse
<1>3. /\ SubSeq(<<>>, 1, 0) = <<>> /\ SubSeq(<<>>, Len(<<>>) - 0 + 1, Len(<<>>)) = <<>>
      /\ SubSeq(<<>>, 0 + 1, Len(<<>>)) = <<>> /\ SubSeq(<<>>, 1, Len(<<>>) - 0) = <<>>
  BY <1>1, SubSeqEmpty
<1>4. CASE left
  BY <1>3, <1>4 DEF Lists!Ends, Lists!Rest
<1>5. CASE ~left
  BY <1>2, <1>3, <1>5, Zenon DEF Lists!Ends, Lists!Rest
<1>. QED
  BY <1>4, <1>5

\* LPOP and RPOP, of one element or of a count.
LEMMA PopStep ==
    ASSUME ListAssumption, Inv, NEW k \in Keys, NEW count \in Counts, NEW left \in BOOLEAN,
           Pop(k, count, left)
    PROVE  Inv' /\ Lists!Pop(k, count, left)
<1>1. CASE Live(k)
  <2>. DEFINE n == PopCount(k, count)
              s == Sequence[k]
  <2>1. n \in 1 .. Size(k) /\ n \in 0 .. Size(k) /\ n = (IF count < Len(s) THEN count ELSE Len(s))
    BY <1>1, LiveHolds, PopCountIs
  <2>2. Holds(meta[k], item[k], s) /\ Len(s) = Size(k)
    BY <1>1, LiveHolds
  <2>. HIDE DEF n, s
  <2>3. Taken(k, n, left) = Lists!Ends(s, n, left) /\ \A j \in 1 .. n : Item(k, PopOffset(k, j, left)) # Absent
    BY <2>1, <2>2, TakenIs
  <2>4. 1 \in 1 .. n
    BY <2>1
  <2>5. Item(k, PopOffset(k, 1, left)) # Absent
    BY <2>3, <2>4
  <2>6. PopItems(k, n, left, Taken(k, n, left))
    BY <1>1, <2>5 DEF Pop, n
  <2>7. Inv' /\ Lists!Put(k, Lists!Rest(s, n, left), Lists!Ends(s, n, left))
    BY <1>1, <2>1, <2>3, <2>6, PopItemsStep DEF s
  <2>. QED
    BY <2>1, <2>7 DEF Lists!Pop, s
<1>2. CASE ~Live(k)
  <2>1. Reply(<<>>) /\ Sequence[k] = <<>>
    BY <1>2, SequenceIs DEF Pop
  <2>2. Inv' /\ UNCHANGED Sequence /\ ret' = <<>>
    BY <2>1, Replied DEF Reply
  <2>3. Lists!Put(k, <<>>, <<>>)
    BY <2>1, <2>2, PutSame
  <2>4. (IF count < Len(<<>>) THEN count ELSE Len(<<>>)) = 0
    BY DEF ListAssumption
  <2>. QED
    BY <2>1, <2>2, <2>3, <2>4, NothingTaken DEF Lists!Pop
<1>. QED
  BY <1>1, <1>2

\* LMPOP over two keys.
LEMMA LMPopStep ==
    ASSUME ListAssumption, Inv, NEW k \in Keys, NEW d \in Keys, NEW count \in Counts, NEW left \in BOOLEAN,
           LMPop(<<k, d>>, count, left)
    PROVE  Inv' /\ Lists!LMPop(<<k, d>>, count, left)
<1>. DEFINE ks == <<k, d>>
<1>1. Len(ks) = 2 /\ \A i \in 1 .. Len(ks) : ks[i] \in Keys
  OBVIOUS
<1>. HIDE DEF ks
<1>2. \A i \in 1 .. Len(ks) : Live(ks[i]) <=> Sequence[ks[i]] # <<>>
  BY <1>1, LiveHolds, SequenceIs
<1>3. ASSUME NEW i \in 1 .. Len(ks), Live(ks[i]), \A j \in 1 .. (i - 1) : ~Live(ks[j]),
             PopItems(ks[i], PopCount(ks[i], count), left, <<ks[i]>> \o Taken(ks[i], PopCount(ks[i], count), left))
      PROVE  Inv' /\ Lists!LMPop(ks, count, left)
  <2>. DEFINE n == PopCount(ks[i], count)
              s == Sequence[ks[i]]
  <2>1. n \in 0 .. Size(ks[i]) /\ n = (IF count < Len(s) THEN count ELSE Len(s))
    <3>1. n \in 1 .. Size(ks[i]) /\ n = (IF count < Len(s) THEN count ELSE Len(s))
      BY <1>1, <1>3, PopCountIs
    <3>. QED
      BY <3>1
  <2>2. Holds(meta[ks[i]], item[ks[i]], s) /\ Len(s) = Size(ks[i])
    BY <1>1, <1>3, LiveHolds
  <2>. HIDE DEF n, s
  <2>3. Taken(ks[i], n, left) = Lists!Ends(s, n, left)
    BY <2>1, <2>2, TakenIs
  <2>4. PopItems(ks[i], n, left, <<ks[i]>> \o Lists!Ends(s, n, left))
    BY <1>3, <2>3 DEF n
  <2>5. Inv' /\ Lists!Put(ks[i], Lists!Rest(s, n, left), <<ks[i]>> \o Lists!Ends(s, n, left))
    BY <1>1, <1>3, <2>1, <2>4, PopItemsStep DEF s
  <2>6. s # <<>> /\ \A j \in 1 .. (i - 1) : Sequence[ks[j]] = <<>>
    BY <1>1, <1>2, <1>3 DEF s
  <2>. QED
    BY <2>1, <2>5, <2>6 DEF Lists!LMPop, s
<1>4. ASSUME \A i \in 1 .. Len(ks) : ~Live(ks[i]), Reply(<<>>)
      PROVE  Inv' /\ Lists!LMPop(ks, count, left)
  BY <1>2, <1>4, Replied DEF Reply, Lists!LMPop, Lists!Keep
<1>. QED
  BY <1>3, <1>4 DEF LMPop, ks

\* Index i is that of offset o when o is its offset.
LEMMA AtIs ==
    ASSUME ListAssumption, NEW k, NEW s, Holds(meta[k], item[k], s), NEW i \in Index
    PROVE  /\ Off(meta[k].head, i) \in Nat /\ Off(meta[k].head, i) < Width
           /\ \A o \in 0 .. (Width - 1) : At(k, o) \in Index /\ (At(k, o) = i <=> Off(meta[k].head, i) = o)
           /\ item[k][i] = IF Off(meta[k].head, i) < Len(s) THEN s[Off(meta[k].head, i) + 1] ELSE Absent
<1>1. meta[k].head \in Index /\ Width \in Nat
  BY HoldsSize
<1>2. Off(meta[k].head, i) \in Index /\ \A o \in Index : Add(meta[k].head, o) = i <=> Off(meta[k].head, i) = o
  BY <1>1, OffIs
<1>3. \A o \in Index : Add(meta[k].head, o) \in Index
  BY HoldsAt
<1>4. item[k] = Laid(meta[k].head, s)
  BY DEF Holds
<1>. QED
  BY <1>1, <1>2, <1>3, <1>4 DEF Index, At, Laid

\* Overwriting the item at an offset overwrites that element.
LEMMA SetHolds ==
    ASSUME ListAssumption, NEW k, NEW s, Holds(meta[k], item[k], s), NEW o \in 0 .. (Len(s) - 1), NEW v \in Values
    PROVE  Holds(meta[k], [item[k] EXCEPT ![At(k, o)] = v], [s EXCEPT ![o + 1] = v])
<1>. DEFINE t == [s EXCEPT ![o + 1] = v]
            items == [item[k] EXCEPT ![At(k, o)] = v]
            h == meta[k].head
<1>1. /\ Len(s) = meta[k].size /\ Len(s) \in Nat /\ Len(s) < Width /\ Width \in Nat /\ s \in Seq(Values)
      /\ item[k] = Laid(h, s)
  BY HoldsSize DEF Holds
<1>2. o \in 0 .. (Width - 1) /\ o + 1 \in 1 .. Len(s) /\ o \in Int
  BY <1>1
<1>3. t \in Seq(Values) /\ Len(t) = Len(s) /\ \A p \in 1 .. Len(s) : t[p] = IF p = o + 1 THEN v ELSE s[p]
  BY <1>1, <1>2, ExceptSeq
<1>4. ASSUME NEW i \in Index
      PROVE  items[i] = IF Off(h, i) < Len(t) THEN t[Off(h, i) + 1] ELSE Absent
  <2>. DEFINE x == Off(h, i)
  <2>1. x \in Nat /\ (At(k, o) = i <=> x = o) /\ item[k][i] = IF x < Len(s) THEN s[x + 1] ELSE Absent
    BY <1>2, AtIs
  <2>2. items[i] = IF At(k, o) = i THEN v ELSE item[k][i]
    BY <1>1 DEF Laid
  <2>. HIDE DEF x, t, items
  <2>3. CASE x = o
    BY <1>1, <1>2, <1>3, <2>1, <2>2, <2>3 DEF x
  <2>4. CASE x # o
    <3>1. items[i] = IF x < Len(s) THEN s[x + 1] ELSE Absent
      BY <2>1, <2>2, <2>4
    <3>2. x < Len(s) => x + 1 \in 1 .. Len(s) /\ x + 1 # o + 1
      BY <1>1, <1>2, <2>1, <2>4
    <3>3. x < Len(s) => t[x + 1] = s[x + 1]
      BY <1>3, <3>2
    <3>. QED
      BY <1>3, <3>1, <3>3 DEF x
  <2>. QED
    BY <2>3, <2>4
<1>5. items = Laid(h, t)
  <2>1. items = [i \in Index |-> items[i]]
    BY <1>1 DEF Laid
  <2>. QED
    BY <1>4, <2>1 DEF Laid
<1>. QED
  BY <1>1, <1>3, <1>5 DEF Holds

\* LSET, from either end and out of range.
LEMMA SetStep ==
    ASSUME ListAssumption, Inv, NEW k \in Keys, NEW i \in Indexes, NEW v \in Values, LSet(k, i, v)
    PROVE  Inv' /\ Lists!LSet(k, i, v)
<1>. DEFINE s == Sequence[k]
            p == Lists!Position(s, i)
<1>1. i \in Int
  BY DEF ListAssumption
<1>2. CASE Live(k) /\ HasOffset(k, i)
  <2>. DEFINE o == Offset(k, i)
              items == [item[k] EXCEPT ![At(k, o)] = v]
              t == [s EXCEPT ![o + 1] = v]
  <2>1. Holds(meta[k], item[k], s) /\ Len(s) = Size(k) /\ Size(k) \in Nat /\ Size(k) > 0 /\ s \in Seq(Values)
    BY <1>2, LiveHolds
  <2>2. o \in 0 .. (Len(s) - 1)
    BY <1>2, <2>1 DEF HasOffset
  <2>3. p = o + 1 /\ p \in 1 .. Len(s)
    <3>1. p = IF i < 0 THEN Len(s) + i + 1 ELSE i + 1
      BY DEF Lists!Position
    <3>2. o = IF i < 0 THEN Len(s) + i ELSE i
      BY <2>1 DEF Offset
    <3>. HIDE DEF p, o, s
    <3>. QED
      BY <1>1, <2>1, <2>2, <3>1, <3>2
  <2>4. /\ item' = [item EXCEPT ![k][At(k, o)] = v] /\ meta' = meta /\ ret' = Ok
    BY <1>2 DEF LSet, Reply
  <2>. HIDE DEF o, s, p
  <2>5. Holds(meta[k], items, t)
    BY <2>1, <2>2, SetHolds
  <2>6. meta' = [meta EXCEPT ![k] = meta[k]] /\ item' = [item EXCEPT ![k] = items]
    BY <2>4 DEF Inv, TypeOK
  <2>7. meta[k].size > 0 /\ t \in Seq(Values) /\ ~meta[k].lapsed
    BY <1>2, <2>5 DEF Live, Holds
  <2>. HIDE DEF items, t
  <2>8. Inv' /\ Sequence' = [Sequence EXCEPT ![k] = SeqIn(meta[k], items)]
    BY <2>5, <2>6, <2>7, Replaced
  <2>9. SeqIn(meta[k], items) = [s EXCEPT ![p] = v]
    BY <2>3, <2>5, <2>7, HoldsSeq DEF t
  <2>. QED
    BY <2>3, <2>4, <2>8, <2>9 DEF Lists!LSet, Lists!Put, Lists!Ok, Ok, s, p
<1>3. CASE ~(Live(k) /\ HasOffset(k, i))
  <2>1. Inv' /\ Sequence' = Sequence /\ ret' = Err
    BY <1>3, Replied DEF LSet, Reply
  <2>2. p \notin 1 .. Len(s)
    <3>1. CASE Live(k)
      <4>1. Len(s) = Size(k) /\ Size(k) \in Nat
        BY <3>1, LiveHolds
      <4>. HIDE DEF s
      <4>. QED
        BY <1>1, <1>3, <3>1, <4>1 DEF HasOffset, Offset, Lists!Position
    <3>2. CASE ~Live(k)
      <4>1. s = <<>>
        BY <3>2, SequenceIs
      <4>. HIDE DEF p
      <4>. QED
        BY <4>1, EmptySeq
    <3>. QED
      BY <3>1, <3>2
  <2>. QED
    BY <2>1, <2>2 DEF Lists!LSet, Lists!Keep, Lists!Err, Err
<1>. QED
  BY <1>2, <1>3

\* Cardinality in RedisLists is the one used here.
LEMMA SameCardinality ==
    \A T : Lists!Cardinality(T) = Cardinality(T)
BY DEF Lists!Cardinality, Cardinality

\* What is left of a sequence when the positions left are a stretch of it.
LEMMA DroppedIs ==
    ASSUME NEW s, NEW D
    PROVE  LET kept == DOMAIN s \ D
           IN  Lists!Dropped(s, D) = [n \in 1 .. Cardinality(kept) |-> s[Ascending(kept)[n]]]
<1>. DEFINE kept == DOMAIN s \ D
            nth(n) == CHOOSE p \in kept : Cardinality({q \in kept : q < p}) = n - 1
<1>1. Lists!Dropped(s, D) = [n \in 1 .. Cardinality(kept) |-> s[nth(n)]]
  BY Zenon DEF Lists!Dropped, Lists!Cardinality, Cardinality
<1>2. Ascending(kept) = [n \in 1 .. Cardinality(kept) |-> nth(n)]
  BY DEF Ascending
<1>. HIDE DEF kept, nth
<1>. QED
  BY <1>1, <1>2 DEF kept

\* When the positions left are a stretch, what is left is that stretch.
LEMMA DroppedStretch ==
    ASSUME NEW S, NEW s \in Seq(S), NEW D, NEW a \in 1 .. (Len(s) + 1), NEW b \in 0 .. Len(s), a <= b + 1,
           DOMAIN s \ D = a .. b
    PROVE  Lists!Dropped(s, D) = SubSeq(s, a, b)
<1>. DEFINE u == SubSeq(s, a, b)
<1>1. Len(s) \in Nat /\ a \in Int /\ b \in Int
  BY LenProperties
<1>2. Ascending(a .. b) = [n \in 1 .. (b - a + 1) |-> a + n - 1]
  BY <1>1, AscendingInterval
<1>3. Cardinality(a .. b) = b - a + 1
  <2>1. Cardinality(a .. b) = IF a > b THEN 0 ELSE b - a + 1
    BY <1>1, FS_Interval
  <2>. QED
    BY <1>1, <2>1
<1>4. Lists!Dropped(s, D) = [n \in 1 .. Cardinality(a .. b) |-> s[Ascending(a .. b)[n]]]
  BY DroppedIs
<1>5. Lists!Dropped(s, D) = [n \in 1 .. (b - a + 1) |-> s[a + n - 1]]
  BY <1>2, <1>3, <1>4
<1>6. u \in Seq(S) /\ Len(u) = b - a + 1 /\ \A n \in 1 .. (b - a + 1) : u[n] = s[a + n - 1]
  BY Stretch
<1>. HIDE DEF u
<1>7. u = [n \in 1 .. (b - a + 1) |-> u[n]]
  BY <1>6, LenProperties
<1>. QED
  BY <1>5, <1>6, <1>7 DEF u

\* With every position dropped nothing is left.
LEMMA DroppedAll ==
    ASSUME NEW s, NEW D, DOMAIN s \ D = {}
    PROVE  Lists!Dropped(s, D) = <<>>
<1>1. Cardinality({}) = 0
  BY FS_EmptySet
<1>2. Lists!Dropped(s, D) = [n \in 1 .. Cardinality({}) |-> s[Ascending({})[n]]]
  BY DroppedIs
<1>3. 1 .. 0 = {}
  OBVIOUS
<1>4. Lists!Dropped(s, D) = [n \in {} |-> s[Ascending({})[n]]]
  BY <1>1, <1>2, <1>3
<1>. QED
  BY <1>4

\* The items and the record of the elements at offsets a .. b.
LEMMA TrimHolds ==
    ASSUME ListAssumption, NEW k, NEW s, Holds(meta[k], item[k], s),
           NEW a \in 0 .. (Len(s) - 1), NEW b \in a .. (Len(s) - 1)
    PROVE  LET kept == {At(k, o) : o \in a .. b}
               cut == {At(k, o) : o \in Offsets(k)} \ kept
               head == At(k, a)
           IN  Holds([meta[k] EXCEPT !.head = head, !.size = b - a + 1, !.tail = Add(head, b - a + 1)],
                     [i \in Index |-> IF i \in cut THEN Absent ELSE item[k][i]],
                     SubSeq(s, a + 1, b + 1))
<1>. DEFINE h == meta[k].head
            z == Len(s)
            kept == {At(k, o) : o \in a .. b}
            cut == {At(k, o) : o \in Offsets(k)} \ kept
            p == [meta[k] EXCEPT !.head = At(k, a), !.size = b - a + 1, !.tail = Add(At(k, a), b - a + 1)]
            items == [i \in Index |-> IF i \in cut THEN Absent ELSE item[k][i]]
            t == SubSeq(s, a + 1, b + 1)
<1>1. /\ h \in Index /\ z \in 0 .. MaxLen /\ MaxLen \in Nat /\ Width \in Nat /\ MaxLen < Width
      /\ meta[k] \in Metas /\ meta[k].size = z /\ s \in Seq(Values)
  BY HoldsSize DEF Holds
<1>. HIDE DEF z
<1>0. a \in Nat /\ b \in Nat /\ a <= b /\ b < z /\ z \in Nat
  BY <1>1 DEF z
<1>2. At(k, a) = Add(h, a) /\ Add(h, a) \in Index /\ Add(Add(h, a), b - a + 1) \in Index
      /\ a \in (-Width) .. Width /\ -a \in (-Width) .. Width
  <2>1. a \in (-Width) .. Width /\ -a \in (-Width) .. Width /\ b - a + 1 \in (-Width) .. Width
    BY <1>0, <1>1
  <2>2. At(k, a) = Add(h, a)
    BY DEF At
  <2>. QED
    BY <1>1, <2>1, <2>2, AddIs
<1>3. p \in Metas /\ p.head = Add(h, a) /\ p.size = b - a + 1 /\ p.tail = Add(p.head, p.size)
  <2>1. b - a + 1 \in 0 .. MaxLen
    BY <1>0, <1>1
  <2>. HIDE DEF h
  <2>. QED
    BY <1>1, <1>2, <2>1 DEF Metas
<1>4. t \in Seq(Values) /\ Len(t) = b - a + 1 /\ \A n \in 1 .. (b - a + 1) : t[n] = s[a + n]
  <2>. DEFINE c == a + 1
              d == b + 1
  <2>1. c \in 1 .. (z + 1) /\ d \in 0 .. z /\ c <= d + 1 /\ d - c + 1 = b - a + 1
        /\ \A n \in 1 .. (b - a + 1) : c + n - 1 = a + n
    BY <1>0
  <2>. HIDE DEF c, d
  <2>2. SubSeq(s, c, d) \in Seq(Values) /\ Len(SubSeq(s, c, d)) = d - c + 1
        /\ \A n \in 1 .. (d - c + 1) : SubSeq(s, c, d)[n] = s[c + n - 1]
    BY <1>1, <2>1, Stretch DEF z
  <2>. QED
    BY <2>1, <2>2 DEF c, d
<1>5. ASSUME NEW i \in Index
      PROVE  items[i] = IF Off(p.head, i) < Len(t) THEN t[Off(p.head, i) + 1] ELSE Absent
  <2>. DEFINE x == Off(h, i)
              y == Off(Add(h, a), i)
  <2>1. /\ x \in Nat /\ x < Width /\ x \in Index
        /\ \A o \in 0 .. (Width - 1) : At(k, o) = i <=> x = o
        /\ item[k][i] = IF x < z THEN s[x + 1] ELSE Absent
    BY <1>1, AtIs, OffIs DEF z
  <2>2. y = Add(x, -a)
    BY <1>1, <1>2, OffMoved
  <2>. HIDE DEF x, y
  <2>3. i \in kept <=> a <= x /\ x <= b
    <3>1. \A o \in a .. b : o \in 0 .. (Width - 1)
      BY <1>0, <1>1
    <3>2. i \in kept <=> \E o \in a .. b : x = o
      BY <2>1, <3>1
    <3>. QED
      BY <1>0, <2>1, <3>2
  <2>4. i \in {At(k, o) : o \in Offsets(k)} <=> x < z
    <3>1. Offsets(k) = 0 .. (z - 1) /\ \A o \in 0 .. (z - 1) : o \in 0 .. (Width - 1)
      BY <1>0, <1>1 DEF Offsets, Size
    <3>2. i \in {At(k, o) : o \in Offsets(k)} <=> \E o \in 0 .. (z - 1) : x = o
      BY <2>1, <3>1
    <3>. QED
      BY <1>0, <2>1, <3>2
  <2>5. items[i] = IF x < z /\ ~(a <= x /\ x <= b) THEN Absent ELSE item[k][i]
    BY <2>3, <2>4
  <2>. HIDE DEF items, p, t
  <2>6. CASE a <= x
    <3>1. y = x - a
      <4>1. x + (-a) \in Index /\ x + (-a) = x - a
        BY <1>0, <1>1, <2>1, <2>6 DEF Index
      <4>. QED
        BY <1>1, <1>2, <2>1, <2>2, <4>1, AddIs
    <3>2. CASE x <= b
      <4>1. y < Len(t) /\ y + 1 \in 1 .. (b - a + 1) /\ a + (y + 1) = x + 1 /\ x < z
        BY SMTT(30), <1>0, <1>4, <2>1, <2>6, <3>1, <3>2
      <4>2. t[y + 1] = s[x + 1]
        BY <1>4, <4>1
      <4>3. items[i] = s[x + 1]
        BY <2>1, <2>5, <2>6, <3>2, <4>1
      <4>. QED
        BY <1>3, <4>1, <4>2, <4>3 DEF y
    <3>3. CASE ~(x <= b)
      <4>1. ~(y < Len(t))
        BY <1>0, <1>4, <2>1, <2>6, <3>1, <3>3
      <4>2. items[i] = Absent
        BY <2>1, <2>5, <3>3
      <4>. QED
        BY <1>3, <4>1, <4>2 DEF y
    <3>. QED
      BY <3>2, <3>3
  <2>7. CASE ~(a <= x)
    <3>1. y = x + (-a) + Width
      <4>1. x + (-a) < 0
        BY <1>0, <2>1, <2>7
      <4>. QED
        BY <1>1, <1>2, <2>1, <2>2, <4>1, AddIs
    <3>2. ~(y < Len(t))
      BY SMTT(30), <1>0, <1>1, <1>4, <2>1, <3>1
    <3>3. items[i] = Absent
      BY <1>0, <2>1, <2>5, <2>7
    <3>. QED
      BY <1>3, <3>2, <3>3 DEF y
  <2>. QED
    BY <2>6, <2>7
<1>. HIDE DEF p, t
<1>6. items = Laid(p.head, t)
  BY <1>5 DEF Laid
<1>. HIDE DEF items
<1>7. Holds(p, items, t)
  BY <1>3, <1>4, <1>6 DEF Holds
<1>. QED
  BY <1>7 DEF p, t, items

\* LTRIM, with indexes from either end and in or out of range.
LEMMA TrimStep ==
    ASSUME ListAssumption, Inv, NEW k \in Keys, NEW i \in Indexes, NEW j \in Indexes, LTrim(k, i, j)
    PROVE  Inv' /\ Lists!LTrim(k, i, j)
<1>. DEFINE s == Sequence[k]
            z == Size(k)
            r == Normalize(i, j, z)
            D == {p \in 1 .. Len(s) : p < Lists!Position(s, i) \/ p > Lists!Position(s, j)}
<1>1. i \in Int /\ j \in Int
  BY DEF ListAssumption
<1>2. Lists!LTrim(k, i, j) <=> Lists!Put(k, Lists!Dropped(s, D), Ok)
  BY DEF Lists!LTrim, Lists!Ok, Ok
<1>3. CASE ~Live(k)
  <2>1. s = <<>> /\ Inv' /\ UNCHANGED Sequence /\ ret' = Ok
    BY <1>3, SequenceIs, Replied DEF LTrim, Reply
  <2>2. DOMAIN s \ D = {}
    <3>1. DOMAIN s = {}
      BY <2>1
    <3>. QED
      BY <3>1
  <2>. HIDE DEF D
  <2>3. Lists!Dropped(s, D) = <<>>
    BY <2>2, DroppedAll
  <2>. QED
    BY <1>2, <2>1, <2>3, PutSame
<1>4. CASE Live(k)
  <2>1. Holds(meta[k], item[k], s) /\ s \in Seq(Values) /\ Len(s) = z /\ z \in 1 .. MaxLen /\ MaxLen \in Nat
    BY <1>4, LiveHolds DEF ListAssumption
  <2>2. /\ r.s = LET a == IF i < 0 THEN z + i ELSE i IN IF a < 0 THEN 0 ELSE a
        /\ r.e = LET b == IF j < 0 THEN z + j ELSE j IN IF b >= z THEN z - 1 ELSE b
    BY DEF Normalize
  <2>. HIDE DEF s, z, r
  <2>3. r.s \in Nat /\ r.e \in Int /\ r.e < z
    BY <1>1, <2>1, <2>2
  <2>4. \A p \in 1 .. z : p \notin D <=> p >= r.s + 1 /\ p <= r.e + 1
    <3>. SUFFICES ASSUME NEW p \in 1 .. z PROVE p \notin D <=> p >= r.s + 1 /\ p <= r.e + 1
      OBVIOUS
    <3>1. p \notin D <=> ~(p < Lists!Position(s, i)) /\ ~(p > Lists!Position(s, j))
      BY <2>1
    <3>2. Lists!Position(s, i) = (IF i < 0 THEN z + i + 1 ELSE i + 1)
          /\ Lists!Position(s, j) = (IF j < 0 THEN z + j + 1 ELSE j + 1)
      BY <2>1 DEF Lists!Position
    <3>3. ~(p < Lists!Position(s, i)) <=> p >= r.s + 1
      BY <1>1, <2>1, <2>2, <2>3, <3>2
    <3>4. ~(p > Lists!Position(s, j)) <=> p <= r.e + 1
      BY <1>1, <2>1, <2>2, <2>3, <3>2
    <3>. QED
      BY <3>1, <3>3, <3>4
  <2>5. DOMAIN s = 1 .. z
    BY <2>1, LenProperties
  <2>. HIDE DEF D
  <2>6. CASE r.s > r.e
    <3>1. Clear(k, Ok)
      BY <1>4, <2>3, <2>6 DEF LTrim, r, z
    <3>2. Inv' /\ Sequence' = [Sequence EXCEPT ![k] = <<>>] /\ ret' = Ok
      BY <3>1, Cleared DEF Clear
    <3>3. DOMAIN s \ D = {}
      BY <2>3, <2>4, <2>5, <2>6
    <3>4. Lists!Dropped(s, D) = <<>>
      BY <3>3, DroppedAll
    <3>. QED
      BY <1>2, <3>2, <3>4 DEF Lists!Put
  <2>7. CASE r.s <= r.e
    <3>. DEFINE kept == {At(k, o) : o \in r.s .. r.e}
                cut == {At(k, o) : o \in Offsets(k)} \ kept
                m == [meta[k] EXCEPT !.head = At(k, r.s), !.size = r.e - r.s + 1,
                                     !.tail = Add(At(k, r.s), r.e - r.s + 1)]
                items == [n \in Index |-> IF n \in cut THEN Absent ELSE item[k][n]]
                t == SubSeq(s, r.s + 1, r.e + 1)
    <3>1. Commit(k, m, items, Ok)
      BY <1>4, <2>3, <2>7 DEF LTrim, r, z
    <3>2. r.s \in 0 .. (Len(s) - 1) /\ r.e \in r.s .. (Len(s) - 1)
      BY <2>1, <2>3, <2>7
    <3>3. Holds(m, items, t)
      BY <2>1, <3>2, TrimHolds
    <3>4. ~m.lapsed
      <4>1. meta[k] \in Metas /\ ~meta[k].lapsed
        BY <1>4, <2>1 DEF Holds, Live
      <4>. QED
        BY <4>1 DEF Metas
    <3>. HIDE DEF m, items
    <3>5. Inv' /\ Lists!Put(k, t, Ok)
      BY <3>1, <3>3, <3>4, Committed
    <3>6. Lists!Dropped(s, D) = t
      <4>. DEFINE a == r.s + 1
                  b == r.e + 1
      <4>1. a \in 1 .. (Len(s) + 1) /\ b \in 0 .. Len(s) /\ a <= b + 1 /\ a >= 1 /\ b <= z /\ a \in Int /\ b \in Int
        BY <2>1, <2>3, <2>7
      <4>. HIDE DEF a, b
      <4>2. DOMAIN s \ D = a .. b
        BY <2>1, <2>4, <2>5, <4>1 DEF a, b
      <4>3. Lists!Dropped(s, D) = SubSeq(s, a, b)
        BY <2>1, <4>1, <4>2, DroppedStretch
      <4>. QED
        BY <4>3 DEF a, b
    <3>. QED
      BY <1>2, <3>5, <3>6
  <2>. QED
    BY <2>3, <2>6, <2>7
<1>. QED
  BY <1>3, <1>4

----------------------------------------------------------------------------
(* Scanning.                                                               *)

\* On the ordered path as around the wrap, a scan reads the elements of its
\* stretch.
LEMMA ScanIs ==
    ASSUME ListAssumption, NEW k, NEW s, Holds(meta[k], item[k], s),
           NEW a \in 0 .. (Len(s) - 1), NEW b \in a .. (Len(s) - 1)
    PROVE  Scan(k, a, b) = SubSeq(s, a + 1, b + 1)
<1>. DEFINE h == meta[k].head
            z == Len(s)
            t == SubSeq(s, a + 1, b + 1)
<1>1. /\ h \in Index /\ z \in 0 .. MaxLen /\ MaxLen \in Nat /\ Width \in Nat /\ MaxLen < Width
      /\ meta[k].size = z /\ s \in Seq(Values) /\ \A p \in 1 .. z : s[p] # Absent
  BY HoldsSize DEF Holds
<1>. HIDE DEF z
<1>0. a \in Nat /\ b \in Nat /\ a <= b /\ b < z /\ z \in Nat /\ z < Width
  BY <1>1 DEF z
<1>2. \A o \in a .. b : At(k, o) \in Index /\ Item(k, o) = s[o + 1] /\ Item(k, o) # Absent
  <2>1. \A o \in a .. b : o \in Index /\ o < z /\ o + 1 \in 1 .. z
    BY <1>0, <1>1 DEF Index
  <2>. QED
    BY <1>1, <2>1, HoldsAt DEF Item, At
<1>3. t = [n \in 1 .. (b - a + 1) |-> s[a + n]]
  <2>. DEFINE c == a + 1
              d == b + 1
  <2>1. c \in 1 .. (z + 1) /\ d \in 0 .. z /\ c <= d + 1 /\ d - c + 1 = b - a + 1
        /\ \A n \in 1 .. (b - a + 1) : c + n - 1 = a + n
    BY <1>0
  <2>. HIDE DEF c, d
  <2>2. SubSeq(s, c, d) \in Seq(Values) /\ Len(SubSeq(s, c, d)) = d - c + 1
        /\ \A n \in 1 .. (d - c + 1) : SubSeq(s, c, d)[n] = s[c + n - 1]
    BY <1>1, <2>1, Stretch DEF z
  <2>3. t \in Seq(Values) /\ Len(t) = b - a + 1 /\ \A n \in 1 .. (b - a + 1) : t[n] = s[a + n]
    BY <2>1, <2>2 DEF c, d
  <2>. HIDE DEF t
  <2>4. t = [n \in 1 .. Len(t) |-> t[n]]
    BY <2>3, LenProperties
  <2>. QED
    BY <2>3, <2>4
<1>. HIDE DEF t
<1>4. CASE At(k, a) <= At(k, b)
  <2>. DEFINE lo == At(k, a)
              hi == At(k, b)
              f == [i \in lo .. hi |-> item[k][i]]
  <2>1. /\ lo \in Index /\ hi \in Index
        /\ \A o \in a .. b : At(k, o) = h + o \/ At(k, o) = h + o - Width
        /\ \A o \in a .. b : h + o < Width => At(k, o) = h + o
        /\ \A o \in a .. b : h + o >= Width => At(k, o) = h + o - Width
    <3>1. \A o \in a .. b : o \in (-Width) .. Width /\ h + o >= 0 /\ (h + o < Width => h + o \in Index)
      BY <1>0, <1>1 DEF Index
    <3>2. \A o \in a .. b : At(k, o) = Add(h, o)
      BY DEF At
    <3>3. a \in a .. b /\ b \in a .. b
      BY <1>0
    <3>. HIDE DEF h
    <3>4. \A o \in a .. b : /\ h + o < Width => At(k, o) = h + o
                            /\ h + o >= Width => At(k, o) = h + o - Width
      BY <1>1, <3>1, <3>2, AddIs
    <3>5. \A o \in a .. b : h + o < Width \/ h + o >= Width
      BY <1>1, <3>1 DEF Index
    <3>. QED
      BY <1>2, <3>3, <3>4, <3>5
  <2>. HIDE DEF h
  <2>2. h \in Int /\ h >= 0 /\ h < Width /\ lo \in Int /\ hi \in Int
    BY <1>1, <2>1 DEF Index
  <2>a. a \in a .. b /\ b \in a .. b
    BY <1>0
  <2>. HIDE DEF lo, hi
  <2>3. \A o \in a .. b : At(k, o) = lo + (o - a)
    <3>1. CASE h + a >= Width
      <4>1. lo = h + a - Width
        BY <2>1, <2>a, <3>1 DEF lo
      <4>2. \A o \in a .. b : h + o >= Width
        BY <1>0, <1>1, <2>2, <3>1
      <4>3. \A o \in a .. b : At(k, o) = h + o - Width
        BY <2>1, <4>2
      <4>4. \A o \in a .. b : h + o - Width = h + a - Width + (o - a)
        BY <1>0, <1>1, <2>2
      <4>. QED
        BY <4>1, <4>3, <4>4
    <3>2. CASE h + a < Width
      <4>1. lo = h + a
        BY <2>1, <2>a, <3>2 DEF lo
      <4>2. h + b < Width
        <5>1. hi = h + b \/ hi = h + b - Width
          BY <2>1, <2>a DEF hi
        <5>2. h + b >= Width => hi = h + b - Width
          BY <2>1, <2>a DEF hi
        <5>3. lo <= hi
          BY <1>4 DEF lo, hi
        <5>. QED
          BY <1>0, <1>1, <2>2, <4>1, <5>1, <5>2, <5>3
      <4>3. \A o \in a .. b : h + o < Width
        BY <1>0, <1>1, <2>2, <4>2
      <4>4. \A o \in a .. b : At(k, o) = h + o
        BY <2>1, <4>3
      <4>5. \A o \in a .. b : h + o = h + a + (o - a)
        BY <1>0, <2>2
      <4>. QED
        BY <4>1, <4>4, <4>5
    <3>. QED
      BY <1>0, <1>1, <2>2, <3>1, <3>2
  <2>4. hi = lo + (b - a)
    BY <2>3, <2>a DEF hi
  <2>5. \A o \in a .. b : item[k][lo + (o - a)] = s[o + 1] /\ s[o + 1] # Absent
    BY <1>2, <2>3 DEF Item
  <2>6. \A n \in 1 .. (b - a + 1) : lo + n - 1 \in lo .. hi /\ f[lo + n - 1] = s[a + n]
    <3>. SUFFICES ASSUME NEW n \in 1 .. (b - a + 1)
                  PROVE  lo + n - 1 \in lo .. hi /\ f[lo + n - 1] = s[a + n]
      OBVIOUS
    <3>. DEFINE o == a + n - 1
    <3>1. o \in a .. b /\ lo + (o - a) = lo + n - 1 /\ o + 1 = a + n /\ lo + n - 1 \in lo .. hi
      BY <1>0, <2>2, <2>4
    <3>2. item[k][lo + (o - a)] = s[o + 1]
      BY <2>5, <3>1
    <3>. HIDE DEF o
    <3>3. item[k][lo + n - 1] = s[a + n]
      BY <3>1, <3>2
    <3>. QED
      BY <3>1, <3>3
  <2>7. \A i \in lo .. hi : f[i] # Absent
    <3>. SUFFICES ASSUME NEW i \in lo .. hi PROVE f[i] # Absent
      OBVIOUS
    <3>. DEFINE o == a + (i - lo)
    <3>1. o \in a .. b /\ lo + (o - a) = i
      BY <1>0, <2>2, <2>4
    <3>. HIDE DEF o
    <3>2. item[k][i] # Absent
      BY <2>5, <3>1
    <3>. QED
      BY <3>2
  <2>8. Scan(k, a, b) = Found(f)
    BY <1>4 DEF Scan, OrderedScan, lo, hi
  <2>9. lo <= hi + 1 /\ hi - lo + 1 = b - a + 1 /\ f = [i \in lo .. hi |-> f[i]]
    BY <1>0, <2>2, <2>4
  <2>. HIDE DEF f
  <2>10. Found(f) = [n \in 1 .. (hi - lo + 1) |-> f[lo + n - 1]]
    <3>1. lo \in Int /\ hi \in Int /\ lo <= hi + 1 /\ f = [i \in lo .. hi |-> f[i]]
      BY <2>2, <2>9
    <3>2. \A x \in lo .. hi : f[x] # Absent
      BY <2>7
    <3>3. \A u, w \in Int : \A e : u <= w + 1 /\ e = [x \in u .. w |-> e[x]] /\ (\A x \in u .. w : e[x] # Absent)
             => Found(e) = [n \in 1 .. (w - u + 1) |-> e[u + n - 1]]
      BY FoundAll
    <3>4. \A e : lo <= hi + 1 /\ e = [x \in lo .. hi |-> e[x]] /\ (\A x \in lo .. hi : e[x] # Absent)
             => Found(e) = [n \in 1 .. (hi - lo + 1) |-> e[lo + n - 1]]
      BY <3>3, <2>2
    <3>5. f = [x \in lo .. hi |-> f[x]]
      BY <3>1
    <3>. QED
      BY <3>1, <3>2, <3>4, <3>5
  <2>. DEFINE g(n) == f[lo + n - 1]
  <2>11. \A n \in 1 .. (b - a + 1) : g(n) = s[a + n]
    BY <2>6
  <2>12. Found(f) = [n \in 1 .. (b - a + 1) |-> g(n)]
    BY <2>9, <2>10
  <2>. HIDE DEF g
  <2>. QED
    BY <1>3, <2>8, <2>11, <2>12
<1>5. CASE ~(At(k, a) <= At(k, b))
  <2>. DEFINE f == [o \in a .. b |-> Item(k, o)]
  <2>1. Scan(k, a, b) = Found(f)
    BY <1>5 DEF Scan
  <2>2. /\ a \in Int /\ b \in Int /\ a <= b + 1
        /\ \A n \in 1 .. (b - a + 1) : a + n - 1 \in a .. b /\ (a + n - 1) + 1 = a + n
    BY <1>0
  <2>3. \A o \in a .. b : f[o] # Absent /\ f[o] = s[o + 1]
    BY <1>2
  <2>4. f = [o \in a .. b |-> f[o]]
    OBVIOUS
  <2>. HIDE DEF f
  <2>5. Found(f) = [n \in 1 .. (b - a + 1) |-> f[a + n - 1]]
    <3>1. \A x \in a .. b : f[x] # Absent
      BY <2>3
    <3>2. \A u, w \in Int : \A e : u <= w + 1 /\ e = [x \in u .. w |-> e[x]] /\ (\A x \in u .. w : e[x] # Absent)
             => Found(e) = [n \in 1 .. (w - u + 1) |-> e[u + n - 1]]
      BY FoundAll
    <3>3. \A e : a <= b + 1 /\ e = [x \in a .. b |-> e[x]] /\ (\A x \in a .. b : e[x] # Absent)
             => Found(e) = [n \in 1 .. (b - a + 1) |-> e[a + n - 1]]
      BY <3>2, <2>2
    <3>. QED
      BY <2>2, <2>4, <3>1, <3>3
  <2>. DEFINE g(n) == f[a + n - 1]
  <2>6. \A n \in 1 .. (b - a + 1) : g(n) = s[a + n]
    BY <2>2, <2>3
  <2>7. Found(f) = [n \in 1 .. (b - a + 1) |-> g(n)]
    BY <2>5
  <2>. HIDE DEF g
  <2>. QED
    BY <1>3, <2>1, <2>6, <2>7
<1>. QED
  BY <1>3, <1>4, <1>5 DEF t

\* linsert, lrem and lpos find an element where it is.
LEMMA MatchesIs ==
    ASSUME ListAssumption, Inv, NEW k \in Keys, Live(k), NEW v
    PROVE  Matches(k, v) = {o \in 0 .. (Size(k) - 1) : Sequence[k][o + 1] = v}
<1>. DEFINE s == Sequence[k]
            z == Size(k)
<1>1. Holds(meta[k], item[k], s) /\ s \in Seq(Values) /\ Len(s) = z /\ z \in 1 .. MaxLen /\ MaxLen \in Nat
  BY LiveHolds DEF ListAssumption
<1>. HIDE DEF s, z
<1>2. 0 \in 0 .. (Len(s) - 1) /\ z - 1 \in 0 .. (Len(s) - 1) /\ (z - 1) + 1 = z /\ 0 + 1 = 1
  BY <1>1
<1>3. Scan(k, 0, z - 1) = s
  <2>. DEFINE a == 0
              b == z - 1
  <2>1. a \in 0 .. (Len(s) - 1) /\ b \in a .. (Len(s) - 1) /\ b + 1 = z /\ a + 1 = 1
    BY <1>1
  <2>. HIDE DEF a, b
  <2>2. Scan(k, a, b) = SubSeq(s, a + 1, b + 1)
    BY <1>1, <2>1, ScanIs
  <2>3. SubSeq(s, 1, Len(s)) = s
    BY <1>1, SubSeqFull
  <2>. QED
    BY <1>1, <2>1, <2>2, <2>3 DEF a, b
<1>4. Matches(k, v) = {o \in 0 .. (z - 1) : o < Len(Scan(k, 0, z - 1)) /\ Scan(k, 0, z - 1)[o + 1] = v}
  BY DEF Matches, Offsets, z
<1>5. \A o \in 0 .. (z - 1) : o < Len(s)
  BY <1>1
<1>. QED
  BY <1>3, <1>4, <1>5 DEF s, z

----------------------------------------------------------------------------
(* The members of a set in their order.                                    *)

\* The n-th member has rank n - 1, and every member comes at its rank.
LEMMA AscendingIs ==
    ASSUME NEW S, S \subseteq Nat, IsFiniteSet(S)
    PROVE  /\ Cardinality(S) \in Nat /\ Len(Ascending(S)) = Cardinality(S)
           /\ \A n \in 1 .. Cardinality(S) :
                 Ascending(S)[n] \in S /\ Cardinality(Below(S, Ascending(S)[n])) = n - 1
           /\ \A x \in S : Cardinality(Below(S, x)) + 1 \in 1 .. Cardinality(S)
                           /\ Ascending(S)[Cardinality(Below(S, x)) + 1] = x
<1>. DEFINE c == Cardinality(S)
            nth(n) == CHOOSE x \in S : Cardinality(Below(S, x)) = n - 1
<1>1. c \in Nat
  BY FS_CardinalityType
<1>2. Ascending(S) = [n \in 1 .. c |-> nth(n)]
  BY DEF Ascending, Below
<1>. HIDE DEF nth, c
<1>3. Len(Ascending(S)) = c
  BY <1>1, <1>2
<1>4. \A x \in S : Cardinality(Below(S, x)) \in Nat /\ Cardinality(Below(S, x)) < c
  <2>. SUFFICES ASSUME NEW x \in S PROVE Cardinality(Below(S, x)) \in Nat /\ Cardinality(Below(S, x)) < c
    OBVIOUS
  <2>1. x \notin Below(S, x) /\ Below(S, x) \cup {x} \subseteq S
    BY BelowIs
  <2>2. Cardinality(Below(S, x) \cup {x}) = Cardinality(Below(S, x)) + 1 /\ Cardinality(Below(S, x)) \in Nat
    BY <2>1, FiniteRank, FS_AddElement
  <2>3. Cardinality(Below(S, x) \cup {x}) <= c
    BY <2>1, FS_Subset DEF c
  <2>. QED
    BY <1>1, <2>2, <2>3
<1>5. \A n \in 1 .. c : \E x \in S : Cardinality(Below(S, x)) = n - 1
  <2>. SUFFICES ASSUME NEW n \in 1 .. c PROVE \E x \in S : Cardinality(Below(S, x)) = n - 1
    OBVIOUS
  <2>. DEFINE m == n - 1
  <2>1. n \in Nat /\ m \in Nat /\ n = m + 1 /\ n <= c
    BY <1>1
  <2>. HIDE DEF m
  <2>2. IsFiniteSet(Firsts(S, n)) /\ Cardinality(Firsts(S, n)) \in 0 .. n /\ (Firsts(S, n) # S => Cardinality(Firsts(S, n)) = n)
    BY <2>1, FirstsSize
  <2>3. IsFiniteSet(Firsts(S, m)) /\ Cardinality(Firsts(S, m)) \in 0 .. m
    BY <2>1, FirstsSize
  <2>4. Cardinality(Firsts(S, n)) = n
    <3>1. CASE Firsts(S, n) = S
      BY <1>1, <2>1, <2>2, <3>1 DEF c
    <3>. QED
      BY <2>2, <3>1
  <2>5. ~(Firsts(S, n) \subseteq Firsts(S, m))
    <3>. SUFFICES ASSUME Firsts(S, n) \subseteq Firsts(S, m) PROVE FALSE
      OBVIOUS
    <3>1. Cardinality(Firsts(S, n)) <= Cardinality(Firsts(S, m))
      BY <2>3, FS_Subset
    <3>. QED
      BY <2>1, <2>3, <2>4, <3>1
  <2>6. PICK x \in Firsts(S, n) : x \notin Firsts(S, m)
    BY <2>5
  <2>7. x \in S /\ Cardinality(Below(S, x)) < n /\ ~(Cardinality(Below(S, x)) < m)
    BY <2>6, FirstsIn
  <2>. QED
    BY <1>4, <2>1, <2>7 DEF m
<1>6. \A n \in 1 .. c : Ascending(S)[n] \in S /\ Cardinality(Below(S, Ascending(S)[n])) = n - 1
  BY <1>2, <1>5 DEF nth
<1>7. \A x, y \in S : Cardinality(Below(S, x)) = Cardinality(Below(S, y)) => x = y
  <2>. SUFFICES ASSUME NEW x \in S, NEW y \in S, x # y
                PROVE  Cardinality(Below(S, x)) # Cardinality(Below(S, y))
    OBVIOUS
  <2>1. x \in Nat /\ y \in Nat
    OBVIOUS
  <2>2. x < y => Cardinality(Below(S, x)) < Cardinality(Below(S, y))
    BY <2>1, RankOrder
  <2>3. y < x => Cardinality(Below(S, y)) < Cardinality(Below(S, x))
    BY <2>1, RankOrder
  <2>4. Cardinality(Below(S, x)) \in Nat /\ Cardinality(Below(S, y)) \in Nat /\ (x < y \/ y < x)
    BY <1>4, <2>1
  <2>. QED
    BY <2>2, <2>3, <2>4
<1>8. \A x \in S : Cardinality(Below(S, x)) + 1 \in 1 .. c /\ (Cardinality(Below(S, x)) + 1) - 1 = Cardinality(Below(S, x))
  BY <1>1, <1>4
<1>9. \A x \in S : Ascending(S)[Cardinality(Below(S, x)) + 1] = x
  <2>. SUFFICES ASSUME NEW x \in S PROVE Ascending(S)[Cardinality(Below(S, x)) + 1] = x
    OBVIOUS
  <2>. DEFINE n == Cardinality(Below(S, x)) + 1
  <2>1. n \in 1 .. c /\ n - 1 = Cardinality(Below(S, x))
    BY <1>8
  <2>. HIDE DEF n
  <2>2. Ascending(S)[n] \in S /\ Cardinality(Below(S, Ascending(S)[n])) = Cardinality(Below(S, x))
    BY <1>6, <2>1
  <2>3. Ascending(S)[n] = x
    BY <1>7, <2>2
  <2>. QED
    BY <2>3 DEF n
<1>. QED
  BY <1>1, <1>3, <1>6, <1>8, <1>9 DEF c

\* Positions are offsets moved up by one: as many, and in the same order.
Up(S) == {o + 1 : o \in S}

\* Offsets and positions are equally many.
LEMMA UpSize ==
    ASSUME NEW S, S \subseteq Nat, IsFiniteSet(S)
    PROVE  Up(S) \subseteq Nat /\ IsFiniteSet(Up(S)) /\ Cardinality(Up(S)) = Cardinality(S)
<1>. DEFINE f == [x \in S |-> x + 1]
<1>1. \A x \in S : x \in Nat
  OBVIOUS
<1>2. f \in [S -> Up(S)] /\ \A y \in Up(S) : \E x \in S : f[x] = y
  BY DEF Up
<1>3. \A x, y \in S : f[x] = f[y] => x = y
  BY <1>1
<1>4. f \in Bijection(S, Up(S))
  BY <1>2, <1>3 DEF Bijection, Injection, Surjection, IsInjective
<1>5. IsFiniteSet(Up(S)) /\ Cardinality(Up(S)) = Cardinality(S)
  <2>1. ExistsBijection(S, Up(S))
    BY <1>4 DEF ExistsBijection
  <2>. QED
    BY <2>1, FS_Bijection
<1>6. Up(S) \subseteq Nat
  BY <1>1 DEF Up
<1>. QED
  BY <1>5, <1>6

\* Offsets and positions are in the same order.
LEMMA AscendingUp ==
    ASSUME NEW S, S \subseteq Nat, IsFiniteSet(S)
    PROVE  /\ Len(Ascending(Up(S))) = Cardinality(S)
           /\ \A n \in 1 .. Cardinality(S) : Ascending(Up(S))[n] = Ascending(S)[n] + 1
<1>. DEFINE U == Up(S)
<1>1. U \subseteq Nat /\ IsFiniteSet(U) /\ Cardinality(U) = Cardinality(S)
  BY UpSize
<1>2. \A x \in S : x \in Nat /\ x + 1 \in U /\ Below(U, x + 1) = Up(Below(S, x))
  <2>. SUFFICES ASSUME NEW x \in S PROVE x \in Nat /\ x + 1 \in U /\ Below(U, x + 1) = Up(Below(S, x))
    OBVIOUS
  <2>1. \A y \in S : y \in Nat /\ (y + 1 < x + 1 <=> y < x)
    OBVIOUS
  <2>. QED
    BY <2>1 DEF Up, Below
<1>3. \A x \in S : Cardinality(Below(U, x + 1)) = Cardinality(Below(S, x))
  <2>. SUFFICES ASSUME NEW x \in S PROVE Cardinality(Below(U, x + 1)) = Cardinality(Below(S, x))
    OBVIOUS
  <2>1. Below(S, x) \subseteq Nat /\ IsFiniteSet(Below(S, x))
    BY FiniteRank DEF Below
  <2>2. Cardinality(Up(Below(S, x))) = Cardinality(Below(S, x))
    BY <2>1, UpSize
  <2>. QED
    BY <1>2, <2>2
<1>. HIDE DEF U
<1>4. /\ Len(Ascending(U)) = Cardinality(U)
      /\ \A y \in U : Ascending(U)[Cardinality(Below(U, y)) + 1] = y
  BY <1>1, AscendingIs
<1>5. /\ Cardinality(S) \in Nat
      /\ \A n \in 1 .. Cardinality(S) : Ascending(S)[n] \in S /\ Cardinality(Below(S, Ascending(S)[n])) = n - 1
  BY AscendingIs
<1>6. ASSUME NEW n \in 1 .. Cardinality(S) PROVE Ascending(U)[n] = Ascending(S)[n] + 1
  <2>. DEFINE x == Ascending(S)[n]
  <2>1. x \in S /\ Cardinality(Below(S, x)) = n - 1 /\ (n - 1) + 1 = n
    BY <1>5
  <2>. HIDE DEF x
  <2>2. x + 1 \in U /\ Cardinality(Below(U, x + 1)) = n - 1
    BY <1>2, <1>3, <2>1
  <2>3. Ascending(U)[(n - 1) + 1] = x + 1
    BY <1>4, <2>2
  <2>. QED
    BY <2>1, <2>3 DEF x
<1>. QED
  BY <1>1, <1>4, <1>6 DEF U

----------------------------------------------------------------------------
(* Inserting.                                                              *)

\* The elements of a sequence after an insertion.
LEMMA InsertedIs ==
    ASSUME NEW s \in Seq(Values), NEW at \in 0 .. Len(s), NEW v \in Values
    PROVE  /\ Lists!InsertAt(s, at + 1, v) \in Seq(Values)
           /\ Len(Lists!InsertAt(s, at + 1, v)) = Len(s) + 1
           /\ \A x \in 1 .. (Len(s) + 1) :
                 /\ x < at + 1 => Lists!InsertAt(s, at + 1, v)[x] = s[x]
                 /\ x = at + 1 => Lists!InsertAt(s, at + 1, v)[x] = v
                 /\ x > at + 1 => Lists!InsertAt(s, at + 1, v)[x] = s[x - 1]
<1>. DEFINE z == Len(s)
            p == at + 1
            l == SubSeq(s, 1, p - 1)
            e == <<v>>
            r == SubSeq(s, p, Len(s))
            t == Lists!InsertAt(s, p, v)
<1>1. z \in Nat /\ at \in Int /\ 0 <= at /\ at <= z
  BY LenProperties
<1>2. t = (l \o e) \o r
  BY DEF Lists!InsertAt
<1>3. l \in Seq(Values) /\ Len(l) = at /\ \A x \in 1 .. at : l[x] = s[x]
  <2>. DEFINE a == 1
              b == p - 1
  <2>1. a \in 1 .. (z + 1) /\ b \in 0 .. z /\ a <= b + 1 /\ b - a + 1 = at /\ \A x \in 1 .. at : a + x - 1 = x
    BY <1>1
  <2>. HIDE DEF a, b
  <2>2. SubSeq(s, a, b) \in Seq(Values) /\ Len(SubSeq(s, a, b)) = b - a + 1
        /\ \A x \in 1 .. (b - a + 1) : SubSeq(s, a, b)[x] = s[a + x - 1]
    BY <2>1, Stretch DEF z
  <2>. QED
    BY <2>1, <2>2 DEF a, b
<1>4. r \in Seq(Values) /\ Len(r) = z - at /\ \A x \in 1 .. (z - at) : r[x] = s[at + x]
  <2>1. p \in 1 .. (z + 1) /\ z \in 0 .. z /\ p <= z + 1 /\ z - p + 1 = z - at
        /\ \A x \in 1 .. (z - at) : p + x - 1 = at + x
    BY <1>1
  <2>. HIDE DEF p
  <2>2. SubSeq(s, p, z) \in Seq(Values) /\ Len(SubSeq(s, p, z)) = z - p + 1
        /\ \A x \in 1 .. (z - p + 1) : SubSeq(s, p, z)[x] = s[p + x - 1]
    BY <2>1, Stretch DEF z
  <2>. QED
    BY <2>1, <2>2
<1>5. e \in Seq(Values) /\ Len(e) = 1 /\ e[1] = v
  OBVIOUS
<1>. HIDE DEF z, p, l, e, r, t
<1>6. l \o e \in Seq(Values) /\ Len(l \o e) = at + 1
      /\ \A x \in 1 .. (at + 1) : (l \o e)[x] = IF x <= at THEN l[x] ELSE e[x - at]
  <2>1. l \o e \in Seq(Values) /\ Len(l \o e) = Len(l) + Len(e)
        /\ \A x \in 1 .. Len(l) + Len(e) : (l \o e)[x] = IF x <= Len(l) THEN l[x] ELSE e[x - Len(l)]
    BY <1>3, <1>5, ConcatProperties
  <2>. QED
    BY <1>3, <1>5, <2>1
<1>7. t \in Seq(Values) /\ Len(t) = (at + 1) + (z - at)
      /\ \A x \in 1 .. ((at + 1) + (z - at)) : t[x] = IF x <= at + 1 THEN (l \o e)[x] ELSE r[x - (at + 1)]
  <2>. DEFINE le == l \o e
  <2>1. le \in Seq(Values) /\ Len(le) = at + 1 /\ t = le \o r
    BY <1>2, <1>6
  <2>. HIDE DEF le
  <2>2. le \o r \in Seq(Values) /\ Len(le \o r) = Len(le) + Len(r)
        /\ \A x \in 1 .. Len(le) + Len(r) : (le \o r)[x] = IF x <= Len(le) THEN le[x] ELSE r[x - Len(le)]
    BY <1>4, <2>1, ConcatProperties
  <2>. QED
    BY <1>4, <2>1, <2>2 DEF le
<1>8. (at + 1) + (z - at) = z + 1
  BY <1>1
<1>9. ASSUME NEW x \in 1 .. (z + 1)
      PROVE  (x < p => t[x] = s[x]) /\ (x = p => t[x] = v) /\ (x > p => t[x] = s[x - 1])
  <2>1. x \in Int /\ 1 <= x /\ x <= z + 1 /\ p = at + 1
    BY <1>1 DEF p
  <2>2. t[x] = IF x <= at + 1 THEN (l \o e)[x] ELSE r[x - (at + 1)]
    BY <1>7, <1>8
  <2>3. ASSUME x < p PROVE t[x] = s[x]
    <3>1. x \in 1 .. (at + 1) /\ x \in 1 .. at /\ x <= at /\ x <= at + 1
      BY <1>1, <2>1, <2>3
    <3>. QED
      BY <1>3, <1>6, <2>2, <3>1
  <2>4. ASSUME x = p PROVE t[x] = v
    <3>1. x \in 1 .. (at + 1) /\ ~(x <= at) /\ x - at = 1 /\ x <= at + 1
      BY <1>1, <2>1, <2>4
    <3>2. (l \o e)[x] = e[x - at]
      BY <1>6, <3>1
    <3>. QED
      BY <1>5, <2>2, <3>1, <3>2
  <2>5. ASSUME x > p PROVE t[x] = s[x - 1]
    <3>1. ~(x <= at + 1) /\ x - (at + 1) \in 1 .. (z - at) /\ at + (x - (at + 1)) = x - 1
      BY <1>1, <2>1, <2>5
    <3>. QED
      BY <1>4, <2>2, <3>1
  <2>. QED
    BY <2>3, <2>4, <2>5
<1>. QED
  BY <1>7, <1>8, <1>9 DEF t, p, z

\* The item at index i after a shift.
LEMMA ShiftedIs ==
    ASSUME NEW k, NEW S, NEW d, NEW o, NEW v, NEW i \in Index
    PROVE  /\ i = At(k, o) => Shifted(k, S, d, o, v)[i] = v
           /\ \A x \in S :
                 i # At(k, o) /\ Item(k, x) # Absent /\ (\A y \in S : At(k, y + d) = i <=> y = x)
                    => Shifted(k, S, d, o, v)[i] = Item(k, x)
           /\ i # At(k, o) /\ (\A x \in S : At(k, x + d) # i) => Shifted(k, S, d, o, v)[i] = item[k][i]
<1>. DEFINE D == {At(k, x + d) : x \in S}
            to == [p \in D |-> CHOOSE x \in S : At(k, x + d) = p]
<1>1. Shifted(k, S, d, o, v)[i] = IF i = At(k, o) THEN v
                                  ELSE IF i \in D /\ Item(k, to[i]) # Absent THEN Item(k, to[i])
                                  ELSE item[k][i]
  BY DEF Shifted
<1>2. ASSUME NEW x \in S, \A y \in S : At(k, y + d) = i <=> y = x
      PROVE  i \in D /\ to[i] = x
  <2>1. At(k, x + d) = i
    BY <1>2
  <2>2. i \in D
    BY <2>1
  <2>3. to[i] = CHOOSE y \in S : At(k, y + d) = i
    BY <2>2
  <2>4. \A y \in S : At(k, y + d) = i => y = x
    BY <1>2
  <2>5. (CHOOSE y \in S : At(k, y + d) = i) = x
    BY <2>1, <2>4
  <2>. QED
    BY <2>2, <2>3, <2>5
<1>3. (\A x \in S : At(k, x + d) # i) => i \notin D
  OBVIOUS
<1>. HIDE DEF D, to
<1>4. ASSUME NEW x \in S, i # At(k, o), Item(k, x) # Absent, \A y \in S : At(k, y + d) = i <=> y = x
      PROVE  Shifted(k, S, d, o, v)[i] = Item(k, x)
  BY <1>1, <1>2, <1>4
<1>. QED
  BY <1>1, <1>3, <1>4

\* Offsets from a head that has moved down by one.
LEMMA OneDown ==
    ASSUME ListAssumption, NEW h \in Index
    PROVE  /\ \A o \in (-1) .. (Width - 2) : Add(h, o) = Add(Add(h, -1), o + 1)
           /\ \A i \in Index : Off(Add(h, -1), i) = Add(Off(h, i), 1)
<1>. DEFINE n == 1
<1>0. Width \in Nat /\ Width > 0
  BY DEF ListAssumption
<1>1. n \in Int /\ n = 1 /\ -n \in (-Width) .. Width
  BY <1>0
<1>2. \A o \in (-1) .. (Width - 2) :
         o \in (-Width) .. Width /\ o + 1 \in (-Width) .. Width /\ (-n) + (o + 1) = o
  BY <1>0
<1>. HIDE DEF n
<1>3. \A o \in (-1) .. (Width - 2) : Add(Add(h, -n), o + 1) = Add(h, (-n) + (o + 1))
  BY <1>1, <1>2, AddAdd
<1>4. \A i \in Index : Off(Add(h, -n), i) = Add(Off(h, i), -(-n))
  BY <1>1, OffMoved
<1>5. -(-n) = n
  <2>1. \A j \in Int : -(-j) = j
    OBVIOUS
  <2>. QED
    BY <1>1, <2>1
<1>. QED
  BY <1>1, <1>2, <1>3, <1>4, <1>5 DEF n

\* In the first half, the elements before the new one move down.
LEMMA InsertedLeft ==
    ASSUME ListAssumption, NEW k, NEW s, Holds(meta[k], item[k], s), Len(s) < MaxLen,
           NEW at \in 0 .. Len(s), NEW v \in Values
    PROVE  Holds([meta[k] EXCEPT !.head = Add(@, -1), !.size = @ + 1],
                 Shifted(k, 0 .. (at - 1), -1, at - 1, v), Lists!InsertAt(s, at + 1, v))
<1>. DEFINE h == meta[k].head
            z == Len(s)
            g == Add(h, -1)
            p == [meta[k] EXCEPT !.head = Add(@, -1), !.size = @ + 1]
            items == Shifted(k, 0 .. (at - 1), -1, at - 1, v)
            t == Lists!InsertAt(s, at + 1, v)
<1>1. /\ h \in Index /\ z \in Nat /\ z < MaxLen /\ MaxLen \in Nat /\ Width \in Nat /\ MaxLen < Width
      /\ meta[k] \in Metas /\ meta[k].size = z /\ s \in Seq(Values) /\ \A x \in 1 .. z : s[x] # Absent
      /\ meta[k].tail = Add(h, z)
  BY HoldsSize DEF Holds
<1>2. /\ t \in Seq(Values) /\ Len(t) = z + 1
      /\ \A x \in 1 .. (z + 1) : (x < at + 1 => t[x] = s[x]) /\ (x = at + 1 => t[x] = v)
                                 /\ (x > at + 1 => t[x] = s[x - 1])
  BY <1>1, InsertedIs
<1>3. at \in Nat /\ at <= z
  BY <1>1
<1>4. -1 \in (-Width) .. Width /\ 1 \in (-Width) .. Width /\ 0 \in (-Width) .. Width
  BY <1>1
<1>. HIDE DEF z, t
<1>5. p \in Metas /\ p.head = g /\ p.size = z + 1 /\ p.tail = Add(g, z + 1) /\ g \in Index
  <2>1. g \in Index
    BY <1>1, <1>4, AddIs
  <2>2. Add(g, z + 1) = Add(h, z)
    <3>1. z \in (-1) .. (Width - 2)
      BY <1>1
    <3>. QED
      BY <1>1, <3>1, OneDown
  <2>3. z + 1 \in 0 .. MaxLen
    BY <1>1
  <2>. HIDE DEF g
  <2>4. p = [meta[k] EXCEPT !.head = g, !.size = z + 1]
    BY <1>1 DEF g
  <2>. QED
    BY <1>1, <2>1, <2>2, <2>3, <2>4 DEF Metas
<1>6. \A o \in (-1) .. (z - 1) : At(k, o) = Add(g, o + 1)
  <2>. SUFFICES ASSUME NEW o \in (-1) .. (z - 1) PROVE At(k, o) = Add(g, o + 1)
    OBVIOUS
  <2>1. o \in (-1) .. (Width - 2)
    BY <1>1
  <2>. QED
    BY <1>1, <2>1, OneDown DEF At
<1>7. ASSUME NEW i \in Index
      PROVE  items[i] = IF Off(g, i) < Len(t) THEN t[Off(g, i) + 1] ELSE Absent
  <2>. DEFINE x == Off(h, i)
              y == Off(g, i)
  <2>1. /\ x \in Nat /\ x < Width /\ x \in Index /\ item[k][i] = IF x < z THEN s[x + 1] ELSE Absent
        /\ \A o \in 0 .. (Width - 1) : At(k, o) = i <=> x = o
    BY <1>1, AtIs, OffIs DEF z
  <2>2. y \in Index /\ y \in Nat /\ y < Width /\ \A o \in Index : Add(g, o) = i <=> y = o
    <3>1. y \in Index /\ \A o \in Index : Add(g, o) = i <=> y = o
      BY <1>5, OffIs
    <3>. HIDE DEF y
    <3>. QED
      BY <1>1, <3>1 DEF Index
  <2>3. y = Add(x, 1)
    BY <1>1, OneDown
  <2>. HIDE DEF h, x, y, g
  <2>4. y > 0 => x = y - 1
    <3>1. x + 1 \in Index => y = x + 1
      BY <1>4, <2>1, <2>3, AddIs
    <3>2. x + 1 >= Width => y = x + 1 - Width
      BY <1>4, <2>1, <2>3, AddIs
    <3>3. x + 1 \in Index \/ x + 1 >= Width
      BY <1>1, <2>1 DEF Index
    <3>. QED
      BY <1>1, <2>1, <2>2, <3>1, <3>2, <3>3
  <2>5. \A o \in (-1) .. (z - 1) : At(k, o) = i <=> o = y - 1
    <3>1. \A o \in (-1) .. (z - 1) : o + 1 \in Index
      BY <1>1 DEF Index
    <3>2. \A o \in (-1) .. (z - 1) : At(k, o) = i <=> y = o + 1
      BY <1>6, <2>2, <3>1
    <3>. QED
      BY <2>2, <3>2
  <2>6. i = At(k, at - 1) <=> y = at
    <3>1. at - 1 \in (-1) .. (z - 1)
      BY <1>1, <1>3
    <3>. QED
      BY <1>3, <2>2, <2>5, <3>1
  <2>7. \A w \in 0 .. (at - 1) : At(k, w + (-1)) = i <=> w = y
    <3>1. \A w \in 0 .. (at - 1) : w + (-1) \in (-1) .. (z - 1) /\ (w + (-1) = y - 1 <=> w = y)
      BY <1>1, <1>3, <2>2
    <3>. QED
      BY <2>5, <3>1
  <2>8. CASE y = at
    <3>1. items[i] = v
      BY <2>6, <2>8, ShiftedIs
    <3>2. y + 1 = at + 1 /\ y + 1 \in 1 .. (z + 1) /\ y < Len(t)
      BY <1>1, <1>2, <1>3, <2>2, <2>8
    <3>3. t[y + 1] = v
      BY <1>2, <3>2
    <3>. QED
      BY <3>1, <3>2, <3>3 DEF y
  <2>9. CASE y < at
    <3>1. y \in 0 .. (at - 1) /\ y \in 0 .. (Width - 1) /\ y < z /\ y + 1 \in 1 .. z /\ y + 1 \in 1 .. (z + 1)
          /\ y + 1 < at + 1 /\ y < z + 1 /\ y # at
      BY <1>1, <1>3, <2>2, <2>9
    <3>2. Item(k, y) = s[y + 1]
      <4>1. items = items /\ y < meta[k].size
        BY <1>1, <3>1
      <4>. QED
        BY <2>2, <4>1, HoldsAt DEF Item, At
    <3>3. items[i] = Item(k, y)
      <4>1. i # At(k, at - 1) /\ Item(k, y) # Absent
        BY <1>1, <2>6, <3>1, <3>2
      <4>. QED
        BY SMTT(30), <2>7, <3>1, <4>1, ShiftedIs
    <3>4. t[y + 1] = s[y + 1] /\ y < Len(t)
      BY <1>2, <3>1
    <3>. QED
      BY <3>2, <3>3, <3>4 DEF y
  <2>10. CASE y > at
    <3>1. x = y - 1 /\ y # at /\ \A w \in 0 .. (at - 1) : w # y
      BY <1>3, <2>2, <2>4, <2>10
    <3>2. items[i] = item[k][i]
      BY <2>6, <2>7, <3>1, ShiftedIs
    <3>3. x < z <=> y < Len(t)
      BY <1>1, <1>2, <2>1, <2>2, <3>1
    <3>4. ASSUME x < z PROVE t[y + 1] = s[x + 1]
      <4>1. y + 1 \in 1 .. (z + 1) /\ y + 1 > at + 1 /\ (y + 1) - 1 = x + 1
        BY <1>1, <1>3, <2>1, <2>2, <2>10, <3>1, <3>4
      <4>. QED
        BY <1>2, <4>1
    <3>. QED
      BY <2>1, <3>2, <3>3, <3>4 DEF y
  <2>. QED
    BY <1>3, <2>2, <2>8, <2>9, <2>10
<1>8. items = [i \in Index |-> items[i]]
  BY DEF Shifted
<1>. HIDE DEF items, p, g
<1>9. items = Laid(p.head, t)
  BY <1>5, <1>7, <1>8 DEF Laid
<1>10. Holds(p, items, t)
  BY <1>1, <1>2, <1>5, <1>9 DEF Holds
<1>. QED
  BY <1>10 DEF p, items, t

\* In the second half, the elements after it move up.
LEMMA InsertedRight ==
    ASSUME ListAssumption, NEW k, NEW s, Holds(meta[k], item[k], s), Len(s) < MaxLen,
           NEW at \in 0 .. Len(s), NEW v \in Values
    PROVE  Holds([meta[k] EXCEPT !.tail = Add(@, 1), !.size = @ + 1],
                 Shifted(k, at .. (Size(k) - 1), 1, at, v), Lists!InsertAt(s, at + 1, v))
<1>. DEFINE h == meta[k].head
            z == Len(s)
            p == [meta[k] EXCEPT !.tail = Add(@, 1), !.size = @ + 1]
            items == Shifted(k, at .. (z - 1), 1, at, v)
            t == Lists!InsertAt(s, at + 1, v)
<1>1. /\ h \in Index /\ z \in Nat /\ z < MaxLen /\ MaxLen \in Nat /\ Width \in Nat /\ MaxLen < Width
      /\ meta[k] \in Metas /\ meta[k].size = z /\ s \in Seq(Values) /\ \A x \in 1 .. z : s[x] # Absent
      /\ meta[k].tail = Add(h, z)
  BY HoldsSize DEF Holds
<1>2. /\ t \in Seq(Values) /\ Len(t) = z + 1
      /\ \A x \in 1 .. (z + 1) : (x < at + 1 => t[x] = s[x]) /\ (x = at + 1 => t[x] = v)
                                 /\ (x > at + 1 => t[x] = s[x - 1])
  BY <1>1, InsertedIs
<1>3. at \in Nat /\ at <= z
  BY <1>1
<1>. HIDE DEF z, t
<1>5. p \in Metas /\ p.head = h /\ p.size = z + 1 /\ p.tail = Add(h, z + 1)
  <2>1. Add(Add(h, z), 1) = Add(h, z + 1) /\ Add(h, z + 1) \in Index
    <3>1. z + 1 \in (-Width) .. Width /\ z \in (-Width) .. Width /\ 1 \in (-Width) .. Width
      BY <1>1
    <3>. QED
      BY <1>1, <3>1, AddAdd, AddIs
  <2>2. z + 1 \in 0 .. MaxLen
    BY <1>1
  <2>. HIDE DEF h
  <2>3. p = [meta[k] EXCEPT !.tail = Add(h, z + 1), !.size = z + 1]
    BY <1>1, <2>1
  <2>. QED
    BY <1>1, <2>1, <2>2, <2>3 DEF Metas, h
<1>7. ASSUME NEW i \in Index
      PROVE  items[i] = IF Off(h, i) < Len(t) THEN t[Off(h, i) + 1] ELSE Absent
  <2>. DEFINE x == Off(h, i)
  <2>1. /\ x \in Nat /\ x < Width /\ x \in Index /\ item[k][i] = IF x < z THEN s[x + 1] ELSE Absent
        /\ \A o \in 0 .. (Width - 1) : At(k, o) = i <=> x = o
    BY <1>1, AtIs, OffIs DEF z
  <2>. HIDE DEF x
  <2>6. i = At(k, at) <=> x = at
    <3>1. at \in 0 .. (Width - 1)
      BY <1>1, <1>3
    <3>. QED
      BY <2>1, <3>1
  <2>7. \A w \in at .. (z - 1) : At(k, w + 1) = i <=> w = x - 1
    <3>1. \A w \in at .. (z - 1) : w + 1 \in 0 .. (Width - 1) /\ (x = w + 1 <=> w = x - 1)
      BY <1>1, <1>3, <2>1
    <3>. QED
      BY <2>1, <3>1
  <2>. DEFINE S == at .. (z - 1)
              one == 1
              moved == Shifted(k, S, one, at, v)
  <2>a. /\ i = At(k, at) => items[i] = v
        /\ i # At(k, at) /\ (\A w \in S : At(k, w + one) # i) => items[i] = item[k][i]
    <3>. HIDE DEF S, one
    <3>1. /\ i = At(k, at) => moved[i] = v
          /\ i # At(k, at) /\ (\A w \in S : At(k, w + one) # i) => moved[i] = item[k][i]
      BY ShiftedIs
    <3>. QED
      BY <3>1 DEF S, one
  <2>b. ASSUME NEW w \in S, i # At(k, at), Item(k, w) # Absent,
               \A y \in S : At(k, y + one) = i <=> y = w
        PROVE  items[i] = Item(k, w)
    <3>. HIDE DEF S, one
    <3>1. moved[i] = Item(k, w)
      BY <2>b, ShiftedIs
    <3>. QED
      BY <3>1 DEF S, one
  <2>. HIDE DEF items
  <2>8. CASE x = at
    <3>1. items[i] = v
      BY <2>6, <2>8, <2>a
    <3>2. x + 1 = at + 1 /\ x + 1 \in 1 .. (z + 1) /\ x < Len(t)
      BY <1>1, <1>2, <1>3, <2>1, <2>8
    <3>3. t[x + 1] = v
      BY <1>2, <3>2
    <3>. QED
      BY <3>1, <3>2, <3>3 DEF x
  <2>9. CASE x > at /\ x <= z
    <3>. DEFINE y == x - 1
    <3>1. y \in at .. (z - 1) /\ y \in 0 .. (Width - 1) /\ y < z /\ y + 1 \in 1 .. z /\ x + 1 \in 1 .. (z + 1)
          /\ x + 1 > at + 1 /\ x < z + 1 /\ x # at /\ (x + 1) - 1 = y + 1
      BY <1>1, <1>3, <2>1, <2>9
    <3>5. \A w \in at .. (z - 1) : At(k, w + 1) = i <=> w = y
      BY <2>7
    <3>. HIDE DEF y
    <3>2. Item(k, y) = s[y + 1]
      <4>1. y \in Index /\ y < meta[k].size
        BY <1>1, <3>1 DEF Index
      <4>. QED
        BY <4>1, HoldsAt DEF Item, At
    <3>3. items[i] = Item(k, y)
      <4>1. i # At(k, at) /\ Item(k, y) # Absent
        BY <1>1, <2>6, <3>1, <3>2
      <4>. QED
        BY <3>1, <3>5, <4>1, <2>b
    <3>4. t[x + 1] = s[y + 1] /\ x < Len(t)
      BY <1>2, <3>1
    <3>. QED
      BY <3>2, <3>3, <3>4 DEF x
  <2>10. CASE x < at \/ x > z
    <3>1. x # at /\ \A w \in at .. (z - 1) : w # x - 1
      BY <1>1, <1>3, <2>1, <2>10
    <3>2. items[i] = item[k][i]
      BY <2>6, <2>7, <3>1, <2>a
    <3>3. x < z <=> x < Len(t)
      BY <1>1, <1>2, <1>3, <2>1, <2>10
    <3>4. ASSUME x < z PROVE t[x + 1] = s[x + 1]
      <4>1. x + 1 \in 1 .. (z + 1) /\ x + 1 < at + 1
        BY <1>1, <1>3, <2>1, <2>10, <3>4
      <4>. QED
        BY <1>2, <4>1
    <3>. QED
      BY <2>1, <3>2, <3>3, <3>4 DEF x
  <2>. QED
    BY <1>1, <1>3, <2>1, <2>8, <2>9, <2>10
<1>8. items = [i \in Index |-> items[i]]
  BY DEF Shifted
<1>. HIDE DEF items, p
<1>9. items = Laid(p.head, t)
  BY <1>5, <1>7, <1>8 DEF Laid
<1>10. Holds(p, items, t)
  BY <1>1, <1>2, <1>5, <1>9 DEF Holds
<1>11. Size(k) = z
  BY <1>1 DEF Size
<1>. QED
  BY <1>10, <1>11 DEF p, items, t

\* An insertion at an offset, whichever side moved.
LEMMA InsertAtStep ==
    ASSUME ListAssumption, Inv, NEW k \in Keys, Live(k), Size(k) < MaxLen,
           NEW at \in 0 .. Size(k), NEW v \in Values, LInsertAt(k, at, v)
    PROVE  Inv' /\ Lists!Put(k, Lists!InsertAt(Sequence[k], at + 1, v), <<Len(Sequence[k]) + 1>>)
<1>. DEFINE s == Sequence[k]
            low == [meta[k] EXCEPT !.head = Add(@, -1), !.size = @ + 1]
            high == [meta[k] EXCEPT !.tail = Add(@, 1), !.size = @ + 1]
            lowItems == Shifted(k, 0 .. (at - 1), -1, at - 1, v)
            highItems == Shifted(k, at .. (Size(k) - 1), 1, at, v)
            t == Lists!InsertAt(s, at + 1, v)
<1>1. Holds(meta[k], item[k], s) /\ Len(s) = Size(k) /\ Len(s) < MaxLen /\ at \in 0 .. Len(s)
  BY LiveHolds
<1>2. ~low.lapsed /\ ~high.lapsed
  <2>1. meta[k] \in Metas /\ ~meta[k].lapsed
    BY <1>1 DEF Holds, Live
  <2>. QED
    BY <2>1 DEF Metas
<1>3. Holds(low, lowItems, t) /\ Holds(high, highItems, t)
  BY <1>1, InsertedLeft, InsertedRight
<1>4. Commit(k, low, lowItems, <<Len(s) + 1>>) \/ Commit(k, high, highItems, <<Len(s) + 1>>)
  BY <1>1 DEF LInsertAt
<1>. HIDE DEF low, high, lowItems, highItems, t, s
<1>5. Inv' /\ Lists!Put(k, t, <<Len(s) + 1>>)
  BY <1>2, <1>3, <1>4, Committed
<1>. QED
  BY <1>5 DEF t, s

\* LINSERT, before or after the first match, or without one.
LEMMA InsertStep ==
    ASSUME ListAssumption, Inv, NEW k \in Keys, NEW before \in BOOLEAN, NEW pivot \in Values, NEW v \in Values,
           LInsert(k, before, pivot, v)
    PROVE  Inv' /\ Lists!LInsert(k, before, pivot, v)
<1>. DEFINE s == Sequence[k]
            z == Size(k)
            M == Matches(k, pivot)
            at == {p \in 1 .. Len(s) : s[p] = pivot /\ \A q \in 1 .. (p - 1) : s[q] # pivot}
<1>1. CASE ~Live(k)
  <2>1. s = <<>> /\ Inv' /\ UNCHANGED Sequence /\ ret' = <<0>>
    BY <1>1, SequenceIs, Replied DEF LInsert, Reply
  <2>2. at = {}
    BY <2>1
  <2>. QED
    BY <2>1, <2>2 DEF Lists!LInsert, Lists!Keep
<1>2. CASE Live(k)
  <2>1. Holds(meta[k], item[k], s) /\ Len(s) = z /\ z \in 1 .. MaxLen /\ MaxLen \in Nat /\ s # <<>>
    BY <1>2, LiveHolds DEF ListAssumption
  <2>2. M = {o \in 0 .. (z - 1) : s[o + 1] = pivot}
    BY <1>2, MatchesIs
  <2>. HIDE DEF M, s, z
  <2>3. CASE M = {}
    <3>1. Inv' /\ UNCHANGED Sequence /\ ret' = <<-1>>
      BY <1>2, <2>3, Replied DEF LInsert, Reply, M
    <3>2. at = {}
      <4>. SUFFICES ASSUME NEW p \in 1 .. Len(s), s[p] = pivot PROVE FALSE
        OBVIOUS
      <4>. DEFINE o == p - 1
      <4>1. o \in 0 .. (z - 1) /\ o + 1 = p
        BY <2>1
      <4>. HIDE DEF o
      <4>. QED
        BY <2>2, <2>3, <4>1
    <3>. QED
      BY <2>1, <3>1, <3>2 DEF Lists!LInsert, Lists!Keep, s
  <2>4. CASE M # {}
    <3>. DEFINE first == Ascending(M)[1]
                to == IF before THEN first ELSE first + 1
    <3>1. z < MaxLen /\ LInsertAt(k, to, v)
      BY <1>2, <2>4 DEF LInsert, M, z
    <3>2. M \subseteq Nat /\ IsFiniteSet(M)
      <4>1. IsFiniteSet(0 .. (z - 1))
        BY <2>1, FS_Interval
      <4>2. M \subseteq 0 .. (z - 1) /\ 0 .. (z - 1) \subseteq Nat
        BY <2>1, <2>2
      <4>. QED
        BY <4>1, <4>2, FS_Subset
    <3>3. first \in M /\ \A o \in M : ~(o < first)
      <4>1. Cardinality(M) \in Nat /\ Cardinality(M) # 0
        BY <2>4, <3>2, FS_EmptySet, FS_CardinalityType
      <4>2. 1 \in 1 .. Cardinality(M)
        BY <4>1
      <4>3. first \in M /\ Cardinality(Below(M, first)) = 1 - 1
        BY <3>2, <4>2, AscendingIs
      <4>. HIDE DEF first
      <4>4. Below(M, first) = {}
        BY <3>2, <4>3, FiniteRank, FS_EmptySet
      <4>. QED
        BY <4>3, <4>4 DEF Below
    <3>. HIDE DEF first
    <3>4. first \in 0 .. (z - 1) /\ s[first + 1] = pivot
      BY <2>2, <3>3
    <3>. DEFINE p == first + 1
    <3>5. p \in at
      <4>1. p \in 1 .. Len(s) /\ s[p] = pivot
        BY <2>1, <3>4
      <4>2. ASSUME NEW q \in 1 .. (p - 1), s[q] = pivot PROVE FALSE
        <5>. DEFINE o == q - 1
        <5>1. o \in 0 .. (z - 1) /\ o + 1 = q /\ o < first
          BY <2>1, <3>4
        <5>. HIDE DEF o
        <5>. QED
          BY <2>2, <3>3, <4>2, <5>1
      <4>. QED
        BY <4>1, <4>2
    <3>6. to \in 0 .. z /\ to + 1 = IF before THEN p ELSE p + 1
      BY <2>1, <3>4
    <3>. HIDE DEF to, p
    <3>7. Inv' /\ Lists!Put(k, Lists!InsertAt(s, to + 1, v), <<Len(s) + 1>>)
      BY <1>2, <3>1, <3>6, InsertAtStep DEF z, s
    <3>8. Lists!Put(k, Lists!InsertAt(s, IF before THEN p ELSE p + 1, v), <<Len(s) + 1>>)
      BY <3>6, <3>7
    <3>. QED
      BY <3>5, <3>7, <3>8 DEF Lists!LInsert, s
  <2>. QED
    BY <2>3, <2>4
<1>. QED
  BY <1>1, <1>2

----------------------------------------------------------------------------
(* Removing.                                                               *)

\* The store and the abstract lists remove the same elements: the offsets of
\* the one are the positions of the other.
LEMMA RemovedIs ==
    ASSUME ListAssumption, Inv, NEW k \in Keys, Live(k), NEW count \in Int, NEW v \in Values
    PROVE  LET s == Sequence[k]
               at == {p \in 1 .. Len(s) : s[p] = v}
           IN  /\ RemOffsets(k, count, v) \subseteq Offsets(k)
               /\ Up(RemOffsets(k, count, v)) =
                     {p \in at : \/ count = 0
                                 \/ count > 0 /\ Lists!Cardinality({q \in at : q <= p}) <= count
                                 \/ count < 0 /\ Lists!Cardinality({q \in at : q >= p}) <= -count}
<1>. DEFINE s == Sequence[k]
            z == Size(k)
            M == Matches(k, v)
            at == {p \in 1 .. Len(s) : s[p] = v}
            low(o) == {p \in M : p < o}
            high(o) == {p \in M : p > o}
<1>1. Len(s) = z /\ z \in 1 .. MaxLen /\ MaxLen \in Nat /\ z \in Nat
  BY LiveHolds DEF ListAssumption
<1>. HIDE DEF s, z
<1>2. M = {o \in 0 .. (z - 1) : s[o + 1] = v}
  BY MatchesIs DEF s, z
<1>. HIDE DEF M, at
<1>3. M \subseteq Offsets(k) /\ M \subseteq Nat /\ IsFiniteSet(M)
  <2>1. IsFiniteSet(0 .. (z - 1))
    BY <1>1, FS_Interval
  <2>2. M \subseteq 0 .. (z - 1) /\ 0 .. (z - 1) \subseteq Nat
    BY <1>1, <1>2
  <2>3. IsFiniteSet(M)
    BY <2>1, <2>2, FS_Subset
  <2>. QED
    BY <2>2, <2>3 DEF Offsets, z
<1>4. at = Up(M)
  <2>1. \A p \in 1 .. z : p - 1 \in 0 .. (z - 1) /\ (p - 1) + 1 = p
    BY <1>1
  <2>2. \A o \in 0 .. (z - 1) : o + 1 \in 1 .. z
    BY <1>1
  <2>3. ASSUME NEW p \in at PROVE p \in Up(M)
    <3>. DEFINE o == p - 1
    <3>1. o \in 0 .. (z - 1) /\ o + 1 = p /\ s[p] = v
      BY <1>1, <2>1 DEF at
    <3>. HIDE DEF o
    <3>2. o \in M
      BY <1>2, <3>1
    <3>. QED
      BY <3>1, <3>2 DEF Up
  <2>4. ASSUME NEW p \in Up(M) PROVE p \in at
    <3>1. PICK o \in M : p = o + 1
      BY DEF Up
    <3>2. o \in 0 .. (z - 1) /\ s[o + 1] = v
      BY <1>2
    <3>. QED
      BY <1>1, <2>2, <3>1, <3>2 DEF at
  <2>. QED
    BY <2>3, <2>4
<1>5. ASSUME NEW o \in M
      PROVE  /\ Cardinality({q \in at : q <= o + 1}) = Cardinality(low(o)) + 1
             /\ Cardinality({q \in at : q >= o + 1}) = Cardinality(high(o)) + 1
             /\ Cardinality(low(o)) \in Nat /\ Cardinality(high(o)) \in Nat
  <2>1. \A p \in M : p \in Nat /\ o \in Nat
    BY <1>3
  <2>2. {q \in at : q <= o + 1} = Up(low(o) \cup {o}) /\ {q \in at : q >= o + 1} = Up(high(o) \cup {o})
    <3>1. \A p \in M : /\ p + 1 <= o + 1 <=> p < o \/ p = o
                       /\ p + 1 >= o + 1 <=> p > o \/ p = o
      BY <2>1
    <3>. QED
      BY <1>4, <3>1 DEF Up
  <2>3. /\ low(o) \cup {o} \subseteq M /\ high(o) \cup {o} \subseteq M
        /\ o \notin low(o) /\ o \notin high(o)
    BY <2>1
  <2>. HIDE DEF low, high
  <2>4. /\ IsFiniteSet(low(o)) /\ IsFiniteSet(low(o) \cup {o})
        /\ IsFiniteSet(high(o)) /\ IsFiniteSet(high(o) \cup {o})
    <3>1. low(o) \subseteq M /\ high(o) \subseteq M
      BY <2>3
    <3>. QED
      BY <1>3, <2>3, <3>1, FS_Subset
  <2>5. /\ Cardinality(low(o) \cup {o}) = Cardinality(low(o)) + 1
        /\ Cardinality(high(o) \cup {o}) = Cardinality(high(o)) + 1
        /\ Cardinality(low(o)) \in Nat /\ Cardinality(high(o)) \in Nat
    BY <2>3, <2>4, FS_AddElement, FS_CardinalityType
  <2>6. low(o) \cup {o} \subseteq Nat /\ high(o) \cup {o} \subseteq Nat
    BY <1>3, <2>3
  <2>7. /\ Cardinality(Up(low(o) \cup {o})) = Cardinality(low(o) \cup {o})
        /\ Cardinality(Up(high(o) \cup {o})) = Cardinality(high(o) \cup {o})
    BY <2>4, <2>6, UpSize
  <2>. QED
    BY <2>2, <2>5, <2>7
<1>6. RemOffsets(k, count, v) = {o \in M : \/ count = 0
                                           \/ count > 0 /\ Cardinality(low(o)) < count
                                           \/ count < 0 /\ Cardinality(high(o)) < -count}
  BY DEF RemOffsets, M
<1>. HIDE DEF low, high
<1>. DEFINE upto(p) == {q \in at : q <= p}
            from(p) == {q \in at : q >= p}
            chosen(p) == \/ count = 0
                         \/ count > 0 /\ Cardinality(upto(p)) <= count
                         \/ count < 0 /\ Cardinality(from(p)) <= -count
            D == {p \in at : chosen(p)}
<1>7. \A o \in M : o \in RemOffsets(k, count, v) <=> chosen(o + 1)
  <2>. SUFFICES ASSUME NEW o \in M PROVE o \in RemOffsets(k, count, v) <=> chosen(o + 1)
    OBVIOUS
  <2>1. /\ Cardinality(upto(o + 1)) = Cardinality(low(o)) + 1
        /\ Cardinality(from(o + 1)) = Cardinality(high(o)) + 1
        /\ Cardinality(low(o)) \in Nat /\ Cardinality(high(o)) \in Nat
    BY <1>5
  <2>. HIDE DEF upto, from
  <2>2. /\ Cardinality(upto(o + 1)) <= count <=> Cardinality(low(o)) < count
        /\ Cardinality(from(o + 1)) <= -count <=> Cardinality(high(o)) < -count
    BY <2>1
  <2>. QED
    BY <1>6, <2>2
<1>8. Up(RemOffsets(k, count, v)) = D
  <2>. HIDE DEF chosen
  <2>1. RemOffsets(k, count, v) \subseteq M
    BY <1>6
  <2>2. ASSUME NEW p \in Up(RemOffsets(k, count, v)) PROVE p \in D
    <3>1. PICK o \in RemOffsets(k, count, v) : p = o + 1
      BY DEF Up
    <3>2. o \in M /\ chosen(p)
      BY <1>7, <2>1, <3>1
    <3>3. p \in at
      BY <1>4, <3>1, <3>2 DEF Up
    <3>. QED
      BY <3>2, <3>3
  <2>3. ASSUME NEW p \in D PROVE p \in Up(RemOffsets(k, count, v))
    <3>1. PICK o \in M : p = o + 1
      BY <1>4 DEF Up
    <3>2. o \in RemOffsets(k, count, v)
      BY <1>7, <3>1
    <3>. QED
      BY <3>1, <3>2 DEF Up
  <2>. QED
    BY <2>2, <2>3
<1>9. D = {p \in at : \/ count = 0
                      \/ count > 0 /\ Lists!Cardinality({q \in at : q <= p}) <= count
                      \/ count < 0 /\ Lists!Cardinality({q \in at : q >= p}) <= -count}
  <2>1. \A p : /\ Lists!Cardinality({q \in at : q <= p}) = Cardinality(upto(p))
               /\ Lists!Cardinality({q \in at : q >= p}) = Cardinality(from(p))
    BY SameCardinality
  <2>. HIDE DEF upto, from
  <2>. QED
    BY <2>1
<1>10. RemOffsets(k, count, v) \subseteq Offsets(k)
  BY <1>3, <1>6
<1>. QED
  BY <1>8, <1>9, <1>10 DEF at, s

\* The items when the offsets of doomed are removed and the rest moved up.
LEMMA RemHolds ==
    ASSUME ListAssumption, NEW k, NEW s, Holds(meta[k], item[k], s),
           NEW doomed, doomed \subseteq Offsets(k), Cardinality(doomed) \in 0 .. Size(k)
    PROVE  LET n == Cardinality(doomed)
               stay == Ascending(Offsets(k) \ doomed)
               new == [o \in Offsets(k) |-> IF o < Len(stay) THEN Item(k, stay[o + 1]) ELSE Absent]
               window == {At(k, o) : o \in Offsets(k)}
               offset == [i \in window |-> CHOOSE o \in Offsets(k) : At(k, o) = i]
           IN  Holds([meta[k] EXCEPT !.size = @ - n, !.tail = At(k, Size(k) - n)],
                     [i \in Index |-> IF i \in window THEN new[offset[i]] ELSE item[k][i]],
                     Lists!Dropped(s, Up(doomed)))
<1>. DEFINE h == meta[k].head
            z == Len(s)
            n == Cardinality(doomed)
            rest == Offsets(k) \ doomed
            stay == Ascending(rest)
            new == [o \in Offsets(k) |-> IF o < Len(stay) THEN Item(k, stay[o + 1]) ELSE Absent]
            window == {At(k, o) : o \in Offsets(k)}
            offset == [i \in window |-> CHOOSE o \in Offsets(k) : At(k, o) = i]
            m == [meta[k] EXCEPT !.size = @ - n, !.tail = At(k, Size(k) - n)]
            items == [i \in Index |-> IF i \in window THEN new[offset[i]] ELSE item[k][i]]
            t == Lists!Dropped(s, Up(doomed))
<1>1. /\ h \in Index /\ z \in Nat /\ z <= MaxLen /\ MaxLen \in Nat /\ Width \in Nat /\ MaxLen < Width
      /\ meta[k] \in Metas /\ meta[k].size = z /\ Size(k) = z /\ s \in Seq(Values) /\ DOMAIN s = 1 .. z
      /\ \A p \in 1 .. z : s[p] \in Values
  <2>1. s \in Seq(Values)
    BY DEF Holds
  <2>. QED
    BY <2>1, HoldsSize, LenProperties DEF Holds, Size
<1>. HIDE DEF z
<1>2. n \in 0 .. z
  BY <1>1
<1>3. Offsets(k) = 0 .. (z - 1) /\ Offsets(k) \subseteq Nat /\ IsFiniteSet(Offsets(k)) /\ Cardinality(Offsets(k)) = z
  <2>1. \A a, b \in Int : IsFiniteSet(a .. b) /\ Cardinality(a .. b) = IF a > b THEN 0 ELSE b - a + 1
    BY FS_Interval
  <2>2. IsFiniteSet(0 .. (z - 1)) /\ Cardinality(0 .. (z - 1)) = z
    <3>. DEFINE a == 0
                b == z - 1
    <3>1. a \in Int /\ b \in Int /\ (IF a > b THEN 0 ELSE b - a + 1) = z
      BY <1>1
    <3>. HIDE DEF a, b
    <3>2. IsFiniteSet(a .. b) /\ Cardinality(a .. b) = z
      BY <2>1, <3>1
    <3>. QED
      BY <3>2 DEF a, b
  <2>3. Offsets(k) = 0 .. (z - 1) /\ 0 .. (z - 1) \subseteq Nat
    BY <1>1 DEF Offsets
  <2>. QED
    BY <2>1, <2>2, <2>3
<1>4. rest \subseteq Nat /\ IsFiniteSet(rest) /\ Cardinality(rest) = z - n
  <2>1. IsFiniteSet(rest) /\ Cardinality(rest) = Cardinality(Offsets(k)) - Cardinality(Offsets(k) \cap doomed)
    BY <1>3, FS_Difference
  <2>2. Offsets(k) \cap doomed = doomed /\ rest \subseteq Nat
    BY <1>3
  <2>. QED
    BY <1>3, <2>1, <2>2
<1>5. /\ Len(stay) = z - n
      /\ \A x \in 1 .. (z - n) : stay[x] \in Offsets(k)
  BY <1>4, AscendingIs
<1>6. Up(rest) = DOMAIN s \ Up(doomed)
  <2>1. \A o \in Offsets(k) : o \in Int /\ o + 1 \in 1 .. z
    BY <1>1, <1>3
  <2>2. \A o, p \in Offsets(k) : o + 1 = p + 1 => o = p
    BY <2>1
  <2>3. ASSUME NEW p \in 1 .. z PROVE \E o \in Offsets(k) : p = o + 1
    <3>1. p - 1 \in Offsets(k) /\ p = (p - 1) + 1
      BY <1>1, <1>3
    <3>. QED
      BY <3>1
  <2>4. ASSUME NEW p \in Up(rest) PROVE p \in DOMAIN s \ Up(doomed)
    <3>1. PICK o \in rest : p = o + 1
      BY DEF Up
    <3>2. \A q \in doomed : p # q + 1
      BY <2>2, <3>1
    <3>. QED
      BY <1>1, <2>1, <3>1, <3>2 DEF Up
  <2>5. ASSUME NEW p \in DOMAIN s \ Up(doomed) PROVE p \in Up(rest)
    <3>1. PICK o \in Offsets(k) : p = o + 1
      BY <1>1, <2>3
    <3>2. o \notin doomed
      BY <3>1 DEF Up
    <3>. QED
      BY <3>1, <3>2 DEF Up
  <2>. QED
    BY <2>4, <2>5
<1>7. t = [x \in 1 .. (z - n) |-> s[stay[x] + 1]]
  <2>1. t = [x \in 1 .. Cardinality(Up(rest)) |-> s[Ascending(Up(rest))[x]]]
    BY <1>6, DroppedIs
  <2>2. Cardinality(Up(rest)) = z - n /\ \A x \in 1 .. (z - n) : Ascending(Up(rest))[x] = stay[x] + 1
    BY <1>4, UpSize, AscendingUp
  <2>. HIDE DEF stay, rest
  <2>. QED
    BY <2>1, <2>2
<1>. HIDE DEF n, rest, stay, t
<1>8. t \in Seq(Values) /\ Len(t) = z - n /\ \A x \in 1 .. (z - n) : t[x] = s[stay[x] + 1]
  <2>1. z - n \in Nat
    BY <1>1, <1>2
  <2>2. \A x \in 1 .. (z - n) : stay[x] + 1 \in 1 .. z
    BY <1>1, <1>3, <1>5
  <2>. QED
    BY <1>1, <1>7, <2>1, <2>2
<1>9. m \in Metas /\ m.head = h /\ m.size = z - n /\ m.tail = Add(h, z - n)
  <2>1. z - n \in 0 .. MaxLen /\ z - n \in (-Width) .. Width
    BY <1>1, <1>2
  <2>2. At(k, z - n) = Add(h, z - n) /\ Add(h, z - n) \in Index
    BY <1>1, <2>1, AddIs DEF At
  <2>3. m = [meta[k] EXCEPT !.size = z - n, !.tail = Add(h, z - n)]
    BY <1>1, <2>2
  <2>. HIDE DEF h
  <2>. QED
    BY <1>1, <2>1, <2>2, <2>3 DEF Metas, h
<1>10. ASSUME NEW i \in Index
       PROVE  items[i] = IF Off(h, i) < Len(t) THEN t[Off(h, i) + 1] ELSE Absent
  <2>. DEFINE x == Off(h, i)
  <2>1. /\ x \in Nat /\ x < Width /\ item[k][i] = IF x < z THEN s[x + 1] ELSE Absent
        /\ \A o \in 0 .. (Width - 1) : At(k, o) = i <=> x = o
    BY AtIs DEF z
  <2>2. \A o \in Offsets(k) : At(k, o) = i <=> x = o
    <3>1. \A o \in Offsets(k) : o \in 0 .. (Width - 1)
      BY <1>1, <1>3
    <3>. QED
      BY <2>1, <3>1
  <2>. HIDE DEF x
  <2>3. CASE x < z
    <3>1. x \in Offsets(k) /\ At(k, x) = i
      BY <1>1, <1>3, <2>1, <2>2, <2>3
    <3>2. i \in window /\ offset[i] = x
      <4>1. i \in window
        BY <3>1
      <4>2. offset[i] = CHOOSE o \in Offsets(k) : At(k, o) = i
        BY <4>1
      <4>. QED
        BY <2>2, <3>1, <4>1, <4>2
    <3>. HIDE DEF window, offset
    <3>3. items[i] = IF x < Len(stay) THEN Item(k, stay[x + 1]) ELSE Absent
      BY <3>1, <3>2
    <3>. HIDE DEF items
    <3>4. CASE x < z - n
      <4>1. x + 1 \in 1 .. (z - n)
        BY <1>1, <1>2, <2>1, <3>4
      <4>. DEFINE y == stay[x + 1]
      <4>2. y \in Offsets(k)
        BY <1>5, <4>1
      <4>3. t[x + 1] = s[y + 1]
        BY <1>8, <4>1
      <4>4. items[i] = Item(k, y)
        BY <1>5, <3>3, <3>4
      <4>. HIDE DEF y
      <4>5. y \in Index /\ y < meta[k].size
        BY <1>1, <1>3, <4>2 DEF Index
      <4>6. Item(k, y) = s[y + 1]
        BY <4>5, HoldsAt DEF Item, At
      <4>. QED
        BY <1>8, <3>4, <4>3, <4>4, <4>6 DEF x
    <3>5. CASE ~(x < z - n)
      BY <1>5, <1>8, <3>3, <3>5 DEF x
    <3>. QED
      BY <3>4, <3>5
  <2>4. CASE ~(x < z)
    <3>1. i \notin window
      <4>1. \A o \in Offsets(k) : x # o
        BY <1>1, <1>3, <2>1, <2>4
      <4>. QED
        BY <2>2, <4>1
    <3>2. items[i] = Absent
      BY <2>1, <2>4, <3>1
    <3>3. ~(x < Len(t))
      BY <1>1, <1>2, <1>8, <2>1, <2>4
    <3>. QED
      BY <3>2, <3>3 DEF x
  <2>. QED
    BY <2>3, <2>4
<1>11. items = [i \in Index |-> items[i]]
  OBVIOUS
<1>. HIDE DEF items, m
<1>12. items = Laid(m.head, t)
  BY <1>9, <1>10, <1>11 DEF Laid
<1>13. Holds(m, items, t)
  BY <1>8, <1>9, <1>12 DEF Holds
<1>. QED
  BY <1>13 DEF m, items, t, n, stay, rest

\* LREM, with a count of any sign.
LEMMA RemStep ==
    ASSUME ListAssumption, Inv, NEW k \in Keys, NEW count \in RemCounts, NEW v \in Values, LRem(k, count, v)
    PROVE  Inv' /\ Lists!LRem(k, count, v)
<1>. DEFINE s == Sequence[k]
            z == Size(k)
            at == {p \in 1 .. Len(s) : s[p] = v}
            D == {p \in at : \/ count = 0
                             \/ count > 0 /\ Lists!Cardinality({q \in at : q <= p}) <= count
                             \/ count < 0 /\ Lists!Cardinality({q \in at : q >= p}) <= -count}
            doomed == RemOffsets(k, count, v)
            n == Cardinality(doomed)
<1>1. Lists!LRem(k, count, v) <=> Lists!Put(k, Lists!Dropped(s, D), <<Lists!Cardinality(D)>>)
  BY DEF Lists!LRem
<1>2. count \in Int
  BY DEF ListAssumption
<1>3. CASE ~Live(k)
  <2>1. s = <<>> /\ Inv' /\ UNCHANGED Sequence /\ ret' = <<0>>
    <3>1. Reply(<<0>>)
      BY <1>3 DEF LRem
    <3>. QED
      BY <1>3, <3>1, SequenceIs, Replied DEF Reply
  <2>2. DOMAIN s \ D = {} /\ D = {}
    <3>1. DOMAIN s = {} /\ at = {}
      BY <2>1
    <3>. HIDE DEF at
    <3>. QED
      BY <3>1
  <2>. HIDE DEF D
  <2>3. Lists!Dropped(s, D) = <<>>
    BY <2>2, DroppedAll
  <2>4. Lists!Cardinality(D) = 0
    BY <2>2, SameCardinality, FS_EmptySet
  <2>. QED
    BY <1>1, <2>1, <2>3, <2>4, PutSame
<1>4. CASE Live(k)
  <2>1. Holds(meta[k], item[k], s) /\ s \in Seq(Values) /\ Len(s) = z /\ z \in 1 .. MaxLen /\ MaxLen \in Nat
    BY <1>4, LiveHolds DEF ListAssumption
  <2>2. doomed \subseteq Offsets(k) /\ Up(doomed) = D
    BY <1>2, <1>4, RemovedIs
  <2>. HIDE DEF D
  <2>3. doomed \subseteq Nat /\ IsFiniteSet(doomed) /\ n \in 0 .. z
    <3>1. Offsets(k) = 0 .. (z - 1) /\ Offsets(k) \subseteq Nat /\ IsFiniteSet(Offsets(k))
          /\ Cardinality(Offsets(k)) = z
      <4>1. \A a, b \in Int : IsFiniteSet(a .. b) /\ Cardinality(a .. b) = IF a > b THEN 0 ELSE b - a + 1
        BY FS_Interval
      <4>. DEFINE a == 0
                  b == z - 1
      <4>2. a \in Int /\ b \in Int /\ (IF a > b THEN 0 ELSE b - a + 1) = z /\ 0 .. (z - 1) \subseteq Nat
        BY <2>1
      <4>3. Offsets(k) = a .. b
        BY DEF Offsets
      <4>. HIDE DEF a, b
      <4>4. IsFiniteSet(a .. b) /\ Cardinality(a .. b) = z
        BY <4>1, <4>2
      <4>. QED
        BY <4>2, <4>3, <4>4 DEF a, b
    <3>2. IsFiniteSet(doomed) /\ n <= z /\ n \in Nat
      BY <2>2, <3>1, FS_Subset, FS_CardinalityType
    <3>. HIDE DEF n
    <3>. QED
      BY <2>1, <2>2, <3>1, <3>2
  <2>4. IsFiniteSet(D) /\ Cardinality(D) = n /\ Lists!Cardinality(D) = n
    BY <2>2, <2>3, UpSize, SameCardinality
  <2>5. DOMAIN s = 1 .. z /\ D \subseteq 1 .. z
    <3>1. DOMAIN s = 1 .. z
      BY <2>1, LenProperties
    <3>2. \A o \in Offsets(k) : o + 1 \in 1 .. z
      BY <2>1 DEF Offsets
    <3>. QED
      BY <2>2, <3>1, <3>2 DEF Up
  <2>6. ASSUME Clear(k, <<n>>), n = z
        PROVE  Inv' /\ Lists!LRem(k, count, v)
    <3>1. Inv' /\ Sequence' = [Sequence EXCEPT ![k] = <<>>] /\ ret' = <<n>>
      BY <2>6, Cleared DEF Clear
    <3>2. D = 1 .. z
      <4>1. \A a, b \in Int : IsFiniteSet(a .. b) /\ Cardinality(a .. b) = IF a > b THEN 0 ELSE b - a + 1
        BY FS_Interval
      <4>. DEFINE a == 1
      <4>2. a \in Int /\ z \in Int /\ (IF a > z THEN 0 ELSE z - a + 1) = z
        BY <2>1
      <4>. HIDE DEF a, z
      <4>3. IsFiniteSet(a .. z) /\ Cardinality(a .. z) = z
        BY <4>1, <4>2
      <4>4. D \subseteq a .. z /\ Cardinality(D) = z
        BY <2>4, <2>5, <2>6 DEF a
      <4>5. a .. z = D
        BY <4>3, <4>4, FS_Subset
      <4>. QED
        BY <4>5 DEF a
    <3>3. DOMAIN s \ D = {}
      BY <2>5, <3>2
    <3>4. Lists!Dropped(s, D) = <<>>
      BY <3>3, DroppedAll
    <3>. HIDE DEF n
    <3>. QED
      BY <1>1, <2>4, <3>1, <3>4 DEF Lists!Put
  <2>7. CASE n = 0
    <3>1. ~(n = z) /\ ~(n \in 1 .. (z - 1))
      BY <2>1, <2>7
    <3>2. Reply(<<0>>)
      BY <1>4, <3>1 DEF LRem
    <3>3. Inv' /\ UNCHANGED Sequence /\ ret' = <<n>>
      BY <2>7, <3>2, Replied DEF Reply
    <3>4. D = {}
      BY <2>4, <2>7, FS_EmptySet
    <3>5. Lists!Dropped(s, D) = s
      <4>. DEFINE a == 1
                  b == Len(s)
      <4>1. a \in 1 .. (Len(s) + 1) /\ b \in 0 .. Len(s) /\ a <= b + 1
        BY <2>1
      <4>2. DOMAIN s \ D = a .. b
        BY <2>1, <2>5, <3>4
      <4>. HIDE DEF a, b
      <4>3. Lists!Dropped(s, D) = SubSeq(s, a, b)
        BY <2>1, <4>1, <4>2, DroppedStretch
      <4>. QED
        BY <2>1, <4>3, SubSeqFull DEF a, b
    <3>6. Lists!Put(k, s, <<n>>)
      BY <3>3, SequenceIs DEF Lists!Put
    <3>. QED
      BY <1>1, <2>4, <3>3, <3>5, <3>6
  <2>8. CASE n \in 1 .. (z - 1)
    <3>. DEFINE stay == Ascending(Offsets(k) \ doomed)
                new == [o \in Offsets(k) |-> IF o < Len(stay) THEN Item(k, stay[o + 1]) ELSE Absent]
                window == {At(k, o) : o \in Offsets(k)}
                offset == [i \in window |-> CHOOSE o \in Offsets(k) : At(k, o) = i]
                m == [meta[k] EXCEPT !.size = @ - n, !.tail = At(k, Size(k) - n)]
                items == [i \in Index |-> IF i \in window THEN new[offset[i]] ELSE item[k][i]]
    <3>1. n # 0 /\ n # z
      BY <2>1, <2>8
    <3>2. Commit(k, m, items, <<n>>)
      BY <1>4, <3>1 DEF LRem
    <3>3. Holds(m, items, Lists!Dropped(s, Up(doomed)))
      BY <2>1, <2>2, <2>3, RemHolds
    <3>4. ~m.lapsed
      <4>1. meta[k] \in Metas /\ ~meta[k].lapsed
        BY <1>4, <2>1 DEF Holds, Live
      <4>. QED
        BY <4>1 DEF Metas
    <3>. HIDE DEF m, items
    <3>5. Inv' /\ Lists!Put(k, Lists!Dropped(s, D), <<n>>)
      BY <2>2, <3>2, <3>3, <3>4, Committed
    <3>. QED
      BY <1>1, <2>4, <3>5
  <2>9. CASE n = z
    <3>1. Clear(k, <<n>>)
      BY <1>4, <2>1, <2>9 DEF LRem
    <3>. QED
      BY <2>6, <2>9, <3>1
  <2>. QED
    <3>1. n = 0 \/ n = z \/ n \in 1 .. (z - 1)
      BY <2>1, <2>3
    <3>. QED
      BY <2>7, <2>8, <2>9, <3>1
<1>. QED
  BY <1>3, <1>4

----------------------------------------------------------------------------
(* Moving.                                                                 *)

\* A stretch of one element.
LEMMA OneAt ==
    ASSUME NEW S, NEW s \in Seq(S), NEW p \in 1 .. Len(s)
    PROVE  SubSeq(s, p, p) = <<s[p]>>
<1>. DEFINE u == SubSeq(s, p, p)
<1>1. Len(s) \in Nat /\ p \in 1 .. (Len(s) + 1) /\ p \in 0 .. Len(s) /\ p <= p + 1 /\ p - p + 1 = 1 /\ p + 1 - 1 = p
  BY LenProperties
<1>2. u \in Seq(S) /\ Len(u) = p - p + 1 /\ \A j \in 1 .. (p - p + 1) : u[j] = s[p + j - 1]
  BY <1>1, Stretch
<1>. HIDE DEF u
<1>3. Len(u) = 1 /\ 1 \in 1 .. 1
  BY <1>1, <1>2
<1>4. u[1] = s[p]
  BY <1>1, <1>2, <1>3
<1>5. u \in [1 .. 1 -> S]
  BY <1>2, <1>3, LenProperties
<1>6. u = <<u[1]>>
  BY <1>5
<1>. QED
  BY <1>4, <1>6 DEF u

\* A pop of one element takes an end of the sequence.
LEMMA OneEnd ==
    ASSUME NEW s \in Seq(Values), s # <<>>, NEW left \in BOOLEAN
    PROVE  /\ Lists!Ends(s, 1, left) = <<IF left THEN s[1] ELSE s[Len(s)]>>
           /\ Len(s) \in Nat /\ Len(s) >= 1
           /\ Lists!Rest(s, 1, left) \in Seq(Values)
<1>. DEFINE z == Len(s)
<1>1. z \in Nat /\ z # 0
  BY LenProperties, EmptySeq
<1>2. z >= 1
  BY <1>1
<1>. HIDE DEF z
<1>. DEFINE a == 1
<1>3. a \in 1 .. (z + 1) /\ a \in 0 .. z /\ a <= a + 1 /\ a - a + 1 = 1 /\ a + 1 - 1 = 1 /\ a + 1 \in 1 .. (z + 1)
      /\ a + 1 <= z + 1 /\ z \in 1 .. (z + 1) /\ z \in 0 .. z /\ z <= z + 1 /\ z - z + 1 = 1 /\ z + 1 - 1 = z
      /\ z - 1 \in 0 .. z /\ a <= (z - 1) + 1 /\ z - 1 + 1 = z
  BY <1>1, <1>2
<1>4. SubSeq(s, 1, 1) = <<s[1]>> /\ SubSeq(s, z, z) = <<s[z]>>
  <2>1. 1 \in 1 .. Len(s) /\ z \in 1 .. Len(s)
    BY <1>1, <1>2 DEF z
  <2>. QED
    BY <2>1, OneAt
<1>6. Lists!Reverse(<<s[z]>>) = <<s[z]>>
  BY DEF Lists!Reverse
<1>7. Lists!Ends(s, 1, left) = <<IF left THEN s[1] ELSE s[z]>>
  <2>1. CASE left
    BY <1>4, <2>1 DEF Lists!Ends
  <2>2. CASE ~left
    BY <1>3, <1>4, <1>6, <2>2 DEF Lists!Ends, z
  <2>. QED
    BY <2>1, <2>2
<1>8. Lists!Rest(s, 1, left) \in Seq(Values)
  <2>1. CASE left
    <3>. DEFINE b == a + 1
    <3>1. b \in 1 .. (z + 1) /\ b <= z + 1
      BY <1>3
    <3>. HIDE DEF b
    <3>2. SubSeq(s, b, z) \in Seq(Values)
      BY <1>3, <3>1, Stretch DEF z
    <3>. QED
      BY <2>1, <3>2 DEF Lists!Rest, z, b
  <2>2. CASE ~left
    <3>. DEFINE b == z - 1
    <3>. HIDE DEF a
    <3>1. b \in 0 .. z /\ a <= b + 1
      BY <1>3
    <3>. HIDE DEF b
    <3>2. SubSeq(s, a, b) \in Seq(Values)
      BY <1>3, <3>1, Stretch DEF z
    <3>. QED
      BY <2>2, <3>2 DEF Lists!Rest, z, a, b
  <2>. QED
    BY <2>1, <2>2
<1>. QED
  BY <1>1, <1>2, <1>7, <1>8 DEF z

\* One element taken from an end and put back there is the same list.
LEMMA PutBack ==
    ASSUME NEW s \in Seq(Values), s # <<>>, NEW left \in BOOLEAN
    PROVE  /\ left => Lists!Ends(s, 1, left) \o Lists!Rest(s, 1, left) = s
           /\ ~left => Lists!Rest(s, 1, left) \o Lists!Ends(s, 1, left) = s
           /\ Len(s) = 1 => /\ Lists!Ends(s, 1, left) \o Lists!Rest(s, 1, left) = s
                            /\ Lists!Rest(s, 1, left) \o Lists!Ends(s, 1, left) = s
<1>. DEFINE z == Len(s)
<1>1. z \in Nat /\ z >= 1
  BY OneEnd
<1>. HIDE DEF z
<1>2. ASSUME left PROVE Lists!Ends(s, 1, left) \o Lists!Rest(s, 1, left) = s
  <2>. DEFINE a == 1
  <2>1. a \in 1 .. (z + 1) /\ a \in (a - 1) .. z /\ z \in a .. z
    BY <1>1
  <2>. HIDE DEF a
  <2>2. SubSeq(s, a, a) \o SubSeq(s, a + 1, z) = SubSeq(s, a, z)
    BY <2>1, ConcatAdjacentSubSeq DEF z
  <2>3. SubSeq(s, 1, z) = s
    BY SubSeqFull DEF z
  <2>. QED
    BY <1>2, <2>2, <2>3 DEF Lists!Ends, Lists!Rest, a, z
<1>3. ASSUME ~left PROVE Lists!Rest(s, 1, left) \o Lists!Ends(s, 1, left) = s
  <2>. DEFINE a == 1
              b == z - 1
  <2>1. a \in 1 .. (z + 1) /\ b \in (a - 1) .. z /\ z \in b .. z /\ b + 1 = z
    BY <1>1
  <2>2. Lists!Ends(s, 1, left) = <<s[z]>> /\ SubSeq(s, z, z) = <<s[z]>>
    <3>1. SubSeq(s, z, z) = <<s[z]>>
      <4>1. z \in 1 .. Len(s)
        BY <1>1 DEF z
      <4>. QED
        BY <4>1, OneAt
    <3>2. Lists!Ends(s, 1, left) = <<IF left THEN s[1] ELSE s[Len(s)]>>
      BY OneEnd
    <3>. QED
      BY <1>3, <3>1, <3>2 DEF z
  <2>. HIDE DEF a, b
  <2>3. SubSeq(s, a, b) \o SubSeq(s, b + 1, z) = SubSeq(s, a, z)
    BY <2>1, ConcatAdjacentSubSeq DEF z
  <2>4. SubSeq(s, 1, z) = s
    BY SubSeqFull DEF z
  <2>5. Lists!Rest(s, 1, left) = SubSeq(s, 1, z - 1)
    BY <1>3 DEF Lists!Rest, z
  <2>. QED
    BY <2>1, <2>2, <2>3, <2>4, <2>5 DEF a, b
<1>4. ASSUME z = 1
      PROVE  /\ Lists!Ends(s, 1, left) \o Lists!Rest(s, 1, left) = s
             /\ Lists!Rest(s, 1, left) \o Lists!Ends(s, 1, left) = s
  <2>1. Lists!Rest(s, 1, left) = <<>>
    <3>1. Lists!Rest(s, 1, left) = SubSeq(s, 2, 1) \/ Lists!Rest(s, 1, left) = SubSeq(s, 1, 0)
      BY <1>4 DEF Lists!Rest, z
    <3>. QED
      BY <3>1, SubSeqEmpty
  <2>2. Lists!Ends(s, 1, left) = s
    <3>1. Lists!Ends(s, 1, left) = <<IF left THEN s[1] ELSE s[Len(s)]>>
      BY OneEnd
    <3>2. Lists!Ends(s, 1, left) = <<s[1]>>
      BY <1>4, <3>1 DEF z
    <3>. QED
      BY <1>4, <3>2 DEF z
  <2>. QED
    BY <2>1, <2>2, ConcatEmptySeq
<1>. QED
  BY <1>2, <1>3, <1>4 DEF z

\* The element at an end, and what is left of the items without it.
LEMMA EndIs ==
    ASSUME ListAssumption, Inv, NEW k \in Keys, Live(k), NEW left \in BOOLEAN
    PROVE  LET e == Item(k, PopOffset(k, 1, left))
               from == At(k, PopOffset(k, 1, left))
           IN  /\ e \in Values /\ e # Absent
               /\ Lists!Ends(Sequence[k], 1, left) = <<e>>
               /\ Holds(Popped(meta[k], 1, left), [item[k] EXCEPT ![from] = Absent], Lists!Rest(Sequence[k], 1, left))
               /\ Popped(meta[k], 1, left).size + 1 = Size(k)
               /\ ~Popped(meta[k], 1, left).lapsed
<1>. DEFINE s == Sequence[k]
            z == Size(k)
            o == PopOffset(k, 1, left)
            e == Item(k, o)
            from == At(k, o)
<1>1. Holds(meta[k], item[k], s) /\ s \in Seq(Values) /\ Len(s) = z /\ z \in 1 .. MaxLen /\ s # <<>>
      /\ MaxLen \in Nat /\ MaxLen < Width /\ Width \in Nat
  BY LiveHolds DEF ListAssumption
<1>2. o = IF left THEN 0 ELSE z - 1
  <2>1. o = IF left THEN 1 - 1 ELSE z - 1
    BY DEF PopOffset
  <2>. QED
    BY <2>1
<1>. HIDE DEF s, z, o
<1>3. /\ o \in Index /\ o < z /\ o + 1 \in 1 .. z
      /\ left => o + 1 = 1
      /\ ~left => o + 1 = z
  BY <1>1, <1>2 DEF Index
<1>4. e = s[o + 1] /\ from \in Index
  BY <1>1, <1>3, HoldsAt DEF Item, At, Size, z
<1>5. e \in Values /\ e # Absent
  BY <1>1, <1>3, <1>4, HoldsSize
<1>6. Lists!Ends(s, 1, left) = <<e>>
  BY <1>1, <1>3, <1>4, OneEnd
<1>7. Holds(Popped(meta[k], 1, left), Without(k, 1, left), Lists!Rest(s, 1, left))
  <2>1. 1 \in 0 .. Len(s)
    BY <1>1
  <2>. QED
    BY <1>1, <2>1, PoppedHolds
<1>8. Without(k, 1, left) = [item[k] EXCEPT ![from] = Absent]
  <2>1. {At(k, PopOffset(k, j, left)) : j \in 1 .. 1} = {from}
    BY DEF o
  <2>2. Without(k, 1, left) = [i \in Index |-> IF i = from THEN Absent ELSE item[k][i]]
    BY <2>1 DEF Without
  <2>3. item[k] \in [Index -> Values \cup {Absent}]
    BY DEF Inv, TypeOK
  <2>. HIDE DEF from
  <2>. QED
    BY <2>2, <2>3
<1>9. Popped(meta[k], 1, left).size + 1 = z /\ ~Popped(meta[k], 1, left).lapsed
  <2>1. meta[k] \in Metas /\ ~meta[k].lapsed /\ meta[k].size = z
    BY <1>1 DEF Holds, Live
  <2>2. Popped(meta[k], 1, left).size = z - 1 /\ ~Popped(meta[k], 1, left).lapsed
    BY <2>1 DEF Popped, Metas
  <2>. QED
    BY <1>1, <2>2
<1>. QED
  BY <1>5, <1>6, <1>7, <1>8, <1>9 DEF s, z, o

\* A push of one element.
LEMMA JoinedOne ==
    ASSUME NEW q, NEW e, NEW left \in BOOLEAN
    PROVE  Joined(q, <<e>>, left) = IF left THEN <<e>> \o q ELSE q \o <<e>>
<1>1. Reverse(<<e>>) = <<e>>
  BY DEF Reverse
<1>. QED
  BY <1>1 DEF Joined

\* LMOVE from one end of a list to its other end.
LEMMA RotateStep ==
    ASSUME ListAssumption, Inv, NEW k \in Keys, Live(k), NEW sleft \in BOOLEAN, NEW dleft \in BOOLEAN,
           Rotate(k, sleft, dleft, Item(k, PopOffset(k, 1, sleft)))
    PROVE  Inv' /\ Lists!LMove(k, k, sleft, dleft)
<1>. DEFINE s == Sequence[k]
            e == Item(k, PopOffset(k, 1, sleft))
            from == At(k, PopOffset(k, 1, sleft))
            c == [m |-> Popped(meta[k], 1, sleft), items |-> [item[k] EXCEPT ![from] = Absent]]
            b == Pushed(c, <<e>>, dleft)
            q == Lists!Rest(s, 1, sleft)
            t == Joined(q, <<e>>, dleft)
<1>1. /\ e \in Values /\ Lists!Ends(s, 1, sleft) = <<e>>
      /\ Holds(c.m, c.items, q) /\ c.m.size + 1 = Size(k) /\ ~c.m.lapsed
  BY EndIs
<1>2. Commit(k, b.m, b.items, <<e>>)
  BY DEF Rotate
<1>3. Size(k) <= MaxLen /\ s # <<>>
  BY LiveHolds DEF ListAssumption
<1>. HIDE DEF e, c, q
<1>4. <<e>> \in Seq(Values) /\ Len(<<e>>) = 1
  BY <1>1
<1>5. b.m.size <= MaxLen
  <2>1. c.m \in Metas
    BY <1>1 DEF Holds
  <2>2. b.m.size = c.m.size + 1
    <3>1. b.m = [c.m EXCEPT !.head = IF dleft THEN Add(@, -Len(<<e>>)) ELSE @,
                            !.tail = IF dleft THEN @ ELSE Add(@, Len(<<e>>)), !.size = @ + Len(<<e>>)]
      BY DEF Pushed
    <3>. QED
      BY <1>4, <2>1, <3>1 DEF Metas
  <2>. QED
    BY <1>1, <1>3, <2>2
<1>6. Holds(b.m, b.items, t) /\ ~b.m.lapsed
  <2>. DEFINE vs == <<e>>
  <2>1. vs \in Seq(Values) /\ Pushed(c, vs, dleft).m.size <= MaxLen /\ b = Pushed(c, vs, dleft) /\ t = Joined(q, vs, dleft)
    BY <1>4, <1>5
  <2>. HIDE DEF b, t, vs
  <2>2. Holds(b.m, b.items, t) /\ b.m.lapsed = c.m.lapsed
    BY <1>1, <2>1, PushedHolds
  <2>. QED
    BY <1>1, <2>2
<1>. HIDE DEF b, t
<1>7. Inv' /\ Lists!Put(k, t, <<e>>)
  BY <1>2, <1>6, Committed
<1>8. t = IF dleft THEN <<e>> \o q ELSE q \o <<e>>
  BY JoinedOne DEF t
<1>9. Lists!LMove(k, k, sleft, dleft)
  <2>. DEFINE taken == [Sequence EXCEPT ![k] = q]
  <2>1. Sequence' = [Sequence EXCEPT ![k] = t] /\ ret' = <<e>>
    BY <1>7 DEF Lists!Put
  <2>2. Sequence' = [taken EXCEPT ![k] = IF dleft THEN <<e>> \o @ ELSE @ \o <<e>>]
    BY <1>8, <2>1, SequenceIs
  <2>. QED
    BY <1>1, <1>3, <2>1, <2>2 DEF Lists!LMove, q
<1>. QED
  BY <1>7, <1>9

\* What a record and items that hold t leave of it when it is empty.
LEMMA Kept ==
    ASSUME ListAssumption, NEW m, NEW items, NEW t, Holds(m, items, t), ~m.lapsed
    PROVE  LET r == IF m.size = 0 THEN Absent ELSE m
           IN  /\ Good(r, items) /\ r \in Metas \cup {Absent} /\ items \in [Index -> Values \cup {Absent}]
               /\ SeqIn(r, items) = t
<1>1. m \in Metas /\ m # Absent /\ items \in [Index -> Values \cup {Absent}] /\ t \in Seq(Values)
  BY HoldsSeq DEF Holds
<1>2. CASE m.size = 0
  <2>1. items = NoItems /\ t = <<>>
    BY <1>2, HoldsNothing
  <2>. QED
    BY <1>1, <1>2, <2>1 DEF Good, SeqIn
<1>3. CASE m.size # 0
  <2>1. m.size > 0
    BY <1>3, HoldsSize
  <2>2. SeqIn(m, items) = t
    BY <2>1, HoldsSeq
  <2>. QED
    BY <1>1, <1>3, <2>1, <2>2 DEF Good
<1>. QED
  BY <1>2, <1>3

\* A batch that writes two keys keeps the invariant when what it writes is good.
LEMMA ReplacedTwo ==
    ASSUME Inv, NEW s \in Keys, NEW d \in Keys, s # d,
           \A j \in {s, d} : /\ Good(meta'[j], item'[j]) /\ meta'[j] \in Metas \cup {Absent}
                             /\ item'[j] \in [Index -> Values \cup {Absent}],
           \A j \in Keys : j # s /\ j # d => meta'[j] = meta[j] /\ item'[j] = item[j],
           meta' = [j \in Keys |-> meta'[j]], item' = [j \in Keys |-> item'[j]]
    PROVE  /\ Inv'
           /\ Sequence' = [Sequence EXCEPT ![s] = SeqIn(meta'[s], item'[s]), ![d] = SeqIn(meta'[d], item'[d])]
<1>1. \A j \in Keys : /\ Good(meta'[j], item'[j]) /\ meta'[j] \in Metas \cup {Absent}
                      /\ item'[j] \in [Index -> Values \cup {Absent}]
  <2>. SUFFICES ASSUME NEW j \in Keys
                PROVE  /\ Good(meta'[j], item'[j]) /\ meta'[j] \in Metas \cup {Absent}
                       /\ item'[j] \in [Index -> Values \cup {Absent}]
    OBVIOUS
  <2>1. CASE j \in {s, d}
    BY <2>1
  <2>2. CASE j # s /\ j # d
    BY <2>2 DEF Inv, TypeOK
  <2>. QED
    BY <2>1, <2>2
<1>2. Inv'
  BY <1>1 DEF Inv, TypeOK
<1>3. Sequence' = [Sequence EXCEPT ![s] = SeqIn(meta'[s], item'[s]), ![d] = SeqIn(meta'[d], item'[d])]
  <2>. DEFINE S == [Sequence EXCEPT ![s] = SeqIn(meta'[s], item'[s]), ![d] = SeqIn(meta'[d], item'[d])]
  <2>1. S = [j \in Keys |-> S[j]] /\ Sequence' = [j \in Keys |-> SeqIn(meta'[j], item'[j])]
    BY SequenceIs
  <2>2. /\ S[s] = SeqIn(meta'[s], item'[s]) /\ S[d] = SeqIn(meta'[d], item'[d])
        /\ \A j \in Keys : j # s /\ j # d => S[j] = SeqIn(meta[j], item[j])
    BY SequenceIs
  <2>. HIDE DEF S
  <2>3. \A j \in Keys : SeqIn(meta'[j], item'[j]) = S[j]
    <3>. SUFFICES ASSUME NEW j \in Keys PROVE SeqIn(meta'[j], item'[j]) = S[j]
      OBVIOUS
    <3>1. CASE j = s
      BY <2>2, <3>1
    <3>2. CASE j = d
      BY <2>2, <3>2
    <3>3. CASE j # s /\ j # d
      BY <2>2, <3>3
    <3>. QED
      BY <3>1, <3>2, <3>3
  <2>4. Sequence' = S
    BY <2>1, <2>3
  <2>. QED
    BY <2>4 DEF S
<1>. QED
  BY <1>2, <1>3

\* LMOVE from one list to another.
LEMMA TransferStep ==
    ASSUME ListAssumption, Inv, NEW s \in Keys, NEW d \in Keys, s # d, Live(s),
           NEW sleft \in BOOLEAN, NEW dleft \in BOOLEAN,
           Transfer(s, d, sleft, dleft, Item(s, PopOffset(s, 1, sleft)))
    PROVE  Inv' /\ Lists!LMove(s, d, sleft, dleft)
<1>. DEFINE e == Item(s, PopOffset(s, 1, sleft))
            from == At(s, PopOffset(s, 1, sleft))
            m == Popped(meta[s], 1, sleft)
            r == IF m.size = 0 THEN Absent ELSE m
            items == [item[s] EXCEPT ![from] = Absent]
            c == Prepared(d)
            b == Pushed(c, <<e>>, dleft)
            q == Lists!Rest(Sequence[s], 1, sleft)
            t == Joined(Sequence[d], <<e>>, dleft)
<1>1. /\ e \in Values /\ Lists!Ends(Sequence[s], 1, sleft) = <<e>>
      /\ Holds(m, items, q) /\ ~m.lapsed
  BY EndIs
<1>2. Sequence[s] # <<>>
  BY LiveHolds
<1>3. /\ b.m.size <= MaxLen /\ ret' = <<e>>
      /\ meta' = [meta EXCEPT ![s] = r, ![d] = b.m]
      /\ item' = [item EXCEPT ![s][from] = Absent, ![d] = b.items]
  BY DEF Transfer
<1>4. item' = [item EXCEPT ![s] = items, ![d] = b.items]
  <2>. HIDE DEF b, from
  <2>1. item \in [Keys -> [Index -> Values \cup {Absent}]]
    BY DEF Inv, TypeOK
  <2>. QED
    BY <1>3, <2>1
<1>5. Holds(c.m, c.items, Sequence[d]) /\ ~c.m.lapsed
  BY PreparedHolds
<1>. HIDE DEF e, from, m, items, c, q
<1>6. <<e>> \in Seq(Values) /\ Len(<<e>>) = 1
  BY <1>1
<1>7. Holds(b.m, b.items, t) /\ ~b.m.lapsed /\ b.m.size = Len(Sequence[d]) + 1
  <2>. DEFINE vs == <<e>>
              u == Sequence[d]
  <2>1. /\ vs \in Seq(Values) /\ Pushed(c, vs, dleft).m.size <= MaxLen
        /\ b = Pushed(c, vs, dleft) /\ t = Joined(u, vs, dleft) /\ Holds(c.m, c.items, u)
    BY <1>3, <1>5, <1>6
  <2>a. Len(vs) = 1
    BY <1>6
  <2>. HIDE DEF b, t, vs, u
  <2>2. Holds(b.m, b.items, t) /\ b.m.lapsed = c.m.lapsed
    BY <2>1, PushedHolds
  <2>3. b.m.size = Len(u) + Len(vs)
    BY <2>1, PushedHolds
  <2>. QED
    BY <1>5, <2>1, <2>2, <2>3, <2>a DEF u
<1>8. b.m.size # 0
  <2>1. Len(Sequence[d]) \in Nat
    BY <1>5, LenProperties DEF Holds
  <2>. HIDE DEF b
  <2>. QED
    BY <1>7, <2>1
<1>. HIDE DEF b, t
<1>9. /\ Good(r, items) /\ r \in Metas \cup {Absent} /\ items \in [Index -> Values \cup {Absent}]
      /\ SeqIn(r, items) = q
  BY <1>1, Kept
<1>10. /\ Good(b.m, b.items) /\ b.m \in Metas \cup {Absent} /\ b.items \in [Index -> Values \cup {Absent}]
       /\ SeqIn(b.m, b.items) = t
  BY <1>7, <1>8, Kept
<1>. HIDE DEF r
<1>11. Inv' /\ Sequence' = [Sequence EXCEPT ![s] = q, ![d] = t]
  <2>1. /\ meta'[s] = r /\ item'[s] = items /\ meta'[d] = b.m /\ item'[d] = b.items
        /\ \A j \in Keys : j # s /\ j # d => meta'[j] = meta[j] /\ item'[j] = item[j]
        /\ meta' = [j \in Keys |-> meta'[j]] /\ item' = [j \in Keys |-> item'[j]]
    BY <1>3, <1>4 DEF Inv, TypeOK
  <2>2. \A j \in {s, d} : /\ Good(meta'[j], item'[j]) /\ meta'[j] \in Metas \cup {Absent}
                          /\ item'[j] \in [Index -> Values \cup {Absent}]
    BY <1>9, <1>10, <2>1
  <2>3. /\ Inv'
        /\ Sequence' = [Sequence EXCEPT ![s] = SeqIn(meta'[s], item'[s]), ![d] = SeqIn(meta'[d], item'[d])]
    BY <2>1, <2>2, ReplacedTwo
  <2>. QED
    BY <1>9, <1>10, <2>1, <2>3
<1>12. t = IF dleft THEN <<e>> \o Sequence[d] ELSE Sequence[d] \o <<e>>
  BY JoinedOne DEF t
<1>13. Lists!LMove(s, d, sleft, dleft)
  <2>. DEFINE taken == [Sequence EXCEPT ![s] = q]
  <2>1. taken[d] = Sequence[d]
    BY SequenceIs
  <2>2. Sequence' = [taken EXCEPT ![d] = IF dleft THEN <<e>> \o @ ELSE @ \o <<e>>]
    <3>1. Sequence' = [taken EXCEPT ![d] = t]
      BY <1>11
    <3>. HIDE DEF taken
    <3>. QED
      BY <1>12, <2>1, <3>1
  <2>. QED
    BY <1>1, <1>2, <1>3, <2>2 DEF Lists!LMove, q
<1>. QED
  BY <1>11, <1>13

\* LMOVE, in all its cases.
LEMMA MoveStep ==
    ASSUME ListAssumption, Inv, NEW s \in Keys, NEW d \in Keys, NEW sleft \in BOOLEAN, NEW dleft \in BOOLEAN,
           LMove(s, d, sleft, dleft)
    PROVE  Inv' /\ Lists!LMove(s, d, sleft, dleft)
<1>. DEFINE e == Item(s, PopOffset(s, 1, sleft))
            q == Sequence[s]
<1>1. CASE ~Live(s)
  <2>1. Reply(<<>>) /\ q = <<>>
    BY <1>1, SequenceIs DEF LMove
  <2>. QED
    BY <2>1, Replied DEF Reply, Lists!LMove, Lists!Keep
<1>2. CASE Live(s)
  <2>1. e # Absent /\ e \in Values /\ Lists!Ends(q, 1, sleft) = <<e>>
    BY <1>2, EndIs
  <2>2. q # <<>> /\ q \in Seq(Values) /\ Len(q) = Size(s)
    BY <1>2, LiveHolds
  <2>3. CASE s = d /\ sleft # dleft /\ Size(s) > 1 /\ Rotate(s, sleft, dleft, e)
    BY <1>2, <2>3, RotateStep
  <2>4. CASE s # d /\ Transfer(s, d, sleft, dleft, e)
    BY <1>2, <2>4, TransferStep
  <2>5. CASE s = d /\ (sleft = dleft \/ Size(s) = 1) /\ Reply(<<e>>)
    <3>. DEFINE r == Lists!Rest(q, 1, sleft)
                t == IF dleft THEN <<e>> \o r ELSE r \o <<e>>
    <3>1. Inv' /\ UNCHANGED Sequence /\ ret' = <<e>>
      BY <2>5, Replied DEF Reply
    <3>2. t = q
      <4>1. /\ sleft => <<e>> \o r = q
            /\ ~sleft => r \o <<e>> = q
            /\ Len(q) = 1 => <<e>> \o r = q /\ r \o <<e>> = q
        BY <2>1, <2>2, PutBack
      <4>. HIDE DEF r, q
      <4>2. CASE dleft
        BY <2>2, <2>5, <4>1, <4>2
      <4>3. CASE ~dleft
        BY <2>2, <2>5, <4>1, <4>3
      <4>. QED
        BY <4>2, <4>3
    <3>. HIDE DEF r
    <3>. DEFINE taken == [Sequence EXCEPT ![s] = r]
    <3>3. Sequence' = [taken EXCEPT ![s] = IF dleft THEN <<e>> \o @ ELSE @ \o <<e>>]
      <4>1. Sequence' = [Sequence EXCEPT ![s] = t]
        BY <3>1, <3>2, SequenceIs
      <4>. HIDE DEF e
      <4>. QED
        BY <4>1, SequenceIs
    <3>. QED
      BY <2>1, <2>2, <2>5, <3>1, <3>3 DEF Lists!LMove, r
  <2>. QED
    BY <1>2, <2>1, <2>3, <2>4, <2>5 DEF LMove
<1>. QED
  BY <1>1, <1>2

----------------------------------------------------------------------------
(* What others do to a list key.                                           *)

\* An expiry that passes, and a removal.
LEMMA VanishStep ==
    ASSUME ListAssumption, Inv, NEW k \in Keys, Lapse(k) \/ Erase(k)
    PROVE  Inv' /\ Lists!Vanish(k)
<1>1. CASE Lapse(k)
  <2>. DEFINE m == [meta[k] EXCEPT !.lapsed = TRUE]
              s == Sequence[k]
  <2>1. Live(k) /\ meta' = [meta EXCEPT ![k].lapsed = TRUE] /\ item' = item /\ ret' = ret
    BY <1>1 DEF Lapse
  <2>2. meta' = [meta EXCEPT ![k] = m] /\ item' = [item EXCEPT ![k] = item[k]]
    BY <2>1 DEF Inv, TypeOK
  <2>3. Holds(meta[k], item[k], s) /\ Size(k) > 0
    BY <2>1, LiveHolds DEF ListAssumption
  <2>4. m \in Metas /\ m.head = meta[k].head /\ m.tail = meta[k].tail /\ m.size = meta[k].size /\ m.lapsed
    BY <2>3 DEF Holds, Metas
  <2>. HIDE DEF m
  <2>5. Holds(m, item[k], s) /\ m.size > 0 /\ s \in Seq(Values)
    BY <2>3, <2>4 DEF Holds, Size
  <2>6. Inv' /\ Sequence' = [Sequence EXCEPT ![k] = SeqIn(m, item[k])]
    BY <2>2, <2>5, Replaced
  <2>7. SeqIn(m, item[k]) = <<>>
    BY <2>4 DEF SeqIn
  <2>. QED
    BY <2>1, <2>6, <2>7 DEF Lists!Vanish
<1>2. CASE Erase(k)
  BY <1>2, Cleared DEF Erase, Lists!Vanish
<1>. QED
  BY <1>1, <1>2

----------------------------------------------------------------------------
(* Reading.                                                                *)

\* LRANGE answers the stretch between its two positions, with indexes from
\* either end, in or out of range.
LEMMA LRangeIs ==
    ASSUME ListAssumption, Inv, NEW k \in Keys, NEW i \in Int, NEW j \in Int
    PROVE  LRange(k, i, j) =
               LET s == Sequence[k]
                   a == IF i < 0 THEN Len(s) + i + 1 ELSE i + 1
                   b == IF j < 0 THEN Len(s) + j + 1 ELSE j + 1
               IN  SubSeq(s, IF a < 1 THEN 1 ELSE a, IF b > Len(s) THEN Len(s) ELSE b)
<1>. DEFINE s == Sequence[k]
            z == Len(s)
            a == IF i < 0 THEN z + i + 1 ELSE i + 1
            b == IF j < 0 THEN z + j + 1 ELSE j + 1
            c == IF a < 1 THEN 1 ELSE a
            d == IF b > z THEN z ELSE b
            r == Normalize(i, j, Size(k))
<1>1. CASE ~Live(k)
  <2>1. s = <<>> /\ LRange(k, i, j) = <<>>
    BY <1>1, SequenceIs DEF LRange
  <2>2. z = 0
    BY <2>1
  <2>. HIDE DEF z
  <2>3. c \in Int /\ d \in Int /\ d < c
    BY <2>2
  <2>. HIDE DEF c, d, s
  <2>4. SubSeq(s, c, d) = <<>>
    BY <2>3, SubSeqEmpty
  <2>. QED
    BY <2>1, <2>4 DEF c, d, s, z
<1>2. CASE Live(k)
  <2>1. Holds(meta[k], item[k], s) /\ s \in Seq(Values) /\ z = Size(k) /\ z \in Nat /\ z >= 1
    BY <1>2, LiveHolds, LenProperties
  <2>2. /\ r.s = LET u == IF i < 0 THEN z + i ELSE i IN IF u < 0 THEN 0 ELSE u
        /\ r.e = LET u == IF j < 0 THEN z + j ELSE j IN IF u >= z THEN z - 1 ELSE u
    BY <2>1 DEF Normalize
  <2>3. LRange(k, i, j) = IF r.s > r.e THEN <<>> ELSE Scan(k, r.s, r.e)
    BY <1>2 DEF LRange
  <2>. HIDE DEF s, z, r
  <2>4. r.s \in Nat /\ r.e \in Int /\ r.e < z /\ r.s + 1 = c /\ r.e + 1 = d /\ c \in Int /\ d \in Int
    BY <2>1, <2>2
  <2>. HIDE DEF c, d
  <2>5. CASE r.s > r.e
    <3>1. d < c
      BY <2>4, <2>5
    <3>2. SubSeq(s, c, d) = <<>>
      BY <2>4, <3>1, SubSeqEmpty
    <3>. QED
      BY <2>3, <2>5, <3>2 DEF c, d, s, z
  <2>6. CASE ~(r.s > r.e)
    <3>1. r.s \in 0 .. (z - 1) /\ r.e \in r.s .. (z - 1)
      BY <2>1, <2>4, <2>6
    <3>2. Scan(k, r.s, r.e) = SubSeq(s, r.s + 1, r.e + 1)
      BY <2>1, <3>1, ScanIs DEF z
    <3>. QED
      BY <2>3, <2>4, <2>6, <3>2 DEF c, d, s, z
  <2>. QED
    BY <2>5, <2>6
<1>. QED
  BY <1>1, <1>2

\* The members in their order are a sequence that grows.
LEMMA AscendingOrder ==
    ASSUME NEW S, S \subseteq Nat, IsFiniteSet(S)
    PROVE  /\ Ascending(S) \in Seq(Nat) /\ Ascending(S) \in Seq(S)
           /\ \A i, j \in 1 .. Cardinality(S) : i < j => Ascending(S)[i] < Ascending(S)[j]
<1>. DEFINE f == Ascending(S)
            c == Cardinality(S)
<1>1. /\ c \in Nat /\ Len(f) = c
      /\ \A n \in 1 .. c : f[n] \in S /\ Cardinality(Below(S, f[n])) = n - 1
  BY AscendingIs
<1>2. f = [n \in 1 .. c |-> f[n]]
  BY SMTT(30) DEF Ascending
<1>. HIDE DEF f, c
<1>3. f \in Seq(S) /\ f \in Seq(Nat)
  <2>1. f \in [1 .. c -> S] /\ f \in [1 .. c -> Nat]
    BY <1>1, <1>2
  <2>. QED
    BY <1>1, <2>1
<1>4. ASSUME NEW i \in 1 .. c, NEW j \in 1 .. c, i < j
      PROVE  f[i] < f[j]
  <2>1. f[i] \in S /\ f[j] \in S /\ f[i] \in Nat /\ f[j] \in Nat
    BY <1>1
  <2>2. Cardinality(Below(S, f[i])) < Cardinality(Below(S, f[j]))
    BY <1>1, <1>4
  <2>3. Cardinality(Below(S, f[i])) \in Nat /\ Cardinality(Below(S, f[j])) \in Nat
    BY FiniteRank
  <2>4. CASE f[j] = f[i]
    BY <2>2, <2>3, <2>4
  <2>5. CASE f[j] < f[i]
    <3>1. Cardinality(Below(S, f[j])) < Cardinality(Below(S, f[i]))
      BY <2>1, <2>5, RankOrder
    <3>. QED
      BY <2>2, <2>3, <3>1
  <2>. QED
    BY <2>1, <2>4, <2>5
<1>. QED
  BY <1>3, <1>4 DEF f, c

\* How many positions lie up to one, and how many from it on.
LEMMA PositionsAround ==
    ASSUME NEW S, S \subseteq Nat, IsFiniteSet(S), NEW o \in S
    PROVE  /\ o \in Nat /\ Cardinality(Below(S, o)) \in Nat /\ Cardinality(S) \in Nat
           /\ Cardinality({r \in Up(S) : r <= o + 1}) = Cardinality(Below(S, o)) + 1
           /\ Cardinality({q \in Up(S) : q >= o + 1}) = Cardinality(S) - Cardinality(Below(S, o))
<1>. DEFINE B == Below(S, o)
<1>1. o \in Nat /\ B \subseteq S /\ IsFiniteSet(B) /\ Cardinality(B) \in Nat /\ Cardinality(S) \in Nat /\ o \notin B
  <2>1. o \in Nat /\ B \subseteq S
    BY DEF Below
  <2>2. IsFiniteSet(B) /\ Cardinality(B) \in Nat
    BY FiniteRank
  <2>3. Cardinality(S) \in Nat
    BY FS_CardinalityType
  <2>4. o \notin B
    BY BelowIs
  <2>. QED
    BY <2>1, <2>2, <2>3, <2>4
<1>2. \A y \in S : y \in Nat /\ (y + 1 <= o + 1 <=> y < o \/ y = o) /\ (y + 1 >= o + 1 <=> ~(y < o))
  BY <1>1
<1>3. {r \in Up(S) : r <= o + 1} = Up(B \cup {o})
  BY <1>2 DEF Up, Below
<1>4. {q \in Up(S) : q >= o + 1} = Up(S \ B)
  BY <1>2 DEF Up, Below
<1>. HIDE DEF B
<1>5. Cardinality(Up(B \cup {o})) = Cardinality(B) + 1
  <2>1. B \cup {o} \subseteq Nat
    BY <1>1
  <2>2. IsFiniteSet(B \cup {o}) /\ Cardinality(B \cup {o}) = Cardinality(B) + 1
    BY <1>1, FS_AddElement
  <2>. QED
    BY <2>1, <2>2, UpSize
<1>6. Cardinality(Up(S \ B)) = Cardinality(S) - Cardinality(B)
  <2>1. S \cap B = B /\ S \ B \subseteq Nat
    BY <1>1
  <2>2. IsFiniteSet(S \ B) /\ Cardinality(S \ B) = Cardinality(S) - Cardinality(S \cap B)
    BY FS_Difference
  <2>. QED
    BY <2>1, <2>2, UpSize
<1>. QED
  BY <1>1, <1>3, <1>4, <1>5, <1>6 DEF B

\* The offsets of the elements of s that are v.
Hits(s, v) == {o \in 0 .. (Len(s) - 1) : s[o + 1] = v}

\* lpos over a whole list takes its matches from one end or the other, skips
\* those before the rank-th and stops at the limit.
LEMMA LPosTakes ==
    ASSUME ListAssumption, Inv, NEW k \in Keys, Live(k), NEW v, NEW rank \in Int, NEW limit
    PROVE  LET seen == Ascending(Hits(Sequence[k], v))
               hits == IF rank > 0 THEN seen ELSE Reverse(seen)
               skip == IF rank > 0 THEN rank - 1 ELSE -rank - 1
           IN  LPos(k, v, rank, limit, MaxLen) =
                   SubSeq(hits, skip + 1, IF limit < Len(hits) - skip THEN skip + limit ELSE Len(hits))
<1>. DEFINE M == Hits(Sequence[k], v)
            near == {o \in Matches(k, v) : IF rank > 0 THEN o < MaxLen ELSE o >= Size(k) - MaxLen}
<1>1. Len(Sequence[k]) = Size(k) /\ Size(k) \in 1 .. MaxLen /\ MaxLen \in Nat
  BY LiveHolds DEF ListAssumption
<1>2. Matches(k, v) = M
  BY <1>1, MatchesIs DEF Hits
<1>3. \A o \in M : o < MaxLen /\ o >= Size(k) - MaxLen
  BY <1>1 DEF Hits
<1>. HIDE DEF M
<1>4. near = M
  BY <1>2, <1>3
<1>5. LPos(k, v, rank, limit, MaxLen) =
         LET hits == IF rank > 0 THEN Ascending(near) ELSE Reverse(Ascending(near))
             skip == IF rank > 0 THEN rank - 1 ELSE -rank - 1
         IN  SubSeq(hits, skip + 1, IF limit < Len(hits) - skip THEN skip + limit ELSE Len(hits))
  BY Zenon DEF LPos
<1>. HIDE DEF near
<1>. QED
  BY Zenon, <1>4, <1>5 DEF M

\* What is known of the matches in a live list.
LEMMA HitsAre ==
    ASSUME NEW s \in Seq(Values), NEW v
    PROVE  /\ Hits(s, v) \subseteq Nat /\ IsFiniteSet(Hits(s, v)) /\ Cardinality(Hits(s, v)) \in Nat
           /\ {p \in 1 .. Len(s) : s[p] = v} = Up(Hits(s, v))
<1>. DEFINE z == Len(s)
            M == Hits(s, v)
<1>1. z \in Nat
  BY LenProperties
<1>2. M \subseteq 0 .. (z - 1) /\ 0 .. (z - 1) \subseteq Nat
  BY <1>1 DEF Hits
<1>3. IsFiniteSet(0 .. (z - 1))
  <2>1. \A a, b \in Int : IsFiniteSet(a .. b)
    BY FS_Interval
  <2>. DEFINE a == 0
              b == z - 1
  <2>2. a \in Int /\ b \in Int
    BY <1>1
  <2>. HIDE DEF a, b
  <2>3. IsFiniteSet(a .. b)
    BY <2>1, <2>2
  <2>. QED
    BY <2>3 DEF a, b
<1>4. M \subseteq Nat /\ IsFiniteSet(M) /\ Cardinality(M) \in Nat
  BY <1>2, <1>3, FS_Subset, FS_CardinalityType
<1>5. ASSUME NEW p \in {q \in 1 .. z : s[q] = v} PROVE p \in Up(M)
  <2>1. p - 1 \in 0 .. (z - 1) /\ (p - 1) + 1 = p /\ s[p] = v
    BY <1>1
  <2>. QED
    BY <2>1 DEF Up, Hits
<1>6. ASSUME NEW p \in Up(M) PROVE p \in {q \in 1 .. z : s[q] = v}
  <2>1. PICK o \in M : p = o + 1
    BY DEF Up
  <2>2. o \in 0 .. (z - 1) /\ s[o + 1] = v
    BY <2>1 DEF Hits
  <2>3. o + 1 \in 1 .. z
    BY <1>1, <2>2
  <2>. QED
    BY <2>1, <2>2, <2>3
<1>. QED
  BY <1>4, <1>5, <1>6

\* The first n members, or all when there are fewer, are those with at most n
\* positions up to theirs.
LEMMA FirstMatches ==
    ASSUME NEW S, S \subseteq Nat, IsFiniteSet(S), NEW n \in Nat
    PROVE  LET few == SubSeq(Ascending(S), 1, IF n < Cardinality(S) THEN n ELSE Cardinality(S))
               at == Up(S)
           IN  /\ Range(few) = {p - 1 : p \in {q \in at : Cardinality({r \in at : r <= q}) <= n}}
               /\ \A i, j \in 1 .. Len(few) : i < j => few[i] < few[j]
<1>. DEFINE f == Ascending(S)
            c == Cardinality(S)
            top == IF n < c THEN n ELSE c
            one == 1
            few == SubSeq(f, one, top)
            at == Up(S)
            rank(x) == Cardinality(Below(S, x))
<1>1. /\ c \in Nat /\ Len(f) = c /\ f \in Seq(Nat)
      /\ \A i \in 1 .. c : f[i] \in S /\ rank(f[i]) = i - 1
      /\ \A x \in S : rank(x) + 1 \in 1 .. c /\ f[rank(x) + 1] = x
      /\ \A i, j \in 1 .. c : i < j => f[i] < f[j]
  BY AscendingIs, AscendingOrder
<1>2. /\ one \in 1 .. (c + 1) /\ top \in 0 .. c /\ one <= top + 1 /\ top - one + 1 = top
      /\ top <= n /\ \A i \in 1 .. top : one + i - 1 = i /\ i \in 1 .. c
      /\ \A i \in 1 .. c : i <= n => i \in 1 .. top
  BY <1>1
<1>3. \A x \in S : /\ x \in Nat /\ x + 1 \in at /\ rank(x) \in Nat
                   /\ Cardinality({r \in at : r <= x + 1}) = rank(x) + 1
  BY PositionsAround DEF Up
<1>. HIDE DEF f, c, top, one, rank
<1>4. few \in Seq(Nat) /\ Len(few) = top /\ \A i \in 1 .. top : few[i] = f[i]
  BY SMTT(30), <1>1, <1>2, Stretch
<1>5. DOMAIN few = 1 .. top
  BY <1>4, LenProperties
<1>. HIDE DEF few
<1>6. Range(few) = {f[i] : i \in 1 .. top}
  BY <1>4, <1>5 DEF Range
<1>7. {f[i] : i \in 1 .. top} = {x \in S : rank(x) + 1 <= n}
  <2>1. ASSUME NEW i \in 1 .. top PROVE f[i] \in S /\ rank(f[i]) + 1 <= n
    <3>1. i \in 1 .. c /\ i \in Int /\ i <= n /\ (i - 1) + 1 = i
      BY <1>2
    <3>2. f[i] \in S /\ rank(f[i]) = i - 1
      BY <1>1, <3>1
    <3>. QED
      BY <3>1, <3>2
  <2>2. ASSUME NEW x \in S, rank(x) + 1 <= n PROVE \E i \in 1 .. top : x = f[i]
    <3>1. rank(x) + 1 \in 1 .. top /\ f[rank(x) + 1] = x
      BY <1>1, <1>2, <2>2
    <3>. QED
      BY <3>1
  <2>. QED
    BY <2>1, <2>2
<1>8. {p - 1 : p \in {q \in at : Cardinality({r \in at : r <= q}) <= n}} = {x \in S : rank(x) + 1 <= n}
  <2>. DEFINE upto(q) == Cardinality({r \in at : r <= q})
  <2>1. \A x \in S : x \in Nat /\ x + 1 \in at /\ upto(x + 1) = rank(x) + 1
    BY <1>3
  <2>2. \A q \in at : \E x \in S : q = x + 1
    BY DEF Up
  <2>. HIDE DEF upto, at
  <2>3. ASSUME NEW q \in {u \in at : upto(u) <= n} PROVE q - 1 \in S /\ rank(q - 1) + 1 <= n
    <3>1. PICK x \in S : q = x + 1
      BY <2>2
    <3>2. q - 1 = x
      BY <2>1, <3>1
    <3>. QED
      BY <2>1, <3>1, <3>2
  <2>4. ASSUME NEW x \in S, rank(x) + 1 <= n PROVE \E q \in {u \in at : upto(u) <= n} : x = q - 1
    <3>1. x + 1 \in {u \in at : upto(u) <= n} /\ x = (x + 1) - 1
      BY <2>1, <2>4
    <3>. QED
      BY <3>1
  <2>5. {p - 1 : p \in {q \in at : upto(q) <= n}} = {x \in S : rank(x) + 1 <= n}
    BY <2>3, <2>4
  <2>. QED
    BY <2>5 DEF upto
<1>9. \A i, j \in 1 .. Len(few) : i < j => few[i] < few[j]
  BY <1>1, <1>2, <1>4
<1>. QED
  BY <1>6, <1>7, <1>8, <1>9 DEF few, f, c, top, one

\* The n-th member from the end is the one with n positions from its own on.
LEMMA LastMatch ==
    ASSUME NEW S, S \subseteq Nat, IsFiniteSet(S), NEW n \in Nat, n >= 1
    PROVE  LET fromEnd == {p \in Up(S) : Cardinality({q \in Up(S) : q >= p}) = n}
           IN  SubSeq(Reverse(Ascending(S)), n, IF n < Cardinality(S) THEN n ELSE Cardinality(S)) =
                   IF fromEnd = {} THEN <<>> ELSE <<(CHOOSE p \in fromEnd : TRUE) - 1>>
<1>. DEFINE f == Ascending(S)
            c == Cardinality(S)
            top == IF n < c THEN n ELSE c
            at == Up(S)
            from(p) == Cardinality({q \in at : q >= p})
            fromEnd == {p \in at : from(p) = n}
            rank(x) == Cardinality(Below(S, x))
            last == SubSeq(Reverse(f), n, top)
<1>1. /\ c \in Nat /\ Len(f) = c /\ f \in Seq(Nat)
      /\ \A i \in 1 .. c : f[i] \in S /\ rank(f[i]) = i - 1
      /\ \A x \in S : rank(x) + 1 \in 1 .. c /\ f[rank(x) + 1] = x
  BY AscendingIs, AscendingOrder
<1>2. \A x \in S : x \in Nat /\ x + 1 \in at /\ rank(x) \in Nat /\ from(x + 1) = c - rank(x)
  BY PositionsAround DEF Up
<1>3. \A q \in at : \E x \in S : q = x + 1
  BY DEF Up
<1>. HIDE DEF f, c, at, rank, from
<1>4. /\ Reverse(f) \in Seq(Nat) /\ Len(Reverse(f)) = c
      /\ \A i \in 1 .. c : Reverse(f)[i] = f[c - i + 1]
  BY <1>1, ReverseIs
<1>5. \A p \in at : p \in fromEnd <=> \E x \in S : p = x + 1 /\ c - rank(x) = n
  BY <1>2, <1>3
<1>6. CASE n > c
  <2>1. fromEnd = {}
    <3>1. \A x \in S : c - rank(x) # n
      BY <1>1, <1>2, <1>6
    <3>. QED
      BY <1>5, <3>1
  <2>2. top < n /\ top \in Int /\ n \in Int
    BY <1>1, <1>6
  <2>. HIDE DEF top
  <2>3. last = <<>>
    BY <2>2, SubSeqEmpty
  <2>. QED
    BY <2>1, <2>3 DEF top, c, f, at, from
<1>7. CASE ~(n > c)
  <2>. DEFINE x == f[c - n + 1]
  <2>1. top = n /\ n \in 1 .. c /\ c - n + 1 \in 1 .. c /\ (c - n + 1) - 1 = c - n /\ c - (c - n) = n
    BY <1>1, <1>7
  <2>2. x \in S /\ rank(x) = c - n /\ x \in Nat
    BY <1>1, <1>2, <2>1
  <2>3. \A y \in S : c - rank(y) = n => y = x
    <3>. SUFFICES ASSUME NEW y \in S, c - rank(y) = n PROVE y = x
      OBVIOUS
    <3>1. rank(y) + 1 = c - n + 1
      BY SMTT(30), <1>1, <1>2
    <3>. QED
      BY <1>1, <3>1
  <2>4. x + 1 \in at /\ c - rank(x) = n
    BY <1>2, <2>1, <2>2
  <2>5. Reverse(f)[n] = x
    BY <1>4, <2>1
  <2>. HIDE DEF x
  <2>6. fromEnd = {x + 1}
    BY <1>5, <2>2, <2>3, <2>4
  <2>7. (CHOOSE p \in fromEnd : TRUE) = x + 1
    BY <2>6
  <2>8. SubSeq(Reverse(f), n, n) = <<Reverse(f)[n]>>
    BY <1>4, <2>1, OneAt
  <2>9. (x + 1) - 1 = x
    BY <2>2
  <2>. HIDE DEF fromEnd
  <2>10. fromEnd # {}
    BY <2>6
  <2>11. last = <<(CHOOSE p \in fromEnd : TRUE) - 1>>
    BY <2>1, <2>5, <2>7, <2>8, <2>9
  <2>. QED
    BY <2>10, <2>11 DEF fromEnd, top, c, f, at, from
<1>. QED
  BY <1>6, <1>7

\* LPOS answers the first n matches, or the n-th from the end, and nothing
\* of a list that is not there.
LEMMA LPosIs ==
    ASSUME ListAssumption, Inv, NEW k \in Keys, NEW v, NEW n \in 1 .. MaxLen
    PROVE  LET s == Sequence[k]
               at == {p \in 1 .. Len(s) : s[p] = v}
               few == LPos(k, v, 1, n, MaxLen)
               fromEnd == {p \in at : Cardinality({q \in at : q >= p}) = n}
           IN  /\ Range(few) = {p - 1 : p \in {q \in at : Cardinality({r \in at : r <= q}) <= n}}
               /\ \A i, j \in 1 .. Len(few) : i < j => few[i] < few[j]
               /\ LPos(k, v, -n, 1, MaxLen) =
                      IF fromEnd = {} THEN <<>> ELSE <<(CHOOSE p \in fromEnd : TRUE) - 1>>
<1>. DEFINE s == Sequence[k]
            at == {p \in 1 .. Len(s) : s[p] = v}
            few == LPos(k, v, 1, n, MaxLen)
            last == LPos(k, v, -n, 1, MaxLen)
            fromEnd == {p \in at : Cardinality({q \in at : q >= p}) = n}
<1>0. n \in Nat /\ n \in Int /\ n >= 1
  BY DEF ListAssumption
<1>1. CASE ~Live(k)
  <2>1. s = <<>>
    BY <1>1, SequenceIs
  <2>2. few = <<>> /\ last = <<>>
    BY Zenon, <1>1 DEF LPos
  <2>3. at = {}
    BY <2>1
  <2>. HIDE DEF few, at, last
  <2>4. Range(few) = {} /\ Len(few) = 0
    BY <2>2 DEF Range
  <2>5. fromEnd = {} /\ {q \in at : Cardinality({r \in at : r <= q}) <= n} = {}
    BY <2>3
  <2>6. \A i, j \in 1 .. Len(few) : i < j => few[i] < few[j]
    BY <2>4
  <2>7. Range(few) = {p - 1 : p \in {q \in at : Cardinality({r \in at : r <= q}) <= n}}
    BY <2>4, <2>5
  <2>8. last = IF fromEnd = {} THEN <<>> ELSE <<(CHOOSE p \in fromEnd : TRUE) - 1>>
    BY <2>2, <2>5
  <2>. QED
    BY <2>6, <2>7, <2>8 DEF few, last, at, s
<1>2. CASE Live(k)
  <2>. DEFINE S == Hits(s, v)
              c == Cardinality(S)
              one == 1
              back == -n
  <2>1. s \in Seq(Values)
    BY <1>2, LiveHolds
  <2>2. S \subseteq Nat /\ IsFiniteSet(S) /\ c \in Nat /\ at = Up(S) /\ Len(Ascending(S)) = c
        /\ Len(Reverse(Ascending(S))) = c
    <3>1. S \subseteq Nat /\ IsFiniteSet(S) /\ c \in Nat /\ at = Up(S)
      BY <2>1, HitsAre
    <3>2. Len(Ascending(S)) = c /\ Ascending(S) \in Seq(Nat)
      BY <3>1, AscendingIs, AscendingOrder
    <3>3. Len(Reverse(Ascending(S))) = c
      BY <3>2, ReverseIs
    <3>. QED
      BY <3>1, <3>2, <3>3
  <2>3. one \in Int /\ one > 0 /\ one - 1 = 0 /\ 0 + 1 = one
    OBVIOUS
  <2>4. back \in Int /\ ~(back > 0) /\ -back = n
    <3>1. \A j \in Int : -j \in Int /\ -(-j) = j /\ (j >= 1 => ~(-j > 0))
      OBVIOUS
    <3>. QED
      BY <1>0, <3>1
  <2>. HIDE DEF s, S, c, one, back, at
  <2>5. LPos(k, v, one, n, MaxLen) = SubSeq(Ascending(S), 1, IF n < c THEN n ELSE c)
    <3>1. LPos(k, v, one, n, MaxLen) =
             LET skip == one - 1
             IN  SubSeq(Ascending(S), skip + 1, IF n < Len(Ascending(S)) - skip THEN skip + n ELSE Len(Ascending(S)))
      BY <1>2, <2>3, LPosTakes DEF S, s
    <3>2. one - 1 + 1 = 1 /\ c - (one - 1) = c /\ one - 1 + n = n
      BY <1>0, <2>2, <2>3
    <3>. QED
      BY <2>2, <3>1, <3>2
  <2>6. LPos(k, v, back, one, MaxLen) = SubSeq(Reverse(Ascending(S)), n, IF n < c THEN n ELSE c)
    <3>. DEFINE h == Reverse(Ascending(S))
    <3>1. LPos(k, v, back, one, MaxLen) =
             LET skip == -back - 1
             IN  SubSeq(h, skip + 1, IF one < Len(h) - skip THEN skip + one ELSE Len(h))
      BY <1>2, <2>4, LPosTakes DEF S, s
    <3>2. -back - 1 + 1 = n /\ -back - 1 + one = n /\ (one < c - (-back - 1) <=> n < c)
      BY <1>0, <2>2, <2>3, <2>4
    <3>3. Len(h) = c
      BY <2>2
    <3>. HIDE DEF h
    <3>4. LPos(k, v, back, one, MaxLen) = SubSeq(h, n, IF n < c THEN n ELSE c)
      BY <3>1, <3>2, <3>3
    <3>. QED
      BY <3>4 DEF h
  <2>7. /\ few = SubSeq(Ascending(S), 1, IF n < c THEN n ELSE c)
        /\ last = SubSeq(Reverse(Ascending(S)), n, IF n < c THEN n ELSE c)
    BY Zenon, <2>5, <2>6 DEF one, back
  <2>. HIDE DEF few, last
  <2>8. /\ Range(few) = {p - 1 : p \in {q \in at : Cardinality({r \in at : r <= q}) <= n}}
        /\ \A i, j \in 1 .. Len(few) : i < j => few[i] < few[j]
    <3>1. LET first == SubSeq(Ascending(S), 1, IF n < Cardinality(S) THEN n ELSE Cardinality(S))
              marks == Up(S)
          IN  /\ Range(first) = {p - 1 : p \in {q \in marks : Cardinality({r \in marks : r <= q}) <= n}}
              /\ \A i, j \in 1 .. Len(first) : i < j => first[i] < first[j]
      BY <1>0, <2>2, FirstMatches
    <3>2. at = Up(S)
      BY <2>2
    <3>. QED
      BY Zenon, <2>7, <3>1, <3>2 DEF c
  <2>9. last = IF fromEnd = {} THEN <<>> ELSE <<(CHOOSE p \in fromEnd : TRUE) - 1>>
    <3>1. LET ends == {p \in Up(S) : Cardinality({q \in Up(S) : q >= p}) = n}
          IN  SubSeq(Reverse(Ascending(S)), n, IF n < Cardinality(S) THEN n ELSE Cardinality(S)) =
                  IF ends = {} THEN <<>> ELSE <<(CHOOSE p \in ends : TRUE) - 1>>
      BY <1>0, <2>2, LastMatch
    <3>2. at = Up(S)
      BY <2>2
    <3>. QED
      BY Zenon, <2>7, <3>1, <3>2 DEF c
  <2>. QED
    BY <2>8, <2>9 DEF few, last, at, s
<1>. QED
  BY <1>1, <1>2

\* The invariant makes every read exact.
LEMMA InvReads ==
    ASSUME ListAssumption, Inv
    PROVE  ReadsExact
<1>1. Indexes \subseteq Int
  BY DEF ListAssumption
<1>2. ASSUME NEW k \in Keys, NEW i \in Indexes, NEW j \in Indexes
      PROVE  LRange(k, i, j) =
                 LET s == Sequence[k]
                     a == IF i < 0 THEN Len(s) + i + 1 ELSE i + 1
                     b == IF j < 0 THEN Len(s) + j + 1 ELSE j + 1
                 IN  SubSeq(s, IF a < 1 THEN 1 ELSE a, IF b > Len(s) THEN Len(s) ELSE b)
  BY <1>1, LRangeIs
<1>. QED
  BY Zenon, <1>2, LPosIs DEF ReadsExact

----------------------------------------------------------------------------
(* The store implements the sequences.                                     *)

\* The invariant holds at the start, where every list is empty.
LEMMA InitInv ==
    ASSUME ListAssumption, Init
    PROVE  Inv /\ Lists!Init
<1>1. TypeOK
  BY DEF Init, TypeOK, NoItems
<1>2. \A k \in Keys : Good(meta[k], item[k])
  BY DEF Init, Good
<1>3. Sequence = [k \in Keys |-> <<>>]
  BY SequenceIs DEF Init, Live
<1>. QED
  BY <1>1, <1>2, <1>3 DEF Inv, Init, Lists!Init, Ok, Lists!Ok

\* Every step keeps the invariant and is a step of RedisLists.
LEMMA NextStep ==
    ASSUME ListAssumption, Inv, [Next]_vars
    PROVE  Inv' /\ [Lists!Next]_(Lists!vars)
<1>1. CASE UNCHANGED vars
  BY <1>1, Replied DEF vars, Lists!vars
<1>2. CASE Next
  <2>1. PICK k \in Keys, left \in BOOLEAN :
           \/ \E vs \in Pushes, create \in BOOLEAN :
                 asked' = <<"push", k, vs, left, create>> /\ Push(k, vs, left, create)
           \/ \E n \in Counts : asked' = <<"pop", k, n, left>> /\ Pop(k, n, left)
           \/ \E d \in Keys, n \in Counts : asked' = <<"lmpop", k, d, n, left>> /\ LMPop(<<k, d>>, n, left)
           \/ \E i \in Indexes, v \in Values : asked' = <<"set", k, i, v>> /\ LSet(k, i, v)
           \/ \E i, j \in Indexes : asked' = <<"trim", k, i, j>> /\ LTrim(k, i, j)
           \/ \E p, v \in Values : asked' = <<"insert", k, left, p, v>> /\ LInsert(k, left, p, v)
           \/ \E c \in RemCounts, v \in Values : asked' = <<"remove", k, c, v>> /\ LRem(k, c, v)
           \/ \E d \in Keys, dleft \in BOOLEAN :
                 asked' = <<"move", k, d, left, dleft>> /\ LMove(k, d, left, dleft)
           \/ asked' = <<"vanish", k>> /\ (Lapse(k) \/ Erase(k))
    BY <1>2 DEF Next
  <2>2. ASSUME NEW vs \in Pushes, NEW create \in BOOLEAN,
               asked' = <<"push", k, vs, left, create>>, Push(k, vs, left, create)
        PROVE  Inv' /\ Lists!Next
    BY <2>2, PushStep, Zenon DEF Lists!Next
  <2>3. ASSUME NEW n \in Counts, asked' = <<"pop", k, n, left>>, Pop(k, n, left)
        PROVE  Inv' /\ Lists!Next
    BY <2>3, PopStep, Zenon DEF Lists!Next
  <2>4. ASSUME NEW d \in Keys, NEW n \in Counts, asked' = <<"lmpop", k, d, n, left>>, LMPop(<<k, d>>, n, left)
        PROVE  Inv' /\ Lists!Next
    BY <2>4, LMPopStep, Zenon DEF Lists!Next
  <2>5. ASSUME NEW i \in Indexes, NEW v \in Values, asked' = <<"set", k, i, v>>, LSet(k, i, v)
        PROVE  Inv' /\ Lists!Next
    BY <2>5, SetStep, Zenon DEF Lists!Next
  <2>6. ASSUME NEW i \in Indexes, NEW j \in Indexes, asked' = <<"trim", k, i, j>>, LTrim(k, i, j)
        PROVE  Inv' /\ Lists!Next
    BY <2>6, TrimStep, Zenon DEF Lists!Next
  <2>7. ASSUME NEW p \in Values, NEW v \in Values, asked' = <<"insert", k, left, p, v>>, LInsert(k, left, p, v)
        PROVE  Inv' /\ Lists!Next
    BY <2>7, InsertStep, Zenon DEF Lists!Next
  <2>8. ASSUME NEW c \in RemCounts, NEW v \in Values, asked' = <<"remove", k, c, v>>, LRem(k, c, v)
        PROVE  Inv' /\ Lists!Next
    BY <2>8, RemStep, Zenon DEF Lists!Next
  <2>9. ASSUME NEW d \in Keys, NEW dleft \in BOOLEAN,
               asked' = <<"move", k, d, left, dleft>>, LMove(k, d, left, dleft)
        PROVE  Inv' /\ Lists!Next
    BY <2>9, MoveStep, Zenon DEF Lists!Next
  <2>10. ASSUME asked' = <<"vanish", k>>, Lapse(k) \/ Erase(k)
         PROVE  Inv' /\ Lists!Next
    BY <2>10, VanishStep, Zenon DEF Lists!Next
  <2>. QED
    BY <2>1, <2>2, <2>3, <2>4, <2>5, <2>6, <2>7, <2>8, <2>9, <2>10
<1>. QED
  BY <1>1, <1>2

\* The window of a record and items that hold a sequence.
LEMMA InvWindow ==
    ASSUME ListAssumption, Inv
    PROVE  WindowExact
<1>. SUFFICES ASSUME NEW k \in Keys
              PROVE  IF meta[k] = Absent THEN item[k] = NoItems
                     ELSE /\ meta[k].size > 0
                          /\ meta[k].tail = At(k, Size(k))
                          /\ \A i \in Index : item[k][i] # Absent <=> \E o \in Offsets(k) : i = At(k, o)
  BY DEF WindowExact
<1>1. Good(meta[k], item[k])
  BY DEF Inv
<1>2. CASE meta[k] = Absent
  BY <1>1, <1>2 DEF Good
<1>3. CASE meta[k] # Absent
  <2>1. PICK s \in Seq(Values) : Holds(meta[k], item[k], s)
    BY <1>1, <1>3 DEF Good
  <2>2. meta[k].size > 0 /\ meta[k].tail = At(k, Size(k))
    BY <1>1, <1>3, <2>1 DEF Good, Holds, At, Size
  <2>3. ASSUME NEW i \in Index
        PROVE  item[k][i] # Absent <=> \E o \in Offsets(k) : i = At(k, o)
    <3>. DEFINE x == Off(meta[k].head, i)
                z == Len(s)
    <3>1. /\ x \in Nat /\ x < Width
          /\ \A o \in 0 .. (Width - 1) : At(k, o) = i <=> x = o
          /\ item[k][i] = IF x < z THEN s[x + 1] ELSE Absent
      BY <2>1, AtIs
    <3>2. z \in Nat /\ z = meta[k].size /\ z < Width /\ Width \in Nat /\ \A p \in 1 .. z : s[p] # Absent
      BY <2>1, HoldsSize
    <3>. HIDE DEF x, z
    <3>3. item[k][i] # Absent <=> x < z
      <4>1. x < z => x + 1 \in 1 .. z
        BY <3>1, <3>2
      <4>. QED
        BY <3>1, <3>2, <4>1
    <3>4. (\E o \in Offsets(k) : i = At(k, o)) <=> x < z
      <4>1. Offsets(k) = 0 .. (z - 1)
        BY <3>2 DEF Offsets, Size
      <4>2. \A o \in 0 .. (z - 1) : o \in 0 .. (Width - 1) /\ o < z
        BY <3>2
      <4>3. \A o \in 0 .. (z - 1) : i = At(k, o) <=> x = o
        BY <3>1, <4>2
      <4>4. x < z => x \in 0 .. (z - 1)
        BY <3>1, <3>2
      <4>. QED
        BY <4>1, <4>2, <4>3, <4>4
    <3>. QED
      BY <3>3, <3>4
  <2>. QED
    BY <1>3, <2>2, <2>3
<1>. QED
  BY <1>2, <1>3

\* The invariant holds in every reachable state.
LEMMA Invariance ==
    ASSUME ListAssumption
    PROVE  Spec => []Inv
<1>1. Init => Inv
  BY InitInv
<1>2. Inv /\ [Next]_vars => Inv'
  BY NextStep
<1>. QED
  BY <1>1, <1>2, PTL DEF Spec

\* A list's record and items have their types after every command: no index
\* leaves the range of the keys, however often head and tail wrap around it.
THEOREM TypeCorrect ==
    ASSUME ListAssumption
    PROVE  Spec => []TypeOK
<1>1. Inv => TypeOK
  BY DEF Inv
<1>. QED
  BY <1>1, Invariance, PTL

\* After every command the items of a list are those of its window: an
\* insertion, a removal, a trim or a move leaves no hole inside it, and
\* nothing outside it that a later push, shift or scan would meet.
THEOREM WindowsExact ==
    ASSUME ListAssumption
    PROVE  Spec => []WindowExact
<1>1. Inv => WindowExact
  BY InvWindow
<1>. QED
  BY <1>1, Invariance, PTL

\* LRANGE and LPOS see the sequence that the other commands keep: every
\* stretch of it and the match of any rank from either end, on the ordered
\* path over the keys and item by item around the wrap.
THEOREM ReadsMatch ==
    ASSUME ListAssumption
    PROVE  Spec => []ReadsExact
<1>1. Inv => ReadsExact
  BY InvReads
<1>. QED
  BY <1>1, Invariance, PTL

\* The store of indexed items does, call by call, what the sequences of
\* RedisLists do, and answers the same: pushes and pops at both ends, writes
\* and removals in the middle, moves between lists and around one, expiry.
THEOREM StoreImplementsRedisLists ==
    ASSUME ListAssumption
    PROVE  Spec => ImplementsRedisLists
<1>1. Init => Inv /\ Lists!Init
  BY InitInv
<1>2. Inv /\ [Next]_vars => Inv' /\ [Lists!Next]_(Lists!vars)
  BY NextStep
<1>3. Inv /\ [Next]_vars => [[Lists!Next]_(Lists!vars)]_vars
  BY <1>2
<1>. QED
  BY <1>1, <1>2, <1>3, PTL DEF Spec, ImplementsRedisLists
=============================================================================
