------------------------------ MODULE ListStore ------------------------------
(***************************************************************************)
(* The lists of embed/src/api/list.  A list is a metadata record with the  *)
(* indexes head and tail and a size, and one item per index in             *)
(* [head, tail).  Indexes are unsigned and wrap around; a new list starts  *)
(* in the middle of their range.  Scans take a fast path over the ordered  *)
(* keys of the store when the window does not wrap, and look items up one  *)
(* by one when it does; an insertion or a removal in the middle moves      *)
(* items within the window.                                                *)
(*                                                                         *)
(* One caller at a time: each action is a whole handler with its one       *)
(* atomic batch.  Records of other types at a key belong to Keyspace; a    *)
(* key here holds a list or nothing.                                       *)
(***************************************************************************)
EXTENDS Integers, Sequences, FiniteSets, SequencesExt

CONSTANTS
    Keys, Values, Pushes, Counts, RemCounts, Indexes,   \* as in RedisLists
    Width,       \* the number of indexes, 2^64 in the code
    MaxLen,      \* bound: the longest list
    Absent       \* no record, no item

Index == 0 .. (Width - 1)

\* Mutant: indexes do not wrap.
AddUnwrapped(i, n) == i + n

\* wrapping_add and wrapping_sub.
Add(i, n) == (i + n) % Width

\* INITIAL_INDEX, u64::MAX / 2.
Initial == (Width - 1) \div 2

Metas == [head : Index, tail : Index, size : 0 .. MaxLen, lapsed : BOOLEAN]

ListAssumption ==
    /\ MaxLen \in Nat \ {0}
    /\ Width \in Nat
    /\ Width > MaxLen
    /\ Absent \notin Values \cup Metas
    /\ Pushes \subseteq Seq(Values)
    /\ Counts \subseteq Nat \ {0}
    /\ RemCounts \subseteq Int
    /\ Indexes \subseteq Int

VARIABLES
    meta,        \* the metadata record of each key; lapsed once its expiry passed
    item,        \* the items in partition data, by key and index
    asked, ret   \* the last call and its answer

vars == <<meta, item, asked, ret>>

Ok == <<>>
Err == <<-2>>

TypeOK ==
    /\ meta \in [Keys -> Metas \cup {Absent}]
    /\ item \in [Keys -> [Index -> Values \cup {Absent}]]

NoItems == [i \in Index |-> Absent]

\* The members of a finite set of numbers, in ascending order.
Ascending(S) ==
    [n \in 1 .. Cardinality(S) |-> CHOOSE x \in S : Cardinality({y \in S : y < x}) = n - 1]

\* The values of f that are there, in the order of their places.
Found(f) ==
    LET at == Ascending({x \in DOMAIN f : f[x] # Absent})
    IN  [n \in 1 .. Len(at) |-> f[at[n]]]

Init ==
    /\ meta = [k \in Keys |-> Absent]
    /\ item = [k \in Keys |-> NoItems]
    /\ asked = <<>>
    /\ ret = Ok

\* get_meta_checked finds a record that is neither expired nor empty.
Live(k) == meta[k] # Absent /\ meta[k].size > 0 /\ ~meta[k].lapsed

Reply(r) == ret' = r /\ UNCHANGED <<meta, item>>

\* The index of offset o of the list at k, and the item there.
At(k, o) == Add(meta[k].head, o)
Item(k, o) == item[k][At(k, o)]
Size(k) == meta[k].size
Offsets(k) == 0 .. (Size(k) - 1)

\* commit_list_batch: an empty list loses its record.
Commit(k, m, items, r) ==
    /\ meta' = [meta EXCEPT ![k] = IF m.size = 0 THEN Absent ELSE m]
    /\ item' = [item EXCEPT ![k] = items]
    /\ ret' = r

\* clear_prefix_in_batch over all items, and the record removed.
Clear(k, r) ==
    /\ meta' = [meta EXCEPT ![k] = Absent]
    /\ item' = [item EXCEPT ![k] = NoItems]
    /\ ret' = r

Fresh == [head |-> Initial, tail |-> Initial, size |-> 0, lapsed |-> FALSE]

\* Mutant: the items of an expired list stay under the new one.
PreparedStale(k) == IF Live(k) THEN [m |-> meta[k], items |-> item[k]]
                    ELSE [m |-> Fresh, items |-> item[k]]

\* prepare_list_meta_for_write: a new list begins with its items cleared.
Prepared(k) == IF Live(k) THEN [m |-> meta[k], items |-> item[k]]
               ELSE [m |-> Fresh, items |-> NoItems]

----------------------------------------------------------------------------
(* Push and pop.                                                           *)

\* push_index and an insertion into the batch for each element of vs in turn:
\* the j-th is stored one place further out than the one before.
Pushed(b, vs, left) ==
    LET n == Len(vs)
        at(j) == IF left THEN Add(b.m.head, -j) ELSE Add(b.m.tail, j - 1)
    IN  [m |-> [b.m EXCEPT !.head = IF left THEN Add(@, -n) ELSE @,
                           !.tail = IF left THEN @ ELSE Add(@, n), !.size = @ + n],
         items |-> [i \in Index |->
                       IF \E j \in 1 .. n : i = at(j) THEN vs[CHOOSE j \in 1 .. n : i = at(j)]
                       ELSE b.items[i]]]

\* Nothing is pushed, or nothing to a list that is not there.
Push(k, vs, left, create) ==
    \/ /\ vs # <<>>
       /\ create \/ Live(k)
       /\ LET b == Pushed(Prepared(k), vs, left)
          IN  /\ b.m.size <= MaxLen
              /\ Commit(k, b.m, b.items, <<b.m.size>>)
    \/ /\ vs = <<>> \/ (~create /\ ~Live(k))
       /\ Reply(<<0>>)

\* The offset the j-th pop takes, and the record after n pops.
PopOffset(k, j, left) == IF left THEN j - 1 ELSE Size(k) - j
Popped(m, n, left) ==
    IF left THEN [m EXCEPT !.head = Add(@, n), !.size = @ - n]
    ELSE [m EXCEPT !.tail = Add(@, -n), !.size = @ - n]

\* list_pop_internal for n elements of a live list, n at most its size.
PopItems(k, n, left, r) ==
    LET gone == {At(k, PopOffset(k, j, left)) : j \in 1 .. n}
    IN  Commit(k, Popped(meta[k], n, left),
               [i \in Index |-> IF i \in gone THEN Absent ELSE item[k][i]], r)

Taken(k, n, left) == Found([j \in 1 .. n |-> Item(k, PopOffset(k, j, left))])

\* The number of elements a pop of count takes.
PopCount(k, count) == IF count < Size(k) THEN count ELSE Size(k)

\* One element that is not there answers nothing and changes nothing.
Pop(k, count, left) ==
    \/ /\ Live(k)
       /\ count = 1 => Item(k, PopOffset(k, 1, left)) # Absent
       /\ LET n == PopCount(k, count)
          IN  PopItems(k, n, left, Taken(k, n, left))
    \/ /\ Live(k) => count = 1 /\ Item(k, PopOffset(k, 1, left)) = Absent
       /\ Reply(<<>>)

\* The keys are popped in turn until one yields something.
LMPop(ks, count, left) ==
    \/ \E i \in 1 .. Len(ks) :
          LET n == PopCount(ks[i], count)
          IN  /\ Live(ks[i])
              /\ \A j \in 1 .. (i - 1) : ~Live(ks[j])
              /\ PopItems(ks[i], n, left, <<ks[i]>> \o Taken(ks[i], n, left))
    \/ /\ \A i \in 1 .. Len(ks) : ~Live(ks[i])
       /\ Reply(<<>>)

----------------------------------------------------------------------------
(* Scans.                                                                  *)

\* resolve_list_offset.
Offset(k, i) == IF i < 0 THEN Size(k) + i ELSE i
HasOffset(k, i) == Offset(k, i) \in 0 .. (Size(k) - 1)

\* normalize_range.  The range is empty when s > e.
Normalize(start, stop, len) ==
    LET s == IF start < 0 THEN len + start ELSE start
        e == IF stop < 0 THEN len + stop ELSE stop
    IN  [s |-> IF s < 0 THEN 0 ELSE s, e |-> IF e >= len THEN len - 1 ELSE e]

\* The items present at indexes lo .. hi, in the order of their keys.
OrderedScan(k, lo, hi) == Found([i \in lo .. hi |-> item[k][i]])

\* Mutant: the ordered scan is taken even when the window wraps.
ScanOrdered(k, from, to) == OrderedScan(k, At(k, from), At(k, to))

\* The elements at offsets from .. to: an ordered range over the keys that
\* are present, or one lookup per offset when the window wraps.
Scan(k, from, to) ==
    IF At(k, from) <= At(k, to)
      THEN OrderedScan(k, At(k, from), At(k, to))
      ELSE Found([o \in from .. to |-> Item(k, o)])

LRange(k, start, stop) ==
    LET r == Normalize(start, stop, Size(k))
    IN  IF ~Live(k) \/ r.s > r.e THEN <<>> ELSE Scan(k, r.s, r.e)

\* The offsets at which linsert, lrem and lpos find v.
Matches(k, v) ==
    LET scan == Scan(k, 0, Size(k) - 1)
    IN  {o \in Offsets(k) : o < Len(scan) /\ scan[o + 1] = v}

\* lpos: the offsets at which v is the rank-th match or a later one, at most
\* limit of them, among the first or last maxlen elements; rank < 0 searches
\* from the end.
LPos(k, v, rank, limit, maxlen) ==
    LET n == Size(k)
        seen == Ascending({o \in Matches(k, v) :
                              IF rank > 0 THEN o < maxlen ELSE o >= n - maxlen})
        hits == IF rank > 0 THEN seen ELSE Reverse(seen)
        skip == IF rank > 0 THEN rank - 1 ELSE -rank - 1
        top == IF limit < Len(hits) - skip THEN skip + limit ELSE Len(hits)
    IN  IF ~Live(k) THEN <<>> ELSE SubSeq(hits, skip + 1, top)

----------------------------------------------------------------------------
(* Writes in the middle.                                                   *)

LSet(k, i, v) ==
    \/ /\ Live(k) /\ HasOffset(k, i)
       /\ item' = [item EXCEPT ![k][At(k, Offset(k, i))] = v]
       /\ UNCHANGED meta
       /\ ret' = Ok
    \/ /\ ~(Live(k) /\ HasOffset(k, i))
       /\ Reply(Err)

LTrim(k, start, stop) ==
    LET r == Normalize(start, stop, Size(k))
        kept == {At(k, o) : o \in r.s .. r.e}
        cut == {At(k, o) : o \in Offsets(k)} \ kept
        head == At(k, r.s)
    IN  \/ /\ Live(k) /\ r.s > r.e
           /\ Clear(k, Ok)
        \/ /\ Live(k) /\ r.s <= r.e
           /\ Commit(k, [meta[k] EXCEPT !.head = head, !.size = r.e - r.s + 1,
                                        !.tail = Add(head, r.e - r.s + 1)],
                     [i \in Index |-> IF i \in cut THEN Absent ELSE item[k][i]], Ok)
        \/ /\ ~Live(k)
           /\ Reply(Ok)

\* The items after those at the offsets of S have moved by d and v is stored
\* at offset o, offsets counted from the old head.
Shifted(k, S, d, o, v) ==
    LET to == [p \in {At(k, x + d) : x \in S} |-> CHOOSE x \in S : At(k, x + d) = p]
    IN  [i \in Index |->
            IF i = At(k, o) THEN v
            ELSE IF i \in DOMAIN to /\ Item(k, to[i]) # Absent THEN Item(k, to[i])
            ELSE item[k][i]]

\* Mutant: the tail side is moved without making room at the new tail.
LInsertAtTailFixed(k, at, v) ==
    Commit(k, [meta[k] EXCEPT !.size = @ + 1],
           Shifted(k, at .. (Size(k) - 1), 1, at, v), <<Size(k) + 1>>)

\* The new element takes offset at; the shorter side moves to make room.
LInsertAt(k, at, v) ==
    \/ /\ at < Size(k) \div 2
       /\ Commit(k, [meta[k] EXCEPT !.head = Add(@, -1), !.size = @ + 1],
                 Shifted(k, 0 .. (at - 1), -1, at - 1, v), <<Size(k) + 1>>)
    \/ /\ at >= Size(k) \div 2
       /\ Commit(k, [meta[k] EXCEPT !.tail = Add(@, 1), !.size = @ + 1],
                 Shifted(k, at .. (Size(k) - 1), 1, at, v), <<Size(k) + 1>>)

LInsert(k, before, pivot, v) ==
    LET at == Matches(k, pivot)
    IN  \/ /\ Live(k) /\ at # {}
           /\ Size(k) < MaxLen
           /\ LET first == Ascending(at)[1]
              IN  LInsertAt(k, IF before THEN first ELSE first + 1, v)
        \/ /\ Live(k) /\ at = {}
           /\ Reply(<<-1>>)
        \/ /\ ~Live(k)
           /\ Reply(<<0>>)

\* Mutant: a negative count removes from the front.
RemOffsetsForward(k, count, v) ==
    LET at == Matches(k, v)
        n == IF count < 0 THEN -count ELSE count
    IN  {o \in at : count = 0 \/ Cardinality({p \in at : p < o}) < n}

\* The offsets lrem removes: the search starts at one end and stops when it
\* has found |count| of them.
RemOffsets(k, count, v) ==
    LET at == Matches(k, v)
    IN  {o \in at : \/ count = 0
                    \/ count > 0 /\ Cardinality({p \in at : p < o}) < count
                    \/ count < 0 /\ Cardinality({p \in at : p > o}) < -count}

\* The survivors are written to the offsets from 0 on; those before the
\* first removal are where they were.  What is left at the end is removed.
LRem(k, count, v) ==
    LET doomed == RemOffsets(k, count, v)
        n == Cardinality(doomed)
        stay == Ascending(Offsets(k) \ doomed)
        new == [o \in Offsets(k) |-> IF o < Len(stay) THEN Item(k, stay[o + 1]) ELSE Absent]
        window == {At(k, o) : o \in Offsets(k)}
        offset == [i \in window |-> CHOOSE o \in Offsets(k) : At(k, o) = i]
    IN  \/ /\ Live(k) /\ n = Size(k)
           /\ Clear(k, <<n>>)
        \/ /\ Live(k) /\ n \in 1 .. (Size(k) - 1)
           /\ Commit(k, [meta[k] EXCEPT !.size = @ - n, !.tail = At(k, Size(k) - n)],
                     [i \in Index |-> IF i \in window THEN new[offset[i]] ELSE item[k][i]],
                     <<n>>)
        \/ /\ Live(k) => n = 0
           /\ Reply(<<0>>)

\* lmove of element e from the list s to another or to the same list.
Rotate(k, sleft, dleft, e) ==
    LET from == At(k, PopOffset(k, 1, sleft))
        b == Pushed([m |-> Popped(meta[k], 1, sleft), items |-> [item[k] EXCEPT ![from] = Absent]],
                    <<e>>, dleft)
    IN  Commit(k, b.m, b.items, <<e>>)

\* Mutant: the element stays in the source.
TransferCopy(s, d, sleft, dleft, e) ==
    LET b == Pushed(Prepared(d), <<e>>, dleft)
    IN  /\ b.m.size <= MaxLen
        /\ meta' = [meta EXCEPT ![d] = b.m]
        /\ item' = [item EXCEPT ![d] = b.items]
        /\ ret' = <<e>>

Transfer(s, d, sleft, dleft, e) ==
    LET b == Pushed(Prepared(d), <<e>>, dleft)
        m == Popped(meta[s], 1, sleft)
    IN  /\ b.m.size <= MaxLen
        /\ meta' = [meta EXCEPT ![s] = IF m.size = 0 THEN Absent ELSE m, ![d] = b.m]
        /\ item' = [item EXCEPT ![s][At(s, PopOffset(s, 1, sleft))] = Absent, ![d] = b.items]
        /\ ret' = <<e>>

LMove(s, d, sleft, dleft) ==
    LET e == Item(s, PopOffset(s, 1, sleft))
    IN  \/ /\ Live(s) /\ e # Absent /\ s = d /\ sleft # dleft /\ Size(s) > 1
           /\ Rotate(s, sleft, dleft, e)
        \/ /\ Live(s) /\ e # Absent /\ s = d /\ (sleft = dleft \/ Size(s) = 1)
           /\ Reply(<<e>>)
        \/ /\ Live(s) /\ e # Absent /\ s # d
           /\ Transfer(s, d, sleft, dleft, e)
        \/ /\ Live(s) => e = Absent
           /\ Reply(<<>>)

----------------------------------------------------------------------------
(* What others do to a list key.                                           *)

\* An expiry set by EXPIRE passes; the record and the items stay.
Lapse(k) ==
    /\ Live(k)
    /\ meta' = [meta EXCEPT ![k].lapsed = TRUE]
    /\ UNCHANGED <<item, ret>>

\* DEL of a live list, or the sweep of an expired one.
Erase(k) ==
    /\ meta[k] # Absent
    /\ meta' = [meta EXCEPT ![k] = Absent]
    /\ item' = [item EXCEPT ![k] = NoItems]
    /\ UNCHANGED ret

Next ==
    \E k \in Keys, left \in BOOLEAN :
        \/ \E vs \in Pushes, create \in BOOLEAN :
              asked' = <<"push", k, vs, left, create>> /\ Push(k, vs, left, create)
        \/ \E n \in Counts : asked' = <<"pop", k, n, left>> /\ Pop(k, n, left)
        \/ \E d \in Keys, n \in Counts : asked' = <<"lmpop", k, d, n, left>> /\ LMPop(<<k, d>>, n, left)
        \/ \E i \in Indexes, v \in Values : asked' = <<"set", k, i, v>> /\ LSet(k, i, v)
        \/ \E i, j \in Indexes : asked' = <<"trim", k, i, j>> /\ LTrim(k, i, j)
        \/ \E p, v \in Values : asked' = <<"insert", k, left, p, v>> /\ LInsert(k, left, p, v)
        \/ \E c \in RemCounts, v \in Values : asked' = <<"remove", k, c, v>> /\ LRem(k, c, v)
        \/ \E d \in Keys, dleft \in BOOLEAN :
              asked' = <<"move", k, d, left, dleft>> /\ LMove(k, d, left, dleft)
        \/ asked' = <<"vanish", k>> /\ (Lapse(k) \/ Erase(k))

Spec == Init /\ [][Next]_vars

----------------------------------------------------------------------------
(* Properties.                                                             *)

\* The items stored under a key are exactly those of its window: the size is
\* the distance from head to tail, no item is missing inside and none is
\* left outside, where a later push, shift or scan would meet it.
WindowExact ==
    \A k \in Keys :
        IF meta[k] = Absent THEN item[k] = NoItems
        ELSE /\ meta[k].size > 0
             /\ meta[k].tail = At(k, Size(k))
             /\ \A i \in Index : item[k][i] # Absent <=> \E o \in Offsets(k) : i = At(k, o)

\* The sequence a key stands for.
Sequence == [k \in Keys |-> IF Live(k) THEN [o \in 1 .. Size(k) |-> Item(k, o - 1)] ELSE <<>>]

\* LRANGE and LPOS see that sequence, on the ordered path and around the
\* wrap: LRANGE every stretch of it, LPOS the match of any rank.
ReadsExact ==
    \A k \in Keys :
        LET s == Sequence[k]
        IN  /\ \A i, j \in Indexes :
                 LRange(k, i, j) =
                     LET a == IF i < 0 THEN Len(s) + i + 1 ELSE i + 1
                         b == IF j < 0 THEN Len(s) + j + 1 ELSE j + 1
                     IN  SubSeq(s, IF a < 1 THEN 1 ELSE a, IF b > Len(s) THEN Len(s) ELSE b)
            /\ \A v \in Values, n \in 1 .. MaxLen :
                 LET at == {p \in 1 .. Len(s) : s[p] = v}
                     few == LPos(k, v, 1, n, MaxLen)
                     fromEnd == {p \in at : Cardinality({q \in at : q >= p}) = n}
                 IN  /\ Range(few) = {p - 1 : p \in {q \in at : Cardinality({r \in at : r <= q}) <= n}}
                     /\ \A i, j \in 1 .. Len(few) : i < j => few[i] < few[j]
                     /\ LPos(k, v, -n, 1, MaxLen) =
                            IF fromEnd = {} THEN <<>> ELSE <<(CHOOSE p \in fromEnd : TRUE) - 1>>

Lists == INSTANCE RedisLists WITH list <- Sequence

\* The store implements sequences under every command, expiry and removal:
\* call by call it does to them, and answers, what RedisLists says.
ImplementsRedisLists == Lists!Init /\ [][[Lists!Next]_(Lists!vars)]_vars
=============================================================================
