----------------------------- MODULE BitmapStore -----------------------------
(***************************************************************************)
(* The bitmaps of embed/src/api/bitmap.  A bitmap is a record with a size  *)
(* in bytes and a row for each segment that was written, which grows on    *)
(* its own and may be shorter than the segment, or than the size says; a   *)
(* string is read and written as a bitmap too, in its one row.             *)
(*                                                                         *)
(* The code keeps a segment's bits lowest first in a byte and a string's   *)
(* highest first; both are sequences of bits by offset here.  One caller;  *)
(* each action is a whole handler with its one atomic batch.  A string     *)
(* that has expired is no string to any reader here.                       *)
(***************************************************************************)
EXTENDS Integers, Sequences, FiniteSets

LOCAL INSTANCE FiniteSetsExt
LOCAL INSTANCE SequencesExt

CONSTANTS
    Keys, ByteBits, Word, Offsets, Strings, Fields, Sources,   \* as in RedisBitmaps
    SegBytes,    \* bytes in a segment, 1024 in the code
    Ranges,      \* the ranges of BITCOUNT and BITPOS
    Absent       \* no record, no row

BitmapAssumption ==
    /\ ByteBits \in Nat \ {0} /\ SegBytes \in Nat \ {0} /\ Word \in Nat \ {0}
    /\ \A fs \in Fields : \A i \in DOMAIN fs : fs[i].width \in 1 .. Word

VARIABLES
    meta,        \* the record of each key; lapsed once its expiry passed
    row,         \* the string of each key and the segments of its bitmap
    stale,       \* the keys whose bitmap began on the segments of an expired one,
                 \* or beside a string
    asked, ret

vars == <<meta, row, stale, asked, ret>>

SegBits == SegBytes * ByteBits
NoSegs == [i \in {} |-> <<>>]
NoRow == [str |-> Absent, segs |-> NoSegs]

Init ==
    /\ meta = [k \in Keys |-> Absent]
    /\ row = [k \in Keys |-> NoRow]
    /\ stale = {}
    /\ asked = <<>>
    /\ ret = 0

\* A record of size 0 counts as expired.
Live(k) == meta[k] # Absent /\ ~meta[k].lapsed /\ meta[k].size > 0
IsString(k) == row[k].str # Absent

----------------------------------------------------------------------------
(* Segments.                                                               *)

\* get_bit_lsb, get_bit_from_bytes.
Bit(bytes, p) == IF p < Len(bytes) THEN bytes[p + 1] ELSE 0
BytesOf(bytes) == Len(bytes) \div ByteBits
Zeros(bytes, n) == bytes \o [i \in 1 .. n * ByteBits - Len(bytes) |-> 0]

Seg(segs, i) == IF i \in DOMAIN segs THEN segs[i] ELSE <<>>
WithSeg(segs, i, s) == [j \in DOMAIN segs \cup {i} |-> IF j = i THEN s ELSE segs[j]]

\* expand_bitmap_segment: twice as long, but as long as asked and no longer
\* than a segment.
Expanded(s, n) ==
    IF n <= BytesOf(s) THEN s ELSE Zeros(s, Min({Max({2 * BytesOf(s), n}), SegBytes}))

\* Writing one bit of a segment.
PutIn(segs, p, v) ==
    LET i == p \div SegBits
        at == p % SegBits
    IN  WithSeg(segs, i, [Expanded(Seg(segs, i), at \div ByteBits + 1) EXCEPT ![at + 1] = v])

BitIn(segs, p) == Bit(Seg(segs, p \div SegBits), p % SegBits)

\* get_bitmap_bytes: what the bitmap of a key is, as a string.
Bits(k) ==
    IF Live(k) THEN [i \in 1 .. meta[k].size * ByteBits |-> BitIn(row[k].segs, i - 1)]
    ELSE IF meta[k] = Absent /\ IsString(k) THEN row[k].str
    ELSE <<>>

----------------------------------------------------------------------------
(* SETBIT and GETBIT.                                                      *)

Record(size) == [size |-> size, lapsed |-> FALSE]
Store(k, m, segs, r) ==
    /\ meta' = [meta EXCEPT ![k] = m]
    /\ row' = [row EXCEPT ![k].segs = segs]
    /\ ret' = r
    /\ UNCHANGED stale
StoreString(k, s, r) ==
    /\ row' = [row EXCEPT ![k].str = s]
    /\ ret' = r
    /\ UNCHANGED <<meta, stale>>

\* resolve_segment_bit_coord.
UsedSize(p) == p \div ByteBits + 1

\* Mutant: the size of a bitmap follows the last bit set, also downwards.
SetBitLast(k, p, v) ==
    /\ asked' = <<"setbit", k, p, v>>
    /\ IF Live(k)
       THEN /\ Store(k, [meta[k] EXCEPT !.size = UsedSize(p)], PutIn(row[k].segs, p, v),
                     BitIn(row[k].segs, p))
       ELSE IF IsString(k)
       THEN LET s == Zeros(row[k].str, Max({UsedSize(p), BytesOf(row[k].str)}))
            IN  StoreString(k, [s EXCEPT ![p + 1] = v], Bit(row[k].str, p))
       ELSE Store(k, Record(UsedSize(p)), PutIn(NoSegs, p, v), 0)

\* setbit: a live bitmap, then a string, then a new bitmap with the segments
\* of an expired one cleared.
SetBit(k, p, v) ==
    /\ asked' = <<"setbit", k, p, v>>
    /\ \/ /\ Live(k)
          /\ Store(k, [meta[k] EXCEPT !.size = Max({@, UsedSize(p)})], PutIn(row[k].segs, p, v),
                   BitIn(row[k].segs, p))
       \/ /\ ~Live(k) /\ IsString(k)
          /\ LET s == Zeros(row[k].str, Max({UsedSize(p), BytesOf(row[k].str)}))
             IN  StoreString(k, [s EXCEPT ![p + 1] = v], Bit(row[k].str, p))
       \/ /\ ~Live(k) /\ ~IsString(k)
          /\ Store(k, Record(UsedSize(p)), PutIn(NoSegs, p, v), 0)

\* getbit: an expired bitmap hides a string behind it.
GetBit(k, p) ==
    IF Live(k) THEN BitIn(row[k].segs, p)
    ELSE IF meta[k] = Absent /\ IsString(k) THEN Bit(row[k].str, p) ELSE 0

----------------------------------------------------------------------------
(* BITFIELD: one subcommand after the other on a copy, and what changed is *)
(* committed at the end.  Integers have Word bits.                         *)

Pow(n) == 2 ^ n
\* x as i64 and as u64.
AsInt(x) == ((x + Pow(Word - 1)) % Pow(Word)) - Pow(Word - 1)
AsNat(x) == x % Pow(Word)

\* signed_bitfield_plus: the value as an integer of f.width bits, and whether
\* it ran over.  wrapped_signed_bitfield_plus is the value cut and extended.
SignedPlus(f, v, incr) ==
    LET top == Pow(f.width - 1) - 1
        low == -top - 1
        room == AsInt(top - v)
        depth == AsInt(low - v)
        over == \/ v > top
                \/ f.width # Word /\ incr > room
                \/ v >= 0 /\ incr >= 0 /\ incr > room
        under == \/ v < low
                 \/ f.width # Word /\ incr < depth
                 \/ v < 0 /\ incr < 0 /\ incr < depth
        cut == ((v + incr + Pow(f.width - 1)) % Pow(f.width)) - Pow(f.width - 1)
    IN  CASE ~over /\ ~under -> [val |-> AsInt(v + incr), over |-> FALSE]
          [] (over \/ under) /\ f.overflow = "wrap" -> [val |-> cut, over |-> TRUE]
          [] (over \/ under) /\ f.overflow # "wrap" ->
                [val |-> IF over THEN top ELSE low, over |-> TRUE]

\* unsigned_bitfield_plus.
UnsignedPlus(f, v, incr) ==
    LET top == Pow(f.width) - 1
        room == AsInt(top - v)
        depth == AsInt(-v)
        over == v > top \/ (incr > 0 /\ incr > room)
        under == incr < 0 /\ incr < depth
    IN  CASE ~over /\ ~under -> [val |-> AsNat(v + incr), over |-> FALSE]
          [] (over \/ under) /\ f.overflow = "wrap" -> [val |-> (v + incr) % Pow(f.width), over |-> TRUE]
          [] (over \/ under) /\ f.overflow # "wrap" -> [val |-> IF over THEN top ELSE 0, over |-> TRUE]

\* bitfield_op_calc: SET adds nothing to the value it is given.
Plus(f, old) ==
    LET v == IF f.op = "set" THEN f.value ELSE old
        incr == IF f.op = "set" THEN 0 ELSE f.value
    IN  IF f.signed THEN SignedPlus(f, v, incr) ELSE UnsignedPlus(f, AsNat(v), incr)

\* get_signed_bitfield, get_unsigned_bitfield: the highest bit first.
FieldAt(at(_), f) ==
    LET u == FoldLeft(LAMBDA acc, i : 2 * acc + at(f.at + i - 1), 0, [i \in 1 .. f.width |-> i])
    IN  IF f.signed /\ u >= Pow(f.width - 1) THEN u - Pow(f.width) ELSE u

\* apply_op on a copy `c` whose bits are `at`: `put` makes it as long as the
\* field needs and writes a value, `longer` only makes it as long.  c.out is the
\* answers so far.
Apply(c, f, at(_), put(_), longer) ==
    LET old == FieldAt(at, f)
        sum == Plus(f, old)
        answer(d, r) == [d EXCEPT !.out = Append(@, r)]
    IN  CASE f.op = "get" -> answer(c, old)
          [] f.op # "get" /\ sum.over /\ f.overflow = "fail" -> answer(longer, Absent)
          [] OTHER -> answer(put(sum.val), IF f.op = "set" THEN old ELSE sum.val)

LastByte(f) == (f.at + f.width - 1) \div ByteBits

\* set_bitfield: bit p of the field with value v.
FieldBit(f, v, p) == ((v % Pow(f.width)) \div Pow(f.width - 1 - (p - f.at))) % 2

\* The copy of a string.
OnString(c, f) ==
    LET longer == [c EXCEPT !.bytes = Zeros(@, Max({BytesOf(@), LastByte(f) + 1}))]
        put(v) == [longer EXCEPT !.bytes = [i \in DOMAIN @ |->
            IF f.at < i /\ i <= f.at + f.width THEN FieldBit(f, v, i - 1) ELSE @[i]]]
    IN  Apply(c, f, LAMBDA p : Bit(c.bytes, p), put, longer)

\* The positions of a field, last first: a segment grows once to the last byte.
Positions(f) == [i \in 1 .. f.width |-> f.at + f.width - i]

\* Mutant: a field is written to the segment it begins in, and what runs over
\* the end of that is left out.
OnSegmentsFirst(c, f) ==
    LET longer == [c EXCEPT !.size = Max({@, LastByte(f) + 1})]
        put(v) == [longer EXCEPT !.segs =
            FoldLeft(LAMBDA s, p : IF p \div SegBits = f.at \div SegBits
                                   THEN PutIn(s, p, FieldBit(f, v, p)) ELSE s, @, Positions(f))]
    IN  Apply(c, f, LAMBDA p : BitIn(c.segs, p), put, longer)

\* SegmentCacheStore: the size the bitmap will have, and its segments.
OnSegments(c, f) ==
    LET longer == [c EXCEPT !.size = Max({@, LastByte(f) + 1})]
        put(v) == [longer EXCEPT !.segs =
            FoldLeft(LAMBDA s, p : PutIn(s, p, FieldBit(f, v, p)), @, Positions(f))]
    IN  Apply(c, f, LAMBDA p : BitIn(c.segs, p), put, longer)

\* exec_bitfield: a string, then a bitmap, which an expired one does not make
\* way for.
BitField(k, fs) ==
    /\ asked' = <<"bitfield", k, fs>>
    /\ \/ /\ IsString(k)
          /\ LET c == FoldLeft(OnString, [bytes |-> row[k].str, out |-> <<>>], fs)
             IN  StoreString(k, c.bytes, c.out)
       \/ /\ ~IsString(k)
          /\ LET size == IF Live(k) THEN meta[k].size ELSE 0
                 c == FoldLeft(OnSegments, [size |-> size, segs |-> row[k].segs, out |-> <<>>], fs)
             IN  IF c.segs = row[k].segs /\ c.size = size
                 THEN ret' = c.out /\ UNCHANGED <<meta, row, stale>>
                 ELSE /\ meta' = [meta EXCEPT ![k] = Record(c.size)]
                      /\ row' = [row EXCEPT ![k].segs = c.segs]
                      /\ ret' = c.out
                      /\ stale' = IF Live(k) \/ row[k].segs = NoSegs THEN stale ELSE stale \cup {k}

----------------------------------------------------------------------------
(* BITOP.                                                                  *)

Combine(op, vs) ==
    CASE op = "and" -> IF \A i \in DOMAIN vs : vs[i] = 1 THEN 1 ELSE 0
      [] op = "or" -> IF \E i \in DOMAIN vs : vs[i] = 1 THEN 1 ELSE 0
      [] op = "xor" -> FoldLeft(LAMBDA a, b : (a + b) % 2, 0, vs)
      [] op = "not" -> 1 - vs[1]

\* bit_op_exec_into: operands that end early have zeros.
Exec(op, parts, bytes) ==
    [p \in 1 .. bytes * ByteBits |-> Combine(op, [i \in DOMAIN parts |-> Bit(parts[i], p - 1)])]

\* The last segment of a bitmap of this many bytes, and its bytes in segment i.
LastSeg(size) == IF size = 0 THEN 0 ELSE (size - 1) \div SegBytes
BytesIn(size, i) == IF i = LastSeg(size) THEN ((size - 1) % SegBytes) + 1 ELSE SegBytes

\* Mutant: NOT makes a segment as long as its operand's.
FragmentShort(op, srcs, i, size) ==
    LET parts == [j \in DOMAIN srcs |-> Seg(row[srcs[j]].segs, i)]
        ended == op = "and" /\ \E j \in DOMAIN parts : parts[j] = <<>>
        longest == IF ended THEN 0 ELSE Max({BytesOf(parts[j]) : j \in DOMAIN parts})
    IN  IF longest = 0 THEN <<>> ELSE Exec(op, parts, longest)

\* One segment of the result; <<>> is no row.
Fragment(op, srcs, i, size) ==
    LET parts == [j \in DOMAIN srcs |-> Seg(row[srcs[j]].segs, i)]
        ended == op = "and" /\ \E j \in DOMAIN parts : parts[j] = <<>>
        longest == IF ended THEN 0 ELSE Max({BytesOf(parts[j]) : j \in DOMAIN parts})
    IN  IF op = "not" THEN Exec(op, parts, BytesIn(size, i))
        ELSE IF longest = 0 THEN <<>> ELSE Exec(op, parts, longest)

\* The segments an older destination leaves: those past its own size.
Cleaned(segs, dest, from) ==
    LET last == IF meta[dest] = Absent THEN from - 1 ELSE LastSeg(meta[dest].size)
        kept == {i \in DOMAIN segs : i \notin from .. last}
    IN  [i \in kept |-> segs[i]]

\* bitop.  It does not look whether the destination holds a string.
BitOp(op, dest, srcs) ==
    LET live == SelectSeq(srcs, Live)
        size == Max({0} \cup {meta[live[i]].size : i \in DOMAIN live})
        frag == [i \in 0 .. LastSeg(size) |-> Fragment(op, live, i, size)]
        made == {i \in DOMAIN frag : frag[i] # <<>>}
        past == Cleaned(row[dest].segs, dest, LastSeg(size) + 1)
        others == {i \in DOMAIN past : i > LastSeg(size)}
    IN  /\ asked' = <<"bitop", op, dest, srcs>>
        /\ \/ /\ \E i \in DOMAIN srcs : IsString(srcs[i])
              /\ ret' = -1
              /\ UNCHANGED <<meta, row, stale>>
           \/ /\ \A i \in DOMAIN srcs : ~IsString(srcs[i])
              /\ ret' = size
              /\ stale' = IF IsString(dest) THEN stale \cup {dest} ELSE stale
              /\ meta' = [meta EXCEPT ![dest] = IF size = 0 THEN Absent ELSE Record(size)]
              /\ row' = [row EXCEPT ![dest].segs =
                    IF size = 0 \/ (op = "and" /\ Len(live) < Len(srcs))
                    THEN Cleaned(@, dest, 0)
                    ELSE [i \in made \cup others |-> IF i \in made THEN frag[i] ELSE past[i]]]

----------------------------------------------------------------------------
(* BITCOUNT and BITPOS.                                                    *)

\* normalize_bitmap_range.
Normal(r, n) ==
    LET from(x) == IF x < 0 THEN Max({x + n, 0}) ELSE x
    IN  IF n = 0 THEN <<0, -1>> ELSE <<from(r.start), Min({from(r.end), n - 1})>>

Backwards(r) == ~r.open /\ r.start < 0 /\ r.end < 0 /\ r.start > r.end

\* A range of bits or bytes: its bytes, and the bits of the first and the last
\* of them that are not in it (normalize_to_byte_range_with_padding_mask).
Span(r, bytes) ==
    LET bit == r.unit = "bit"
        n == Normal(r, IF bit THEN bytes * ByteBits ELSE bytes)
    IN  [from |-> IF bit THEN n[1] \div ByteBits ELSE n[1],
         to |-> IF bit THEN n[2] \div ByteBits ELSE n[2],
         before |-> IF bit THEN 0 .. (n[1] % ByteBits) - 1 ELSE {},
         after |-> IF bit THEN (n[2] % ByteBits) + 1 .. ByteBits - 1 ELSE {},
         start |-> n[1], end |-> n[2], empty |-> n[1] > n[2]]

Ones(bytes, from, to) ==
    Cardinality({p \in from * ByteBits .. to * ByteBits + ByteBits - 1 : Bit(bytes, p) = 1})
Masked(bytes, byte, mask) == Cardinality({p \in mask : Bit(bytes, byte * ByteBits + p) = 1})

\* string_bitcount.
StringCount(bytes, r) ==
    LET s == Span(r, BytesOf(bytes))
        last == Min({s.to, BytesOf(bytes) - 1})
    IN  IF Backwards(r) \/ s.empty \/ s.from > last THEN 0
        ELSE Ones(bytes, s.from, last) - Masked(bytes, s.from, s.before)
             - (IF last = s.to THEN Masked(bytes, last, s.after) ELSE 0)

\* raw_bitcount, in one segment.  When the range begins at the segment's last
\* byte and ends in the same segment, both masks are laid on that byte.
SegCount(segs, i, s) ==
    LET bytes == Seg(segs, i)
        first == i = s.from \div SegBytes
        final == i = s.to \div SegBytes
        from == IF first THEN s.from % SegBytes ELSE 0
        to == IF final THEN s.to % SegBytes ELSE SegBytes - 1
        last == Min({to, BytesOf(bytes) - 1})
        masked == IF first /\ final /\ from = last THEN Masked(bytes, from, s.before \cup s.after)
                  ELSE (IF first THEN Masked(bytes, from, s.before) ELSE 0)
                       + (IF final /\ last = to THEN Masked(bytes, last, s.after) ELSE 0)
    IN  IF from > last THEN 0 ELSE Ones(bytes, from, last) - masked

Segments(s) == s.from \div SegBytes .. s.to \div SegBytes

BitCount(k, r) ==
    LET s == Span(r, meta[k].size)
    IN  IF Live(k)
        THEN IF Backwards(r) \/ s.empty THEN 0
             ELSE FoldFunction(LAMBDA a, b : a + b, 0,
                               [i \in Segments(s) |-> SegCount(row[k].segs, i, s)])
        ELSE IF meta[k] = Absent /\ IsString(k) THEN StringCount(row[k].str, r) ELSE 0

\* string_bitpos: a range of bits within one byte, the first byte when the
\* range begins in it, the bytes in between as a whole.
StringPos(bytes, v, r) ==
    LET s == Span(r, BytesOf(bytes))
        hits(from, to) == {p \in from .. to : bytes[p + 1] = v}
        none == IF v = 0 /\ r.open THEN Len(bytes) ELSE -1
        head == IF s.before = {} THEN {} ELSE hits(s.start, s.from * ByteBits + ByteBits - 1)
        from == IF s.before = {} THEN s.from ELSE s.from + 1
        rest == hits(from * ByteBits, Min({s.to * ByteBits + ByteBits, Len(bytes)}) - 1)
        one == hits(s.start, s.end)
    IN  IF s.empty THEN -1
        ELSE IF r.unit = "bit" /\ s.from = s.to
        THEN IF s.from < BytesOf(bytes) /\ one # {} THEN Min(one) ELSE -1
        ELSE IF head # {} THEN Min(head)
        ELSE IF from > s.to \/ rest = {} THEN none
        ELSE IF r.unit = "bit" /\ Min(rest) > s.end THEN -1 ELSE Min(rest)

\* Mutant: a segment without a row has no zeros.
SegPosRow(segs, i, v, r, s) ==
    LET bytes == Seg(segs, i)
        base == i * SegBits
        from == IF i = s.from \div SegBytes THEN s.from * ByteBits ELSE base
        to == IF i = s.to \div SegBytes THEN s.to * ByteBits + ByteBits - 1 ELSE base + SegBits - 1
        inside(p) == r.unit = "bit" => s.start <= p /\ p <= s.end
        hits == {p \in from .. Min({to, base + Len(bytes) - 1}) : inside(p) /\ bytes[p - base + 1] = v}
    IN  IF hits # {} THEN Min(hits) ELSE Absent

\* raw_bitpos, in one segment: a bit of it, or the first place after its row.
SegPos(segs, i, v, r, s) ==
    LET bytes == Seg(segs, i)
        base == i * SegBits
        first == i = s.from \div SegBytes
        from == IF first THEN s.from * ByteBits ELSE base
        to == IF i = s.to \div SegBytes THEN s.to * ByteBits + ByteBits - 1 ELSE base + SegBits - 1
        inside(p) == r.unit = "bit" => s.start <= p /\ p <= s.end
        hits == {p \in from .. Min({to, base + Len(bytes) - 1}) : inside(p) /\ bytes[p - base + 1] = v}
        after == Max({from, base + Len(bytes)} \cup IF first THEN {s.start} ELSE {})
    IN  IF hits # {} THEN Min(hits)
        ELSE IF v = 0 /\ base + Len(bytes) <= to
        THEN IF r.unit = "bit" /\ after > s.end THEN -1 ELSE after
        ELSE Absent

BitPos(k, v, r) ==
    LET s == Span(r, meta[k].size)
        found == {i \in Segments(s) : SegPos(row[k].segs, i, v, r, s) # Absent}
    IN  IF Live(k)
        THEN IF s.empty THEN -1
             ELSE IF found # {} THEN SegPos(row[k].segs, Min(found), v, r, s)
             ELSE IF v = 0 /\ r.open THEN meta[k].size * ByteBits ELSE -1
        ELSE IF meta[k] = Absent /\ IsString(k) THEN StringPos(row[k].str, v, r)
        ELSE IF v = 0 THEN 0 ELSE -1

----------------------------------------------------------------------------
\* The record's expiry passes.
Lapse(k) ==
    /\ Live(k)
    /\ asked' = <<"lapse", k>>
    /\ meta' = [meta EXCEPT ![k].lapsed = TRUE]
    /\ ret' = 0
    /\ UNCHANGED <<row, stale>>

\* SET, of the string commands: it clears whatever else the key has.
Set(k, b) ==
    /\ asked' = <<"set", k, b>>
    /\ ~Live(k)
    /\ meta' = [meta EXCEPT ![k] = Absent]
    /\ row' = [row EXCEPT ![k] = [str |-> b, segs |-> NoSegs]]
    /\ ret' = 0
    /\ UNCHANGED stale

Next ==
    \/ \E k \in Keys, p \in Offsets, v \in {0, 1} : SetBit(k, p, v)
    \/ \E k \in Keys, fs \in Fields : BitField(k, fs)
    \/ \E k \in Keys, ks \in Sources : \E op \in {"and", "or", "xor", "not"} :
        /\ op = "not" => Len(ks) = 1
        /\ BitOp(op, k, ks)
    \/ \E k \in Keys : Lapse(k)
    \/ \E k \in Keys, b \in Strings : Set(k, b)

Spec == Init /\ [][Next]_vars

----------------------------------------------------------------------------
\* Bound: no claim is made about a bitmap begun on old segments or beside a
\* string, nor about what follows.
Kept == stale = {}

\* setbit, exec_bitfield and bitop leave whole bytes, no longer than a segment,
\* in each row, and no segment past the size of the record.
TypeOK ==
    /\ \A k \in Keys : \A i \in DOMAIN row[k].segs :
        /\ Len(row[k].segs[i]) % ByteBits = 0
        /\ BytesOf(row[k].segs[i]) \in 1 .. SegBytes
        /\ k \notin stale /\ meta[k] # Absent => i <= LastSeg(meta[k].size)
    /\ \A k \in Keys : IsString(k) => Len(row[k].str) % ByteBits = 0

\* A range whose first byte is the last that its segment has a row for, and
\* which ends later in the segment: raw_bitcount masks the wrong byte.
Misjudged(k, r) ==
    LET s == Span(r, meta[k].size)
        i == s.from \div SegBytes
    IN  /\ r.unit = "bit" /\ Live(k)
        /\ s.from < s.to /\ s.to \div SegBytes = i
        /\ s.from % SegBytes = BytesOf(Seg(row[k].segs, i)) - 1

Bitmaps == INSTANCE RedisBitmaps WITH bits <- [k \in Keys |-> Bits(k)]

\* raw_bitcount, raw_bitpos and getbit answer what the bits of the key say, in
\* segments that are short or missing as well as in a string: the masks of
\* BITCOUNT and the zeros that BITPOS finds past a row fall on the right byte.
ReadsExact ==
    \A k \in Keys \ stale :
        /\ \A p \in Offsets : GetBit(k, p) = Bit(Bits(k), p)
        /\ \A r \in Ranges :
            /\ Misjudged(k, r) \/ BitCount(k, r) = Bitmaps!Counted(Bits(k), r)
            /\ \A v \in {0, 1} : BitPos(k, v, r) = Bitmaps!Found(Bits(k), v, r)
=============================================================================
