---------------------------- MODULE RedisBitmaps ----------------------------
(* What the bitmap commands promise: a key holds a sequence of bits, whole *)
(* bytes of them, and nothing tells a bitmap from a string of those bits.  *)
EXTENDS Integers, Sequences, FiniteSets

LOCAL INSTANCE FiniteSetsExt
LOCAL INSTANCE SequencesExt

CONSTANTS
    Keys,
    ByteBits,    \* 8 in the code
    Word,        \* the width of an integer, 64 in the code
    Offsets,     \* the offsets of SETBIT
    Strings,     \* what SET gives
    Fields,      \* the lists of BITFIELD
    Sources,     \* the operands of BITOP
    Absent       \* the answer of a field that FAIL leaves alone

VARIABLES bits, asked, ret

vars == <<bits, asked, ret>>

Init == bits = [k \in Keys |-> <<>>] /\ asked = <<>> /\ ret = 0

Bytes(n) == (n + ByteBits - 1) \div ByteBits
BitAt(b, p) == IF p < Len(b) THEN b[p + 1] ELSE 0

\* At least n bits, in whole bytes.
Extended(b, n) ==
    [i \in 1 .. Max({Len(b), Bytes(n) * ByteBits}) |-> BitAt(b, i - 1)]

Becomes(k, b, r) == bits' = [bits EXCEPT ![k] = b] /\ ret' = r

SetBit(k, p, v) ==
    /\ asked' = <<"setbit", k, p, v>>
    /\ Becomes(k, [Extended(bits[k], p + 1) EXCEPT ![p + 1] = v], BitAt(bits[k], p))

Set(k, b) == asked' = <<"set", k, b>> /\ Becomes(k, b, 0)
Lapse(k) == asked' = <<"lapse", k>> /\ Becomes(k, <<>>, 0)

----------------------------------------------------------------------------
(* BITFIELD.                                                               *)

Pow(n) == 2 ^ n
Unsigned(b) == FoldLeft(LAMBDA u, x : 2 * u + x, 0, b)
Wrapped(x, f) ==
    LET u == x % Pow(f.width)
    IN  IF f.signed /\ u >= Pow(f.width - 1) THEN u - Pow(f.width) ELSE u
Lowest(f) == IF f.signed THEN -Pow(f.width - 1) ELSE 0
Highest(f) == IF f.signed THEN Pow(f.width - 1) - 1 ELSE Pow(f.width) - 1

FieldAt(b, f) == Wrapped(Unsigned([i \in 1 .. f.width |-> BitAt(b, f.at + i - 1)]), f)
WithField(b, f, x) ==
    [i \in 1 .. Len(b) |->
        IF f.at < i /\ i <= f.at + f.width
        THEN ((x % Pow(f.width)) \div Pow(f.width - (i - f.at))) % 2 ELSE b[i]]

\* One subcommand: the bits after it and its answer.  A field written makes
\* the bitmap as long as it asks, also when FAIL leaves it alone.
Step(b, f) ==
    LET old == FieldAt(b, f)
        long == Extended(b, f.at + f.width)
        new == IF f.op = "set" THEN f.value ELSE old + f.value
        fits == Lowest(f) <= new /\ new <= Highest(f)
        put == CASE fits \/ f.overflow = "wrap" -> Wrapped(new, f)
                 [] OTHER -> IF new < Lowest(f) THEN Lowest(f) ELSE Highest(f)
    IN  CASE f.op = "get" -> <<b, old>>
          [] f.op # "get" /\ ~fits /\ f.overflow = "fail" -> <<long, Absent>>
          [] OTHER -> <<WithField(long, f, put), IF f.op = "set" THEN old ELSE put>>

Run(b, fs) ==
    FoldLeft(LAMBDA acc, f : LET s == Step(acc[1], f) IN <<s[1], Append(acc[2], s[2])>>,
             <<b, <<>>>>, fs)

BitField(k, fs) ==
    /\ asked' = <<"bitfield", k, fs>>
    /\ LET r == Run(bits[k], fs) IN Becomes(k, r[1], r[2])

----------------------------------------------------------------------------
(* BITOP.                                                                  *)

Combine(op, vs) ==
    CASE op = "and" -> IF \A i \in DOMAIN vs : vs[i] = 1 THEN 1 ELSE 0
      [] op = "or" -> IF \E i \in DOMAIN vs : vs[i] = 1 THEN 1 ELSE 0
      [] op = "xor" -> Cardinality({i \in DOMAIN vs : vs[i] = 1}) % 2
      [] op = "not" -> 1 - vs[1]

BitOp(op, dest, srcs) ==
    /\ asked' = <<"bitop", op, dest, srcs>>
    /\ \/ bits' = bits /\ ret' = -1    \* one of the operands is a string
       \/ LET n == Max({Len(bits[srcs[i]]) : i \in DOMAIN srcs})
              at(p) == [i \in DOMAIN srcs |-> BitAt(bits[srcs[i]], p)]
          IN  Becomes(dest, [p \in 1 .. n |-> Combine(op, at(p - 1))], n \div ByteBits)

Next ==
    \/ \E k \in Keys, p \in Offsets, v \in {0, 1} : SetBit(k, p, v)
    \/ \E k \in Keys, b \in Strings : Set(k, b)
    \/ \E k \in Keys : Lapse(k)
    \/ \E k \in Keys, fs \in Fields : BitField(k, fs)
    \/ \E k \in Keys, ks \in Sources : \E op \in {"and", "or", "xor", "not"} :
        (op = "not" => Len(ks) = 1) /\ BitOp(op, k, ks)

----------------------------------------------------------------------------
(* What the readers answer for bits b.  A range counts bytes, or bits when *)
(* its unit is "bit"; without an end it goes to the last.                  *)

Bound(r, b) ==
    LET n == IF r.unit = "bit" THEN Len(b) ELSE Len(b) \div ByteBits
        from == IF r.start < 0 THEN Max({r.start + n, 0}) ELSE r.start
        to == IF r.end < 0 THEN Max({r.end + n, 0}) ELSE Min({r.end, n - 1})
        per == IF r.unit = "bit" THEN 1 ELSE ByteBits
    IN  IF n = 0 THEN {} ELSE from * per .. to * per + per - 1

\* A range given backwards from the end is empty.
Backwards(r) == ~r.open /\ r.start < 0 /\ r.end < 0 /\ r.start > r.end

Counted(b, r) ==
    IF Backwards(r) THEN 0 ELSE Cardinality({p \in Bound(r, b) : BitAt(b, p) = 1})

\* The end of the bits is as good as a zero to a caller who gave no end.
Found(b, v, r) ==
    LET hits == {p \in Bound(r, b) : BitAt(b, p) = v}
    IN  CASE hits # {} -> Min(hits)
          [] hits = {} /\ b = <<>> -> IF v = 0 THEN 0 ELSE -1
          [] hits = {} /\ Bound(r, b) = {} -> -1
          [] OTHER -> IF v = 0 /\ r.open THEN Len(b) ELSE -1
=============================================================================
