------------------------------ MODULE KeyCodec ------------------------------
(***************************************************************************)
(* The physical keys of embed/src/key_composer, byte for byte: how a scope *)
(* (a namespace and a database), a tag, a user key and what follows it     *)
(* become one key of a partition, and how they are found again.  A scope   *)
(* is <<ns_id, db>>; numbers stay below 2^31, the values TLC can hold, so  *)
(* the four high bytes of the 9-byte form are zero.                        *)
(***************************************************************************)
EXTENDS Integers, Sequences

Byte == 0 .. 255
NoValue == <<>>

\* KeyTag, as far as the models use it; SystemDomainTag and SysMetaTag.
RawString == 0
ListMeta == 3
ListData == 4
SetMeta == 5
SetData == 6
LastTag == 34

\* KeyTag::is_meta.  The raw string and the HyperLogLog registers are not.
MetaTags == {1, 3, 5, 7, 10, 12, 14, 16, 18, 20, 22, 27, 29, 31, 32}

\* The tags whose keys end with the user key: is_meta and the two others.
WholeKeyTags == MetaTags \cup {0, 17}

----------------------------------------------------------------------------
(* Byte strings.                                                           *)

\* The lexicographic order of the partitions, and of memcmp.
Before(a, b) ==
    \/ Len(a) < Len(b) /\ a = SubSeq(b, 1, Len(a))
    \/ \E i \in 1 .. Len(a) :
          i <= Len(b) /\ a[i] < b[i] /\ \A j \in 1 .. (i - 1) : a[j] = b[j]

StartsWith(s, p) == Len(s) >= Len(p) /\ SubSeq(s, 1, Len(p)) = p

After(s, n) == SubSeq(s, n + 1, Len(s))

\* to_be_bytes, of the last n bytes of v.
BigEndian(v, n) == [i \in 1 .. n |-> IF n - i > 3 THEN 0 ELSE (v \div 256^(n - i)) % 256]

\* prefix_upper_bound: the first byte string after all those that start with
\* the prefix, or none.
UpperBound(p) ==
    LET last == {i \in 1 .. Len(p) : p[i] < 255 /\ \A j \in (i + 1) .. Len(p) : p[j] = 255}
    IN  IF last = {} THEN NoValue
        ELSE LET i == CHOOSE i \in last : TRUE IN Append(SubSeq(p, 1, i - 1), p[i] + 1)

----------------------------------------------------------------------------
(* The order-preserving varint.                                            *)

\* Mutant: 128 is still written as one byte.
OppvLenLate(v) ==
    CASE v <= 128 -> 1
      [] 128 < v /\ v < 16384 -> 2
      [] 16384 <= v /\ v < 2097152 -> 3
      [] 2097152 <= v /\ v < 268435456 -> 4
      [] OTHER -> 9

OppvLen(v) ==
    CASE v < 128 -> 1
      [] 128 <= v /\ v < 16384 -> 2
      [] 16384 <= v /\ v < 2097152 -> 3
      [] 2097152 <= v /\ v < 268435456 -> 4
      [] OTHER -> 9

\* The mark in the first byte says how long the number is.
Mark(n) == CASE n = 1 -> 0 [] n = 2 -> 128 [] n = 3 -> 192 [] n = 4 -> 224 [] n = 9 -> 248

\* encode_oppv_u64_slice.
Oppv(v) ==
    LET n == OppvLen(v)
        top == IF n = 9 THEN 0 ELSE v \div 256^(n - 1)
    IN  <<Mark(n) + top>> \o BigEndian(v, n - 1)

\* The length of the form a first byte announces, or 0.
FormLen(b) ==
    CASE b < 128 -> 1
      [] 128 <= b /\ b < 192 -> 2
      [] 192 <= b /\ b < 224 -> 3
      [] 224 <= b /\ b < 240 -> 4
      [] b = 248 -> 9
      [] OTHER -> 0

\* The number in the first n bytes; bytes 2 to 5 of the long form are zero.
Number(s, n) ==
    LET value[i \in 1 .. n] ==
            IF i = 1 THEN s[1] - Mark(n)
            ELSE IF n = 9 /\ i < 6 THEN 0
            ELSE value[i - 1] * 256 + s[i]
    IN  value[n]

\* decode_oppv_u64: the number and the bytes it took, or NoValue.
Decoded(s, n) == IF n = 0 \/ Len(s) < n THEN NoValue ELSE <<Number(s, n), n>>
Decode(s) == IF s = <<>> THEN NoValue ELSE Decoded(s, FormLen(s[1]))

----------------------------------------------------------------------------
(* Composing keys.                                                         *)

IsDefault(s) == s = <<0, 0>>

\* encode_scope_prefix_fixed, namespace_prefix.
ScopePrefix(s) == <<0>> \o Oppv(s[1]) \o Oppv(s[2])

\* encode_ns_prefix_fixed, ns_prefix.
NsPrefix(ns) == <<0>> \o Oppv(ns)

\* compose_meta_prefix: the prefix of a tag's rows, written out when the scope
\* is the default one.
TagPrefix(s, tag) == IF IsDefault(s) THEN <<0, 0, 0, tag>> ELSE Append(ScopePrefix(s), tag)

\* compose_meta_key_into.
MetaKey(s, tag, key) == TagPrefix(s, tag) \o key

\* compose_prefix_into_with_extra: short keys of the default scope are written
\* out with their length as one byte.
DataPrefix(s, tag, key) ==
    IF IsDefault(s) /\ Len(key) < 128 THEN <<0, 0, 0, tag, Len(key)>> \o key
    ELSE Append(ScopePrefix(s), tag) \o Oppv(Len(key)) \o key

\* compose_subkey_stack; compose_oppv_subkey_stack counts the middle part too.
SubKey(s, tag, key, sub) == DataPrefix(s, tag, key) \o sub
OppvSubKey(s, tag, key, mid, sub) ==
    Append(ScopePrefix(s), tag) \o Oppv(Len(key)) \o key \o Oppv(Len(mid)) \o mid \o sub

\* The catalog and the counters of the meta partition.
CatalogPrefix == <<255, 2>>
CatalogNsPrefix(ns) == CatalogPrefix \o Oppv(ns)
CatalogDbKey(s) == CatalogPrefix \o Oppv(s[1]) \o Oppv(s[2])
NsNextIdKey == <<255, 1, 3>>
DbNextIdKey(ns) == <<255, 1, 5>> \o Oppv(ns)

----------------------------------------------------------------------------
(* Reading keys.                                                           *)

IsTag(b) == b <= LastTag

\* parse_scoped_prefix: the scope and the length of its prefix.
ScopeOf(full, ns, db) ==
    IF db = NoValue \/ Len(full) <= 1 + ns[2] + db[2] THEN NoValue
    ELSE << <<ns[1], db[1]>>, 1 + ns[2] + db[2] >>
ScopeAfter(full, ns) ==
    IF ns = NoValue THEN NoValue ELSE ScopeOf(full, ns, Decode(After(full, 1 + ns[2])))
ParseScope(full) ==
    IF Len(full) < 3 \/ full[1] # 0 THEN NoValue ELSE ScopeAfter(full, Decode(After(full, 1)))

\* is_key_in_ns.
InScope(s, full) ==
    LET n == Len(ScopePrefix(s))
    IN  StartsWith(full, ScopePrefix(s)) /\ Len(full) > n /\ IsTag(full[n + 1])

\* extract_user_key: the tag and the user key of a key of the scope.
LongKey(rest, length) ==
    IF length = NoValue \/ Len(rest) < 1 + length[2] + length[1] THEN NoValue
    ELSE <<rest[1], SubSeq(rest, 2 + length[2], 1 + length[2] + length[1])>>
KeyAfter(rest) ==
    IF rest[1] \in WholeKeyTags THEN <<rest[1], After(rest, 1)>>
    ELSE LongKey(rest, Decode(After(rest, 1)))
UserKey(s, full) ==
    IF ~InScope(s, full) THEN NoValue ELSE KeyAfter(After(full, Len(ScopePrefix(s))))

\* transform_key_to_target_bytes.
Transform(s, full, target) ==
    IF ~InScope(s, full) THEN NoValue
    ELSE ScopePrefix(target) \o After(full, Len(ScopePrefix(s)))
=============================================================================
