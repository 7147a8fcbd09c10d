------------------------------ MODULE Strings ------------------------------
(***************************************************************************)
(* The string commands (embed/src/api/string).  A string is one row of the *)
(* data partition, its time of death in a header before the bytes; a value *)
(* of another type is a header in the meta partition, which may lie beside *)
(* a row when one of the two is dead.                                      *)
(*                                                                         *)
(* No command holds a lock.  Each reads what it needs and decides, and     *)
(* then writes one batch: Read and Write are separate steps of a thread,   *)
(* and the clock and other threads move between them.  The digests of      *)
(* IFDEQ and IFDNE are taken to be injective, which makes them IFEQ and    *)
(* IFNE.                                                                   *)
(***************************************************************************)
EXTENDS Integers, Sequences

CONSTANTS
    Procs,        \* threads
    Keys, Values, Expiries, SetOptions, DelOptions, Pairs, Increments, Offsets, Ranges,
    MaxNow, MaxLen, MaxInt, Nul,      \* as in RedisStrings
    Absent        \* no row, no header

Options == [cond : {"none", "nx", "xx", "ifeq", "ifne"}, cmp : Seq(STRING),
            get : BOOLEAN, keep : BOOLEAN, exp : Expiries]

\* IntRange below; the numerals have one digit.
Numerals == <<"0", "1", "2", "3", "4", "5", "6", "7", "8", "9">>
Decimal(n) == IF n < 0 THEN <<"-", Numerals[1 - n]>> ELSE <<Numerals[n + 1]>>
IntRange == -(MaxInt + 1) .. MaxInt

\* The rows there can be, of the bytes clients pass, of numerals and of gaps.
BytesOf(s) == {s[i] : i \in 1 .. Len(s)}
Bytes == {Nul} \cup (UNION {BytesOf(v) : v \in Values})
               \cup (UNION {BytesOf(Decimal(n)) : n \in IntRange})
Rows == [val : Seq(Bytes), exp : Expiries]

\* The batches that put or delete the rows of K.
BatchesOn(K) == [rows : [K -> Rows \cup {Absent}], clean : SUBSET K,
                 expects : (Keys \X Values) \cup {Absent}]

StringsAssumption ==
    /\ MaxNow \in Nat
    /\ MaxLen \in Nat \ {0, 1}              \* every numeral fits
    /\ MaxInt \in 0 .. 8
    /\ Expiries \subseteq Nat /\ 0 \in Expiries
    /\ Values \subseteq Seq(Bytes)
    /\ \A v \in Values : Len(v) <= MaxLen    \* set, cas, mset refuse longer ones
    /\ SetOptions \subseteq Options /\ DelOptions \subseteq Seq(Options)
    /\ Pairs \subseteq Seq(Keys \X Values)
    /\ Increments \subseteq Int /\ Offsets \subseteq Nat /\ Ranges \subseteq Int \X Int
    /\ Absent \notin Rows \cup Nat
    /\ \A K \in SUBSET Keys : Absent \notin BatchesOn(K)

VARIABLES
    now,      \* current_now_ms
    str,      \* the row at each key: [val, exp], or Absent
    other,    \* the other type's header at each key: its time of death, or Absent
    batch,    \* what each thread is about to write, or Absent between calls
    asked,    \* each thread's last call and its arguments (history)
    reply     \* the answer that call has decided on

vars == <<now, str, other, batch, asked, reply>>

\* The answers, as in RedisStrings.
Nil == <<"nil">>
Num(n) == <<"num", n>>
Str(s) == <<"str", s>>
Ok == Str(<<>>)
WrongType == <<"wrongtype">>
NotInteger == <<"not integer">>
Overflow == <<"overflow">>
TooLong == <<"too long">>

\* cleanup_all_composite_data deletes the headers of K that it finds.
Found(K) == {k \in K : other[k] # Absent}

\* A batch: the rows it puts (Absent to delete) and the keys it cleans of
\* other types.  `expects` is history: the string a CAS or CAD has matched.
NoBatch == Absent
Put(k, row, clean) ==
    [rows |-> [x \in {k} |-> row], clean |-> Found(IF clean THEN {k} ELSE {}), expects |-> Absent]
Row(v, e) == [val |-> v, exp |-> e]

-----------------------------------------------------------------------------
(* What a thread reads. *)

\* is_string_expired; KeyMeta::is_expired tests headers alike.
Passed(exp) == exp > 0 /\ exp <= now

\* decode_live_string_value.
Live(k) == str[k] # Absent /\ ~Passed(str[k].exp)

OtherLive(k) == other[k] # Absent /\ ~Passed(other[k])

\* get_string_raw: the live row, no string, or the error of another type.
Raw(k) == IF Live(k) THEN "some" ELSE IF OtherLive(k) THEN "wrongtype" ELSE "none"

\* The bytes and the time of death that a command finds, or its defaults.
OldVal(k) == IF Live(k) THEN str[k].val ELSE <<>>
OldExp(k) == IF Live(k) THEN str[k].exp ELSE 0

-----------------------------------------------------------------------------
(* A call reads and decides; one with nothing to write returns at once. *)

Answer(p, r) ==
    /\ batch[p] = NoBatch
    /\ reply' = [reply EXCEPT ![p] = r]
    /\ UNCHANGED <<now, str, other, batch>>

Decide(p, b, r) ==
    /\ batch[p] = NoBatch
    /\ batch' = [batch EXCEPT ![p] = b]
    /\ reply' = [reply EXCEPT ![p] = r]
    /\ UNCHANGED <<now, str, other>>

\* Mutant: the rows go, and the headers of other types stay.
WriteRowsOnly(p) ==
    /\ batch[p] # NoBatch
    /\ str' = [k \in Keys |-> IF k \in DOMAIN batch[p].rows THEN batch[p].rows[k] ELSE str[k]]
    /\ batch' = [batch EXCEPT ![p] = NoBatch]
    /\ UNCHANGED <<now, other, asked, reply>>

\* The batch is committed and the call returns.
Write(p) ==
    /\ batch[p] # NoBatch
    /\ str' = [k \in Keys |-> IF k \in DOMAIN batch[p].rows THEN batch[p].rows[k] ELSE str[k]]
    /\ other' = [k \in Keys |-> IF k \in batch[p].clean THEN Absent ELSE other[k]]
    /\ batch' = [batch EXCEPT ![p] = NoBatch]
    /\ UNCHANGED <<now, asked, reply>>

-----------------------------------------------------------------------------
(* SET with its options, GETSET, SETNX, SETXX, SETEX: set_internal. *)

\* condition_met.
Met(k, o) ==
    CASE o.cond = "nx"   -> Raw(k) = "none"
      [] o.cond = "xx"   -> Raw(k) # "none"
      [] o.cond = "ifeq" -> Live(k) /\ str[k].val = o.cmp
      [] o.cond = "ifne" -> ~(Live(k) /\ str[k].val = o.cmp)
      [] OTHER           -> TRUE

IsFastPath(o) == o.cond = "none" /\ ~o.get /\ ~o.keep

\* The time of death SET writes.
Kept(k, o) == IF o.keep THEN OldExp(k) ELSE o.exp

\* The fast path reads nothing and cleans other types; the slow path cleans
\* only when it met one.
Set(p, k, v, o) ==
    LET old == IF Live(k) THEN Str(str[k].val) ELSE Nil
        refused == Raw(k) = "wrongtype" /\ (o.get \/ o.cond \in {"ifeq", "ifne"})
    IN  \/ /\ IsFastPath(o)
           /\ Decide(p, Put(k, Row(v, o.exp), TRUE), Ok)
        \/ ~IsFastPath(o) /\ refused /\ Answer(p, WrongType)
        \/ ~IsFastPath(o) /\ ~refused /\ ~Met(k, o) /\ Answer(p, IF o.get THEN old ELSE Nil)
        \/ /\ ~IsFastPath(o) /\ ~refused /\ Met(k, o)
           /\ Decide(p, Put(k, Row(v, Kept(k, o)), Raw(k) = "wrongtype"),
                     IF o.get THEN old ELSE Ok)

\* GET; GETEX and GETDEL write the row back or delete it.
Get(p, k) ==
    Answer(p, CASE Raw(k) = "some" -> Str(OldVal(k))
                [] Raw(k) = "none" -> Nil
                [] OTHER           -> WrongType)

GetEx(p, k, e) ==
    \/ Raw(k) = "some" /\ Decide(p, Put(k, Row(OldVal(k), e), FALSE), Str(OldVal(k)))
    \/ Raw(k) = "none" /\ Answer(p, Nil)
    \/ Raw(k) = "wrongtype" /\ Answer(p, WrongType)

GetDel(p, k) ==
    \/ Raw(k) = "some" /\ Decide(p, Put(k, Absent, FALSE), Str(OldVal(k)))
    \/ Raw(k) = "none" /\ Answer(p, Nil)
    \/ Raw(k) = "wrongtype" /\ Answer(p, WrongType)

\* DELEX: the first condition that fails ends it.
DelEx(p, k, os) ==
    \/ Raw(k) = "wrongtype" /\ Answer(p, WrongType)
    \/ Raw(k) = "none" /\ Answer(p, Num(0))
    \/ Raw(k) = "some" /\ (\E i \in 1 .. Len(os) : ~Met(k, os[i])) /\ Answer(p, Num(0))
    \/ /\ Raw(k) = "some"
       /\ \A i \in 1 .. Len(os) : Met(k, os[i])
       /\ Decide(p, Put(k, Absent, FALSE), Num(1))

-----------------------------------------------------------------------------
(* Numbers, byte ranges, comparisons. *)

\* itoa: the decimal numeral of n, and parse_redis_integer over these bounds.
Formatted(n) == Decimal(n)
Parses(v) == \E n \in IntRange : Formatted(n) = v
Parsed(v) == CHOOSE n \in IntRange : Formatted(n) = v

\* checked_add.
Sum(k, n) == n + (IF Live(k) THEN Parsed(str[k].val) ELSE 0)

\* incrby_ex with keep_ttl, as INCR, DECR and INCRBY call it.
IncrBy(p, k, n) ==
    \/ Raw(k) = "wrongtype" /\ Answer(p, WrongType)
    \/ Raw(k) = "some" /\ ~Parses(OldVal(k)) /\ Answer(p, NotInteger)
    \/ /\ Raw(k) = "none" \/ (Raw(k) = "some" /\ Parses(OldVal(k)))
       /\ IF Sum(k, n) \in IntRange
          THEN Decide(p, Put(k, Row(Formatted(Sum(k, n)), OldExp(k)), ~Live(k)), Num(Sum(k, n)))
          ELSE Answer(p, Overflow)

\* decrby negates its decrement, and the least integer has no negation.
Negated(n) == IF n = -(MaxInt + 1) THEN n ELSE -n
DecrBy(p, k, n) == IncrBy(p, k, Negated(n))

\* The bytes of APPEND and SETRANGE go behind the old header.
Rewrite(p, k, bytes) ==
    Decide(p, Put(k, Row(bytes, OldExp(k)), ~Live(k)), Num(Len(bytes)))

\* Mutant: the limit on the length is not tested.
AppendUnlimited(p, k, v) ==
    \/ Raw(k) = "wrongtype" /\ Answer(p, WrongType)
    \/ /\ Raw(k) # "wrongtype"
       /\ Len(OldVal(k)) <= MaxLen
       /\ Rewrite(p, k, OldVal(k) \o v)

AppendTo(p, k, v) ==
    \/ Raw(k) = "wrongtype" /\ Answer(p, WrongType)
    \/ /\ Raw(k) # "wrongtype"
       /\ IF Len(OldVal(k)) + Len(v) > MaxLen
          THEN Answer(p, TooLong)
          ELSE Rewrite(p, k, OldVal(k) \o v)

Zeros(n) == [i \in 1 .. n |-> Nul]

\* setrange's three pieces: the old bytes before the offset, padded, the new
\* bytes, and the old bytes behind them.
Splice(old, off, v) ==
    (IF off < Len(old) THEN SubSeq(old, 1, off) ELSE old \o Zeros(off - Len(old)))
    \o v \o SubSeq(old, off + Len(v) + 1, Len(old))

SetRange(p, k, off, v) ==
    \/ off + Len(v) > MaxLen /\ Answer(p, TooLong)
    \/ off + Len(v) <= MaxLen /\ Raw(k) = "wrongtype" /\ Answer(p, WrongType)
    \/ off + Len(v) <= MaxLen /\ Raw(k) = "none" /\ v = <<>> /\ Answer(p, Num(0))
    \/ /\ off + Len(v) <= MaxLen /\ Raw(k) # "wrongtype" /\ ~(Raw(k) = "none" /\ v = <<>>)
       /\ Rewrite(p, k, Splice(OldVal(k), off, v))

\* normalize_range: positions from 0; the range is empty when s > e.
Normalized(r, len) ==
    LET s == IF r[1] < 0 THEN len + r[1] ELSE r[1]
        e == IF r[2] < 0 THEN len + r[2] ELSE r[2]
    IN  [s |-> IF s < 0 THEN 0 ELSE s, e |-> IF e >= len THEN len - 1 ELSE e]

GetRange(p, k, r) ==
    LET n == Normalized(r, Len(OldVal(k)))
    IN  \/ Raw(k) = "wrongtype" /\ Answer(p, WrongType)
        \/ /\ Raw(k) # "wrongtype"
           /\ Answer(p, IF OldVal(k) = <<>> \/ n.s > n.e THEN Ok
                        ELSE Str(SubSeq(OldVal(k), n.s + 1, n.e + 1)))

StrLen(p, k) ==
    \/ Raw(k) = "wrongtype" /\ Answer(p, WrongType)
    \/ Raw(k) # "wrongtype" /\ Answer(p, Num(Len(OldVal(k))))

\* cas and cad share their reading: 1 and a batch, 0, -1 or the error.
Compare(p, k, old, row) ==
    \/ Raw(k) = "wrongtype" /\ Answer(p, WrongType)
    \/ Raw(k) = "none" /\ Answer(p, Num(-1))
    \/ Raw(k) = "some" /\ OldVal(k) # old /\ Answer(p, Num(0))
    \/ /\ Raw(k) = "some" /\ OldVal(k) = old
       /\ Decide(p, [Put(k, row, FALSE) EXCEPT !.expects = <<k, old>>], Num(1))

Cas(p, k, old, v, e) == Compare(p, k, old, Row(v, e))
Cad(p, k, old) == Compare(p, k, old, Absent)

-----------------------------------------------------------------------------
(* MSET, MSETNX, MSETXX, MSETEX: mset_internal. *)

\* The options mset_internal knows.
MSetOptions == {o \in SetOptions : ~o.get /\ o.cond \in {"none", "nx", "xx"}}

\* Mutant: the condition is tested for the first pair only.
MSetMetFirst(kvs, o) ==
    LET k == kvs[1][1]
    IN  /\ o.cond = "nx" => Raw(k) = "none"
        /\ o.cond = "xx" => Live(k)

\* A key of another type is in the way of NX, and no key to XX.
MSetMet(kvs, o) ==
    \A i \in 1 .. Len(kvs) :
        LET k == kvs[i][1]
        IN  /\ o.cond = "nx" => Raw(k) = "none"
            /\ o.cond = "xx" => Live(k)

Named(kvs) == {kvs[i][1] : i \in 1 .. Len(kvs)}

\* The pairs go into the batch in order: the last one of a key stands.
RowsOf(kvs, o) ==
    [k \in Named(kvs) |->
        LET i == CHOOSE i \in 1 .. Len(kvs) :
                    kvs[i][1] = k /\ \A j \in (i + 1) .. Len(kvs) : kvs[j][1] # k
        IN  Row(kvs[i][2], Kept(k, o))]

MSet(p, kvs, o) ==
    \/ ~MSetMet(kvs, o) /\ Answer(p, Num(0))
    \/ /\ MSetMet(kvs, o)
       /\ Decide(p, [rows |-> RowsOf(kvs, o),
                     clean |-> Found(Named(kvs)),
                     expects |-> Absent], Num(1))

-----------------------------------------------------------------------------
(* The clock, and the commands of other types. *)

Tick ==
    /\ now < MaxNow
    /\ now' = now + 1
    /\ UNCHANGED <<str, other, batch, asked, reply>>

\* A command of another type creates or rewrites its value at a key that
\* holds no live string; a dead row may stay beside it.
PutOther(p, k, e) ==
    /\ batch[p] = NoBatch
    /\ ~Live(k)
    /\ other' = [other EXCEPT ![k] = e]
    /\ reply' = [reply EXCEPT ![p] = Ok]
    /\ UNCHANGED <<now, str, batch>>

DropOther(p, k) ==
    /\ batch[p] = NoBatch
    /\ ~Live(k)
    /\ OtherLive(k)
    /\ other' = [other EXCEPT ![k] = Absent]
    /\ reply' = [reply EXCEPT ![p] = Ok]
    /\ UNCHANGED <<now, str, batch>>

Init ==
    /\ now = 0
    /\ str = [k \in Keys |-> Absent]
    /\ other = [k \in Keys |-> Absent]
    /\ batch = [p \in Procs |-> NoBatch]
    /\ asked = [p \in Procs |-> <<>>]
    /\ reply = [p \in Procs |-> Ok]

\* The call p makes.
Asks(p, call) == asked' = [asked EXCEPT ![p] = call]

Call(p, k) ==
    \/ \E e \in Expiries : \/ Asks(p, <<"put other", k, e>>) /\ PutOther(p, k, e)
                           \/ Asks(p, <<"getex", k, e>>) /\ GetEx(p, k, e)
    \/ Asks(p, <<"drop other", k>>) /\ DropOther(p, k)
    \/ \E v \in Values, o \in SetOptions : Asks(p, <<"set", k, v, o>>) /\ Set(p, k, v, o)
    \/ Asks(p, <<"get", k>>) /\ Get(p, k)
    \/ Asks(p, <<"getdel", k>>) /\ GetDel(p, k)
    \/ Asks(p, <<"strlen", k>>) /\ StrLen(p, k)
    \/ \E os \in DelOptions : Asks(p, <<"delex", k, os>>) /\ DelEx(p, k, os)
    \/ \E n \in Increments : \/ Asks(p, <<"incrby", k, n>>) /\ IncrBy(p, k, n)
                             \/ Asks(p, <<"decrby", k, n>>) /\ DecrBy(p, k, n)
    \/ \E v \in Values : \/ Asks(p, <<"append", k, v>>) /\ AppendTo(p, k, v)
                         \/ Asks(p, <<"cad", k, v>>) /\ Cad(p, k, v)
    \/ \E off \in Offsets, v \in Values : Asks(p, <<"setrange", k, off, v>>) /\ SetRange(p, k, off, v)
    \/ \E r \in Ranges : Asks(p, <<"getrange", k, r>>) /\ GetRange(p, k, r)
    \/ \E old, v \in Values, e \in Expiries :
          Asks(p, <<"cas", k, old, v, e>>) /\ Cas(p, k, old, v, e)

CallMSet(p) ==
    \E kvs \in Pairs, o \in MSetOptions : Asks(p, <<"mset", kvs, o>>) /\ MSet(p, kvs, o)

Next == Tick \/ \E p \in Procs : Write(p) \/ CallMSet(p) \/ \E k \in Keys : Call(p, k)

Spec == Init /\ [][Next]_vars

-----------------------------------------------------------------------------
(* Properties. *)

(* The variables have their types, and no string is longer than the limit.  *)
TypeOK ==
    /\ now \in 0 .. MaxNow
    /\ str \in [Keys -> Rows \cup {Absent}]
    /\ \A k \in Keys : str[k] # Absent => Len(str[k].val) <= MaxLen
    /\ other \in [Keys -> Expiries \cup {Absent}]
    /\ \A p \in Procs : batch[p] # NoBatch =>
          /\ \E K \in SUBSET Keys : batch[p] \in BatchesOn(K)
          /\ \A k \in DOMAIN batch[p].rows :
                batch[p].rows[k] # Absent => Len(batch[p].rows[k].val) <= MaxLen

(* At most one live thing lies at a key, and no write under way, landing    *)
(* now, would leave two: a string command knows what it writes over.        *)
OneLive ==
    /\ \A k \in Keys : ~(Live(k) /\ OtherLive(k))
    /\ \A p \in Procs : batch[p] # NoBatch =>
          \A k \in DOMAIN batch[p].rows : OtherLive(k) => k \in batch[p].clean

\* The store as it will be when the client's write has landed.
Client == CHOOSE p \in Procs : TRUE
Pending == batch[Client]
StrThen(k) ==
    IF Pending # NoBatch /\ k \in DOMAIN Pending.rows THEN Pending.rows[k] ELSE str[k]
OtherThen(k) == IF Pending # NoBatch /\ k \in Pending.clean THEN Absent ELSE other[k]

\* What a key holds, in the terms of RedisStrings.
Held(k) ==
    IF StrThen(k) # Absent /\ ~Passed(StrThen(k).exp)
    THEN [type |-> "string", val |-> StrThen(k).val, exp |-> StrThen(k).exp]
    ELSE IF OtherThen(k) # Absent /\ ~Passed(OtherThen(k))
    THEN [type |-> "other", exp |-> OtherThen(k)]
    ELSE [type |-> "none"]

Abstract == INSTANCE RedisStrings WITH
    holds <- [k \in Keys |-> Held(k)], asked <- asked[Client],
    reply <- reply[Client]

(* To a single client every string command is the plain operation of        *)
(* RedisStrings, at the moment of its read: rows that are dead or shadowed, *)
(* headers left beside them and a clock that moves before the write never   *)
(* show in an answer or in what the keys hold.                              *)
ImplementsRedisStrings == Abstract!Init /\ [][[Abstract!Next]_(Abstract!vars)]_vars

(* "Substring, range, append, and atomic CAS/CAD operations"                *)
(* (embed/src/api/string/range.rs:20): what a CAS or CAD replaces is the    *)
(* string it was told to expect.                                            *)
CasAtomic ==
    [][ \A p \in Procs :
          (Write(p) /\ batch[p].expects # Absent) =>
             LET k == batch[p].expects[1]
             IN  str[k] # Absent /\ str[k].val = batch[p].expects[2] ]_vars
=============================================================================
