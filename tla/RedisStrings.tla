---------------------------- MODULE RedisStrings ----------------------------
(***************************************************************************)
(* What the string commands promise one client: a key holds nothing, a     *)
(* string or a value of another type, either with a time of death or none; *)
(* what is dead is nothing.  Strings shows how rows with expiry headers,   *)
(* composite headers and reads followed by writes implement it.            *)
(***************************************************************************)
EXTENDS Integers, Sequences

CONSTANTS
    Keys,         \* keys
    Values,       \* the strings clients pass
    Expiries,     \* the times of death clients pass, 0 for none
    SetOptions,   \* the options of SET: [cond, cmp, get, keep, exp]
    DelOptions,   \* the conditions of DELEX: sequences of [cond, cmp]
    Pairs,        \* the key-value lists of MSET
    Increments,   \* the increments of INCRBY and DECRBY
    Offsets,      \* the offsets of SETRANGE
    Ranges,       \* the ranges of GETRANGE: <<start, stop>>
    MaxNow,       \* bound: the last moment of the clock
    MaxLen,       \* the longest string (MAX_STRING_SIZE)
    MaxInt,       \* the largest integer of the code's width
    Nul           \* the byte SETRANGE fills gaps with

VARIABLES
    now,          \* the clock
    holds,        \* what each key holds
    asked,        \* the last command and its arguments
    reply         \* its answer

vars == <<now, holds, asked, reply>>

\* The answers, and the decimal numerals, one digit long in these bounds.
Nil == <<"nil">>
Num(n) == <<"num", n>>
Str(s) == <<"str", s>>
Ok == Str(<<>>)
WrongType == <<"wrongtype">>
NotInteger == <<"not integer">>
Overflow == <<"overflow">>
TooLong == <<"too long">>
Numerals == <<"0", "1", "2", "3", "4", "5", "6", "7", "8", "9">>
Decimal(n) == IF n < 0 THEN <<"-", Numerals[1 - n]>> ELSE <<Numerals[n + 1]>>

Nothing == [type |-> "none"]
String(s, e) == [type |-> "string", val |-> s, exp |-> e]
Other(e) == [type |-> "other", exp |-> e]

\* What of x is alive at time t.
Alive(x, t) == IF x.type # "none" /\ x.exp > 0 /\ x.exp <= t THEN Nothing ELSE x

IsString(k) == holds[k].type = "string"
IsFree(k) == holds[k].type = "none"
IsOther(k) == holds[k].type = "other"

Keep(r) == reply' = r /\ UNCHANGED <<now, holds>>
Put(k, x, r) ==
    /\ holds' = [holds EXCEPT ![k] = Alive(x, now)]
    /\ reply' = r
    /\ UNCHANGED now

\* The bytes of a key.
Bytes(k) == IF IsString(k) THEN holds[k].val ELSE <<>>

\* Every string command but SET and MSET refuses a value of another type.
Refuse(k) == IsOther(k) /\ Keep(WrongType)

IntRange == -(MaxInt + 1) .. MaxInt

Init ==
    /\ now = 0
    /\ holds = [k \in Keys |-> Nothing]
    /\ asked = <<>>
    /\ reply = Ok

Tick ==
    /\ now < MaxNow
    /\ now' = now + 1
    /\ holds' = [k \in Keys |-> Alive(holds[k], now')]
    /\ UNCHANGED <<asked, reply>>

\* Commands of other types fill and empty keys that hold no string.
PutOther(k, e) == ~IsString(k) /\ Put(k, Other(e), Ok)
DropOther(k) == IsOther(k) /\ Put(k, Nothing, Ok)

Matches(k, o) ==
    CASE o.cond = "nx"   -> IsFree(k)
      [] o.cond = "xx"   -> ~IsFree(k)
      [] o.cond = "ifeq" -> IsString(k) /\ holds[k].val = o.cmp
      [] o.cond = "ifne" -> ~(IsString(k) /\ holds[k].val = o.cmp)
      [] OTHER           -> TRUE

\* SET: GET and the comparisons need a string; KEEPTTL keeps a string's.
Set(k, v, o) ==
    LET old == IF IsString(k) THEN Str(holds[k].val) ELSE Nil
        exp == IF o.keep THEN IF IsString(k) THEN holds[k].exp ELSE 0 ELSE o.exp
    IN  IF IsOther(k) /\ (o.get \/ o.cond \in {"ifeq", "ifne"}) THEN Keep(WrongType)
        ELSE IF Matches(k, o) THEN Put(k, String(v, exp), IF o.get THEN old ELSE Ok)
        ELSE Keep(IF o.get THEN old ELSE Nil)

\* GET, GETEX (e the new time of death), GETDEL.
Get(k) == Refuse(k) \/ (~IsOther(k) /\ Keep(IF IsString(k) THEN Str(holds[k].val) ELSE Nil))
GetEx(k, e) ==
    \/ Refuse(k)
    \/ IsString(k) /\ Put(k, [holds[k] EXCEPT !.exp = e], Str(holds[k].val))
    \/ IsFree(k) /\ Keep(Nil)
GetDel(k) ==
    \/ Refuse(k)
    \/ IsString(k) /\ Put(k, Nothing, Str(holds[k].val))
    \/ IsFree(k) /\ Keep(Nil)

\* DELEX deletes a string that meets every condition.
DelEx(k, os) ==
    \/ Refuse(k)
    \/ IsFree(k) /\ Keep(Num(0))
    \/ /\ IsString(k)
       /\ IF \A i \in 1 .. Len(os) : Matches(k, os[i])
          THEN Put(k, Nothing, Num(1))
          ELSE Keep(Num(0))

\* INCRBY: a missing key counts as 0; the time of death stays.
IncrBy(k, n) ==
    LET number == {i \in IntRange : IF IsFree(k) THEN i = 0 ELSE Bytes(k) = Decimal(i)}
        exp == IF IsString(k) THEN holds[k].exp ELSE 0
    IN  \/ Refuse(k)
        \/ ~IsOther(k) /\ number = {} /\ Keep(NotInteger)
        \/ \E i \in number :
              IF i + n \in IntRange
              THEN Put(k, String(Decimal(i + n), exp), Num(i + n))
              ELSE Keep(Overflow)

\* A string written into another at an offset.
Overlay(s, off, v) ==
    LET end == off + Len(v)
    IN  [i \in 1 .. (IF end > Len(s) THEN end ELSE Len(s)) |->
            IF i > off /\ i <= end THEN v[i - off]
            ELSE IF i <= Len(s) THEN s[i] ELSE Nul]

Extend(k, s) ==
    IF Len(s) > MaxLen THEN Keep(TooLong)
    ELSE Put(k, String(s, IF IsString(k) THEN holds[k].exp ELSE 0), Num(Len(s)))

AppendTo(k, v) == Refuse(k) \/ (~IsOther(k) /\ Extend(k, Bytes(k) \o v))

\* SETRANGE past the limit is refused before the key is looked at.
SetRange(k, off, v) ==
    \/ off + Len(v) > MaxLen /\ Keep(TooLong)
    \/ off + Len(v) <= MaxLen /\ Refuse(k)
    \/ off + Len(v) <= MaxLen /\ IsFree(k) /\ v = <<>> /\ Keep(Num(0))
    \/ /\ off + Len(v) <= MaxLen /\ ~IsOther(k) /\ ~(IsFree(k) /\ v = <<>>)
       /\ Extend(k, Overlay(Bytes(k), off, v))

\* GETRANGE and STRLEN: positions from 0, negative ones from the end.
GetRange(k, r) ==
    LET len == Len(Bytes(k))
        from == IF r[1] < 0 THEN len + r[1] ELSE r[1]
        to == IF r[2] < 0 THEN len + r[2] ELSE r[2]
        within == {i \in 0 .. (len - 1) : from <= i /\ i <= to}
    IN  \/ Refuse(k)
        \/ ~IsOther(k) /\ within = {} /\ Keep(Ok)
        \/ /\ ~IsOther(k) /\ within # {}
           /\ Keep(Str(SubSeq(Bytes(k), (IF from < 0 THEN 0 ELSE from) + 1,
                              (IF to >= len THEN len - 1 ELSE to) + 1)))

StrLen(k) == Refuse(k) \/ (~IsOther(k) /\ Keep(Num(Len(Bytes(k)))))

\* CAS and CAD: 1 done, 0 another string, -1 no string.
Cas(k, old, v, e) ==
    \/ Refuse(k)
    \/ IsFree(k) /\ Keep(Num(-1))
    \/ IsString(k) /\ holds[k].val # old /\ Keep(Num(0))
    \/ IsString(k) /\ holds[k].val = old /\ Put(k, String(v, e), Num(1))
Cad(k, old) ==
    \/ Refuse(k)
    \/ IsFree(k) /\ Keep(Num(-1))
    \/ IsString(k) /\ holds[k].val # old /\ Keep(Num(0))
    \/ IsString(k) /\ holds[k].val = old /\ Put(k, Nothing, Num(1))

\* MSET writes all its pairs or none, the last pair of a key winning.
\* MSETNX needs every key free, MSETXX every key to hold a string.
MSet(kvs, o) ==
    LET named == {kvs[i][1] : i \in 1 .. Len(kvs)}
        last(k) == kvs[CHOOSE i \in 1 .. Len(kvs) :
                          kvs[i][1] = k /\ \A j \in (i + 1) .. Len(kvs) : kvs[j][1] # k][2]
        exp(k) == IF o.keep THEN IF IsString(k) THEN holds[k].exp ELSE 0 ELSE o.exp
        met == \A k \in named : /\ o.cond = "nx" => IsFree(k)
                                /\ o.cond = "xx" => IsString(k)
    IN  IF met
        THEN /\ holds' = [k \in Keys |-> IF k \in named
                                         THEN Alive(String(last(k), exp(k)), now)
                                         ELSE holds[k]]
             /\ reply' = Num(1)
             /\ UNCHANGED now
        ELSE Keep(Num(0))

Call(k) ==
    \/ \E e \in Expiries : \/ asked' = <<"put other", k, e>> /\ PutOther(k, e)
                           \/ asked' = <<"getex", k, e>> /\ GetEx(k, e)
    \/ asked' = <<"drop other", k>> /\ DropOther(k)
    \/ \E v \in Values, o \in SetOptions : asked' = <<"set", k, v, o>> /\ Set(k, v, o)
    \/ asked' = <<"get", k>> /\ Get(k)
    \/ asked' = <<"getdel", k>> /\ GetDel(k)
    \/ asked' = <<"strlen", k>> /\ StrLen(k)
    \/ \E os \in DelOptions : asked' = <<"delex", k, os>> /\ DelEx(k, os)
    \/ \E n \in Increments : \/ asked' = <<"incrby", k, n>> /\ IncrBy(k, n)
                             \/ asked' = <<"decrby", k, n>> /\ IncrBy(k, -n)
    \/ \E v \in Values : \/ asked' = <<"append", k, v>> /\ AppendTo(k, v)
                         \/ asked' = <<"cad", k, v>> /\ Cad(k, v)
    \/ \E off \in Offsets, v \in Values : asked' = <<"setrange", k, off, v>> /\ SetRange(k, off, v)
    \/ \E r \in Ranges : asked' = <<"getrange", k, r>> /\ GetRange(k, r)
    \/ \E old, v \in Values, e \in Expiries :
          asked' = <<"cas", k, old, v, e>> /\ Cas(k, old, v, e)

Next ==
    \/ Tick
    \/ \E k \in Keys : Call(k)
    \/ \E kvs \in Pairs, o \in {o \in SetOptions : ~o.get /\ o.cond \in {"none", "nx", "xx"}} :
         asked' = <<"mset", kvs, o>> /\ MSet(kvs, o)

Spec == Init /\ [][Next]_vars
=============================================================================
