----------------------------- MODULE RedisKeys -----------------------------
(***************************************************************************)
(* What one logical database promises its single caller: a map from live   *)
(* keys to objects, each a string or a set-like collection of one type,    *)
(* with an optional expiry.  A key whose time has come is simply gone;     *)
(* nothing of what it was can come back.  Keyspace shows how the two       *)
(* partitions of the store implement this map.                             *)
(***************************************************************************)
EXTENDS Integers, Sequences, FiniteSets

CONSTANTS
    Keys,        \* user keys
    Types,       \* the set-like collection types, e.g. {"set", "sortedint"}
    Members,     \* members of a collection
    Values,      \* string payloads
    Expiries,    \* absolute expiry times callers pass; 0 is "no expiry"
    CopyNx,      \* the values of nx with which callers copy over expired records
    MaxNow       \* bound: the clock reads 0 .. MaxNow

\* Return values other than counts.
Ok == -1
Nil == -2
WrongType == -3
NoSuchKey == -4

SetModes == {"plain", "nx", "xx", "get", "keepttl"}
ExpireConditions == {"none", "nx", "xx", "gt", "lt"}

VARIABLES
    now,         \* the clock, in milliseconds
    obj,         \* the live keys and their objects
    ret          \* what the last call returned

vars == <<now, obj, ret>>

Object(type, val, exp) == [type |-> type, val |-> val, exp |-> exp]

Live(k) == k \in DOMAIN obj
IsType(k, t) == Live(k) /\ obj[k].type = t
OtherType(k, t) == Live(k) /\ obj[k].type # t

\* The map o at time t: the objects that have not expired by then.
Settled(o, t) ==
    [k \in {x \in DOMAIN o : o[x].exp \notin 1 .. t} |-> o[k]]

Without(o, S) == [k \in DOMAIN o \ S |-> o[k]]
With(o, k, x) == [i \in DOMAIN o \cup {k} |-> IF i = k THEN x ELSE o[i]]

\* Store x at k, which takes k away at once when x has already expired.
Put(k, x) == obj' = Settled(With(obj, k, x), now)

Return(r) == ret' = r /\ UNCHANGED now
Keep == UNCHANGED obj

Init ==
    /\ now = 0
    /\ obj = << >>
    /\ ret = Ok

Tick ==
    /\ now < MaxNow
    /\ now' = now + 1
    /\ obj' = Settled(obj, now')
    /\ UNCHANGED ret

----------------------------------------------------------------------------
(* Strings.                                                                *)

\* SET replaces whatever the key holds.  GET requires a string or nothing,
\* NX nothing, XX something.
SetMode(mode, k) ==
    CASE mode = "nx"  -> ~Live(k)
      [] mode = "xx"  -> Live(k)
      [] mode = "get" -> ~OtherType(k, "string")
      [] OTHER        -> TRUE

Set(k, v, e, mode) ==
    \/ /\ Return(Ok)
       /\ SetMode(mode, k)
       /\ Put(k, Object("string", v,
                        IF mode # "keepttl" THEN e
                        ELSE IF IsType(k, "string") THEN obj[k].exp ELSE 0))
    \/ /\ Return(IF mode = "get" THEN WrongType ELSE Nil)
       /\ ~SetMode(mode, k)
       /\ Keep

GetDel(k) ==
    \/ /\ Return(1)
       /\ IsType(k, "string")
       /\ obj' = Without(obj, {k})
    \/ /\ ~IsType(k, "string")
       /\ Keep
       /\ Return(IF Live(k) THEN WrongType ELSE 0)

----------------------------------------------------------------------------
(* Collections.                                                            *)

Add(t, k, m) ==
    \/ /\ ~OtherType(k, t)
       /\ Return(IF Live(k) /\ m \in obj[k].val THEN 0 ELSE 1)
       /\ Put(k, IF Live(k)
                   THEN [obj[k] EXCEPT !.val = @ \cup {m}]
                   ELSE Object(t, {m}, 0))
    \/ /\ Return(WrongType)
       /\ OtherType(k, t)
       /\ Keep

\* A collection that loses its last member is gone.
Remove(t, k, m) ==
    \/ /\ Return(1)
       /\ IsType(k, t)
       /\ m \in obj[k].val
       /\ obj' = IF obj[k].val = {m}
                   THEN Without(obj, {k})
                   ELSE [obj EXCEPT ![k].val = @ \ {m}]
    \/ /\ ~(IsType(k, t) /\ m \in obj[k].val)
       /\ Keep
       /\ Return(IF OtherType(k, t) THEN WrongType ELSE 0)

----------------------------------------------------------------------------
(* Any key.                                                                *)

ShouldUpdate(cond, cur, new) ==
    CASE cond = "nx" -> cur = 0
      [] cond = "xx" -> cur > 0
      [] cond = "gt" -> cur > 0 /\ new > cur
      [] cond = "lt" -> cur = 0 \/ new < cur
      [] OTHER       -> TRUE

\* Expiry 0 persists the key, and has nothing to do on a persistent one.
ExpireAt(k, e, cond) ==
    LET applies == /\ Live(k)
                   /\ ~(e = 0 /\ obj[k].exp = 0)
                   /\ ShouldUpdate(cond, obj[k].exp, e)
    IN  \/ /\ Return(1)
           /\ applies
           /\ Put(k, [obj[k] EXCEPT !.exp = e])
        \/ /\ Return(0)
           /\ ~applies
           /\ Keep

\* The copy is the object as it is, expiry included.
Copy(s, d, nx) ==
    \/ /\ Return(1)
       /\ s # d
       /\ Live(s)
       /\ ~(nx /\ Live(d))
       /\ obj' = With(obj, d, obj[s])
    \/ /\ s = d \/ ~Live(s) \/ (nx /\ Live(d))
       /\ Keep
       /\ Return(IF s = d /\ Live(s) /\ ~nx THEN 1 ELSE 0)

Moved(s, d) == With(Without(obj, {s}), d, obj[s])

Rename(s, d) ==
    \/ /\ Return(Ok)
       /\ Live(s)
       /\ obj' = IF s = d THEN obj ELSE Moved(s, d)
    \/ /\ Return(NoSuchKey)
       /\ ~Live(s)
       /\ Keep

RenameNx(s, d) ==
    \/ /\ Return(1)
       /\ Live(s)
       /\ ~Live(d)
       /\ obj' = Moved(s, d)
    \/ /\ ~Live(s) \/ Live(d)
       /\ Keep
       /\ Return(IF Live(s) THEN 0 ELSE NoSuchKey)

\* DEL takes live keys away and counts them.  It may also miss one: the code
\* does so when an expired record of another type still lies at the key.
Del(K) ==
    \E R \in SUBSET (K \cap DOMAIN obj) :
        /\ Return(Cardinality(R))
        /\ obj' = Without(obj, R)

FlushDb ==
    /\ Return(Ok)
    /\ obj' = << >>

Next ==
    \/ Tick
    \/ FlushDb
    \/ \E K \in SUBSET Keys \ {{}} : Del(K)
    \/ \E k \in Keys :
          \/ \E v \in Values, e \in Expiries, mode \in SetModes : Set(k, v, e, mode)
          \/ GetDel(k)
          \/ \E t \in Types, m \in Members : Add(t, k, m) \/ Remove(t, k, m)
          \/ \E e \in Expiries, cond \in ExpireConditions : ExpireAt(k, e, cond)
          \/ \E d \in Keys :
                \/ Rename(k, d)
                \/ RenameNx(k, d)
                \/ \E nx \in BOOLEAN : Copy(k, d, nx)

Spec == Init /\ [][Next]_vars
============================================================================
