------------------------------ MODULE RedisJson ------------------------------
(***************************************************************************)
(* What the JSON commands promise: a key holds one document; a path is the *)
(* set of places in it that the path leads to; a command reads, edits or   *)
(* removes the values at those places, at once and nothing else.           *)
(***************************************************************************)
EXTENDS JsonValues

LOCAL INSTANCE SequencesExt

CONSTANTS
    Keys,
    Sets,        \* <<path, value, condition>> of SET
    Dels,        \* the paths of DEL
    Edits,       \* <<path, edit>>: what the other commands do, and where
    Patches,     \* <<path, patch>> of MERGE
    Triplets,    \* the lists of <<key, path, value>> of MSET
    Largest,     \* numbers past it are infinite
    Absent

VARIABLES doc, asked, ret

vars == <<doc, asked, ret>>

Init == doc = [k \in Keys |-> Absent] /\ asked = <<>> /\ ret = 0

----------------------------------------------------------------------------
(* Places.                                                                 *)

RECURSIVE Places(_)
Places(v) == {<<>>} \cup UNION {{<<step>> \o l : l \in Places(At(v, step))} : step \in Steps(v)}

\* The positions, from 0, of a slice: those of Python.
Clamped(n, i, low, high) ==
    LET j == IF i < 0 THEN n + i ELSE i
    IN  IF j < low THEN low ELSE IF j > high THEN high ELSE j
Sliced(n, item) ==
    LET step == item[4]
        bound(given, low, high, other) == IF given = <<>> THEN other ELSE Clamped(n, given[1], low, high)
        up == [from |-> bound(item[2], 0, n, 0), to |-> bound(item[3], 0, n, n)]
        down == [from |-> bound(item[2], -1, n - 1, n - 1), to |-> bound(item[3], -1, n - 1, -1)]
    IN  {i \in 0 .. n - 1 :
            \/ step > 0 /\ up.from <= i /\ i < up.to /\ (i - up.from) % step = 0
            \/ step < 0 /\ down.to < i /\ i <= down.from /\ (down.from - i) % (-step) = 0}
Positions(n, item) ==
    IF item[1] = "slice" THEN Sliced(n, item)
    ELSE {i \in 0 .. n - 1 : i = item[2] \/ i = n + item[2]}

\* A filter looks at what members lead to, which may be nothing.
RECURSIVE Reached(_, _)
Reached(v, names) ==
    IF names = <<>> THEN {v}
    ELSE IF Head(names) \in Names(v) THEN Reached(v[2][Head(names)], Tail(names)) ELSE {}
Truth(v) == v \notin {Null, Bool(FALSE)}
Passes(v, filter) ==
    LET found == Reached(v, filter[2])
    IN  CASE filter[3] = "exists" -> \E x \in found : Truth(x)
          [] filter[3] = "not" -> \A x \in found : ~Truth(x)
          [] filter[3] = "eq" -> \E x \in found : x = filter[4]
          [] filter[3] = "ge" -> \E x \in found : IsNum(x) /\ x[2] >= filter[4][2]

\* The steps a segment leads to.
Led(v, seg) ==
    CASE seg[1] = "field" -> Steps(v) \cap {<<"m", seg[2]>>}
      [] seg[1] = "fields" -> Steps(v) \cap {<<"m", seg[2][i]>> : i \in DOMAIN seg[2]}
      [] seg[1] = "index" -> {<<"i", i + 1>> : i \in Positions(Size(v), <<"one", seg[2]>>)}
      [] seg[1] = "slices" ->
            {<<"i", i + 1>> : i \in UNION {Positions(Size(v), seg[2][j]) : j \in DOMAIN seg[2]}}
      [] seg[1] = "any" -> Steps(v)
      [] seg[1] = "filter" -> {<<"i", i>> : i \in {j \in 1 .. Size(v) : Passes(v[2][j], seg)}}

\* Whether a path leads to a place; after a "deep" any steps may lie.
RECURSIVE Leads(_, _, _)
Leads(v, path, l) ==
    IF path = <<>> \/ l = <<>> THEN path = l
    ELSE IF path[1][1] = "deep"
    THEN \E n \in 0 .. Len(l) - 1 :
            Leads(Sub(v, SubSeq(l, 1, n)), <<path[1][2]>> \o Tail(path), SubSeq(l, n + 1, Len(l)))
    ELSE l[1] \in Led(v, path[1]) /\ Leads(At(v, l[1]), Tail(path), Tail(l))
Found(v, path) == {l \in Places(v) : Leads(v, path, l)}

Outer(L) == {l \in L : \A m \in L : IsPrefix(m, l) => m = l}

----------------------------------------------------------------------------
(* Edits.                                                                  *)

\* RFC 7396.
RECURSIVE Patched(_, _)
Patched(v, patch) ==
    IF ~IsObj(patch) THEN patch
    ELSE LET gone == {n \in Names(patch) : patch[2][n] = Null}
             new == Names(patch) \ gone
             old(n) == IF n \in Names(v) THEN v[2][n] ELSE Null
         IN  <<"obj", [n \in (Names(v) \ gone) \cup new |->
                          IF n \in new THEN Patched(old(n), patch[2][n]) ELSE v[2][n]]>>

Part(s, from, to) == SubSeq(s, from + 1, to)

\* Whether a command does anything with a value, and what it makes of it.
Touches(e, v) ==
    CASE e[1] \in {"set", "merge", "grow"} -> TRUE
      [] e[1] \in {"incr", "mul"} -> IsNum(v)
      [] e[1] = "strappend" -> v[1] = "str"
      [] e[1] = "toggle" -> v[1] = "bool"
      [] e[1] = "clear" -> v \notin {Num(0)} /\ (IsNum(v) \/ Steps(v) # {})
      [] e[1] \in {"append", "trim"} -> IsArr(v)
      [] e[1] = "insert" -> IsArr(v) /\ e[2] \in -Size(v) .. Size(v)
      [] e[1] = "pop" -> IsArr(v) /\ Size(v) > 0

Sum(v, e) == IF e[1] = "incr" THEN v[2] + e[2] ELSE v[2] * e[2]

PopAt(v, e) == Clamped(Size(v), e[2], 0, Size(v) - 1)

Effect(e, v) ==
    CASE e[1] = "set" -> e[2]
      [] e[1] = "merge" -> Patched(v, e[2])
      [] e[1] = "grow" -> IF IsObj(v) THEN WithMember(v, e[2], e[3]) ELSE <<"arr", Append(v[2], e[3])>>
      [] e[1] \in {"incr", "mul"} -> Num(Sum(v, e))
      [] e[1] = "strappend" -> <<"str", v[2] \o e[2]>>
      [] e[1] = "toggle" -> Bool(~v[2])
      [] e[1] = "clear" -> IF IsNum(v) THEN Num(0) ELSE Drop(v, Steps(v))
      [] e[1] = "append" -> <<"arr", v[2] \o e[2]>>
      [] e[1] = "insert" ->
            LET at == IF e[2] < 0 THEN Size(v) + e[2] ELSE e[2]
            IN  <<"arr", Part(v[2], 0, at) \o e[3] \o Part(v[2], at, Size(v))>>
      [] e[1] = "pop" -> Drop(v, {<<"i", PopAt(v, e) + 1>>})
      [] e[1] = "trim" ->
            LET keep == {i \in 0 .. Size(v) - 1 :
                            /\ Clamped(Size(v), e[2], 0, Size(v)) <= i
                            /\ i <= (IF e[3] < 0 THEN Clamped(Size(v), e[3], 0, Size(v)) ELSE e[3])}
            IN  Drop(v, {<<"i", i + 1>> : i \in (0 .. Size(v) - 1) \ keep})

Answer(e, v) ==
    IF ~Touches(e, v) THEN IF e[1] \in {"incr", "mul"} THEN Null ELSE None
    ELSE CASE e[1] \in {"incr", "mul", "toggle"} -> Effect(e, v)
           [] e[1] = "strappend" -> Num(Len(Effect(e, v)[2]))
           [] e[1] \in {"append", "insert", "trim"} -> Num(Size(Effect(e, v)))
           [] e[1] = "pop" -> v[2][PopAt(v, e) + 1]

\* All places edited at once, an inner one before the one around it.
RECURSIVE Edited(_, _, _)
Inner(L, step) == {Tail(l) : l \in {m \in L : m # <<>> /\ m[1] = step}}
Edited(v, L, e) ==
    LET within == FoldSet(LAMBDA step, x : Put(x, step, Edited(At(v, step), Inner(L, step), e)),
                          v, {step \in Steps(v) : Inner(L, step) # {}})
    IN  IF <<>> \in L /\ Touches(e, within) THEN Effect(e, within) ELSE within

\* All places removed at once.
RECURSIVE Removed(_, _)
Removed(v, L) ==
    LET gone == {step \in Steps(v) : <<step>> \in L}
        within == FoldSet(LAMBDA step, x : Put(x, step, Removed(At(v, step), Inner(L, step))),
                          v, {step \in Steps(v) \ gone : Inner(L, step) # {}})
    IN  Drop(within, gone)

\* The place that SET makes when a path leads nowhere: one member more of an
\* object, or one element more at the end of an array.
Definite(path) == \A i \in DOMAIN path : path[i][1] \in {"field", "index"}
Grows(v, seg) == (IsObj(v) /\ seg[1] = "field") \/ (IsArr(v) /\ seg = <<"index", Size(v)>>)
Room(v, path) ==
    IF ~Definite(path) THEN {} ELSE {l \in Found(v, Front(path)) : Grows(Sub(v, l), path[Len(path)])}

\* A document after SET, or nothing when SET is refused.
Stored(v, path, x) ==
    IF v = Absent THEN IF path = <<>> THEN {x} ELSE {}
    ELSE IF Found(v, path) # {} THEN {Edited(v, Found(v, path), <<"set", x>>)}
    ELSE {Edited(v, {l}, <<"grow", path[Len(path)][2], x>>) : l \in Room(v, path)}

----------------------------------------------------------------------------
(* Commands.                                                               *)

Keep == UNCHANGED doc
Write(k, v) == doc' = [doc EXCEPT ![k] = v]

Set(k, path, x, cond) ==
    /\ asked' = <<"set", k, path, x, cond>>
    /\ LET skipped == (cond = "nx" /\ doc[k] # Absent) \/ (cond = "xx" /\ doc[k] = Absent)
           new == Stored(doc[k], path, x)
       IN  IF skipped THEN Keep /\ ret' = "skipped"
           ELSE IF new = {} THEN Keep /\ ret' = "error"
           ELSE (\E v \in new : Write(k, v)) /\ ret' = "ok"

\* Answers are told only when no place lies within another.
Edit(k, path, e) ==
    /\ asked' = <<"edit", k, path, e>>
    /\ IF doc[k] = Absent THEN Keep /\ ret' = "none"
       ELSE LET L == Found(doc[k], path)
                touched == {l \in L : Touches(e, Sub(doc[k], l))}
                answer(l) == Answer(e, Sub(doc[k], l))
            IN  IF e[1] \in {"incr", "mul"} /\ \E l \in touched : Sum(Sub(doc[k], l), e) > Largest
                THEN Keep /\ ret' = "error"
                ELSE /\ Write(k, Edited(doc[k], L, e))
                     /\ e[1] = "clear" => ret' = Cardinality(Outer(L) \cap touched)
                     /\ e[1] # "clear" /\ Outer(L) = L =>
                            ret' = Counted(L, answer)

Del(k, path) ==
    /\ asked' = <<"del", k, path>>
    /\ IF doc[k] = Absent THEN Keep /\ ret' = 0
       ELSE IF path = <<>> THEN Write(k, Absent) /\ ret' = 1
       ELSE LET L == Found(doc[k], path)
            IN  Write(k, Removed(doc[k], L)) /\ ret' = Cardinality(Outer(L))

Merge(k, path, patch) ==
    /\ asked' = <<"merge", k, path, patch>>
    /\ LET v == doc[k]
           L == IF v = Absent THEN {} ELSE Found(v, path)
           new == IF v = Absent /\ path = <<>> THEN {Patched(<<"obj", <<>>>>, patch)}
                  ELSE IF v # Absent /\ path # <<>> /\ patch = Null THEN {Removed(v, L)}
                  ELSE IF L # {} THEN {Edited(v, L, <<"merge", patch>>)}
                  ELSE Stored(v, path, patch)
       IN  IF new = {} THEN Keep /\ ret' = "error"
           ELSE (\E w \in new : Write(k, w)) /\ ret' = "ok"

\* One SET after the other, or none of them.
MSet(list) ==
    /\ asked' = <<"mset", list>>
    /\ LET after == FoldLeft(LAMBDA D, t :
                        UNION {{[d EXCEPT ![t[1]] = v] : v \in Stored(d[t[1]], t[2], t[3])} : d \in D},
                        {doc}, list)
       IN  IF after = {} THEN Keep /\ ret' = "error" ELSE doc' \in after /\ ret' = "ok"

\* DEL, SET and the like, or an expiry that passed.
Gone(k) == asked' = <<"gone", k>> /\ Write(k, Absent) /\ ret' = 0

Next ==
    \/ \E k \in Keys, w \in Sets : Set(k, w[1], w[2], w[3])
    \/ \E k \in Keys, w \in Edits : Edit(k, w[1], w[2])
    \/ \E k \in Keys, path \in Dels : Del(k, path)
    \/ \E k \in Keys, w \in Patches : Merge(k, w[1], w[2])
    \/ \E list \in Triplets : MSet(list)
    \/ \E k \in Keys : Gone(k)
=============================================================================
