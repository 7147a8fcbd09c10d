----------------------------- MODULE JsonValues -----------------------------
(***************************************************************************)
(* JSON values as sonic_rs holds them, and paths as parse_json_path leaves *)
(* them.  A value is a tag and its content:                                *)
(*    <<"null">>, <<"bool", b>>, <<"num", n>>, <<"str", chars>>,           *)
(*    <<"arr", sequence>>, <<"obj", function from member names>>.          *)
(* A step leads from a container to a child: <<"m", name>> or <<"i", n>>,  *)
(* n counted from 1; a location is a sequence of steps.                    *)
(* A path is a sequence of segments, PathSegment without Root:             *)
(*    <<"field", name>>, <<"fields", names>>, <<"index", i>>,              *)
(*    <<"slices", items>>, <<"any">>, <<"filter", names, op, value>>,      *)
(*    <<"deep", segment>>;                                                 *)
(* an item is <<"one", i>> or <<"slice", start, stop, step>>, where start  *)
(* and stop are <<>> or <<i>>.                                             *)
(***************************************************************************)
EXTENDS Integers, Sequences, FiniteSets

LOCAL INSTANCE SequencesExt

Null == <<"null">>
None == <<"none">>
Num(n) == <<"num", n>>
Bool(b) == <<"bool", b>>

IsNum(v) == v[1] = "num"
IsArr(v) == v[1] = "arr"
IsObj(v) == v[1] = "obj"
IsContainer(v) == IsArr(v) \/ IsObj(v)

Names(v) == IF IsObj(v) THEN DOMAIN v[2] ELSE {}
Size(v) == IF IsArr(v) THEN Len(v[2]) ELSE 0

Steps(v) == {<<"m", n>> : n \in Names(v)} \cup {<<"i", i>> : i \in 1 .. Size(v)}
At(v, step) == v[2][step[2]]
Put(v, step, child) == <<v[1], [v[2] EXCEPT ![step[2]] = child]>>
Sub(v, loc) == FoldLeft(LAMBDA x, step : At(x, step), v, loc)

\* A container without the children at some steps.
Drop(v, S) ==
    IF IsObj(v) THEN <<"obj", [n \in {m \in Names(v) : <<"m", m>> \notin S} |-> v[2][n]]>>
    ELSE IF IsArr(v)
    THEN <<"arr", FoldLeft(LAMBDA s, i : IF <<"i", i>> \in S THEN s ELSE Append(s, v[2][i]),
                           <<>>, [i \in 1 .. Size(v) |-> i])>>
    ELSE v

WithMember(v, name, x) ==
    <<"obj", [n \in Names(v) \cup {name} |-> IF n = name THEN x ELSE v[2][n]]>>

\* How often each value is among the answers Op(i), i in S.
Counted(S, Op(_)) == [x \in {Op(i) : i \in S} |-> Cardinality({i \in S : Op(i) = x})]
Tally(s) == LET answer(i) == s[i] IN Counted(DOMAIN s, answer)

\* The values and the characters in a value.
RECURSIVE Nodes(_)
Nodes(v) ==
    IF v[1] = "str" THEN Len(v[2])
    ELSE 1 + FoldSet(LAMBDA step, n : n + Nodes(At(v, step)), 0, Steps(v))
=============================================================================
