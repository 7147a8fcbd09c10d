------------------------------ MODULE JsonStore ------------------------------
(***************************************************************************)
(* The JSON documents of embed/src/api/json: a record in the meta          *)
(* partition and one row with the whole document.  Every command reads the *)
(* document, walks it along a parsed path and writes it back in one batch. *)
(*                                                                         *)
(* The members of an object are visited in the order of MemberOrder, and   *)
(* answers are compared as bags: the order of members is not modelled.     *)
(* Numbers past Largest stand for the infinite ones.  One caller; an       *)
(* action is a handler with its one batch, JSON.MSET's batches included.   *)
(***************************************************************************)
EXTENDS JsonValues

LOCAL INSTANCE SequencesExt

CONSTANTS
    Keys, Sets, Dels, Edits, Patches, Triplets, Largest, Absent,   \* as in RedisJson
    MemberOrder,  \* the names of members
    ReadPaths,    \* the paths of GET
    Windows,      \* <<value, start, stop>> of ARRINDEX
    MaxNodes      \* bound on the values in a document

\* A path that descends must not meet what it has just written: SET $..a of a
\* value with a member a never ends.
Descends(path) == \E i \in DOMAIN path : path[i][1] = "deep"
Scalars(vs) == \A i \in DOMAIN vs : ~IsContainer(vs[i])
JsonAssumption ==
    /\ \A w \in Sets : w[3] \in {"always", "nx", "xx"} /\ (Descends(w[1]) => ~IsContainer(w[2]))
    /\ \A w \in Edits :
          Descends(w[1]) /\ w[2][1] \in {"append", "insert"} =>
              Scalars(w[2][Len(w[2])]) /\ \A i \in DOMAIN w[1] : w[1][i][1] = "deep" => w[1][i][2][1] = "field"
    /\ \A w \in Patches : ~Descends(w[1])
    /\ MaxNodes \in Nat /\ Largest \in Nat

VARIABLES
    meta,          \* of each key: Absent, "live" or, its expiry passed, "passed"
    row,           \* the document of each key
    asked, ret

vars == <<meta, row, asked, ret>>

Init ==
    /\ meta = [k \in Keys |-> Absent] /\ row = [k \in Keys |-> Absent]
    /\ asked = <<>> /\ ret = 0

\* read_json_meta_and_val.
Doc(k) == IF meta[k] = "live" THEN row[k] ELSE Absent

\* write_json_meta_and_val.
Save(k, v) ==
    /\ meta' = [meta EXCEPT ![k] = "live"]
    /\ row' = [row EXCEPT ![k] = v]
Same == UNCHANGED <<meta, row>>

----------------------------------------------------------------------------
(* Selecting the children of a node.                                       *)

AllSteps(v) ==
    IF IsObj(v)
    THEN LET names == SelectSeq(MemberOrder, LAMBDA n : n \in Names(v))
         IN  [i \in DOMAIN names |-> <<"m", names[i]>>]
    ELSE [i \in 1 .. Size(v) |-> <<"i", i>>]

\* Mutant: a negative index counts from the last element but one.
NormalizeIndexShort(len, i) ==
    LET j == IF i < 0 THEN len + i - 1 ELSE i IN IF 0 <= j /\ j < len THEN <<j>> ELSE <<>>

\* normalize_index.
NormalizeIndex(len, i) ==
    LET j == IF i < 0 THEN len + i ELSE i IN IF 0 <= j /\ j < len THEN <<j>> ELSE <<>>

Max0(i) == IF i < 0 THEN 0 ELSE i
AtMost(i, n) == IF i > n THEN n ELSE i

\* From s by steps, up to e, or down to it.
Stepped(s, e, step) ==
    LET n == IF step > 0 THEN Max0((e - s + step - 1) \div step)
             ELSE Max0((s - e - step - 1) \div (-step))
    IN  [j \in 1 .. n |-> s + (j - 1) * step]

\* resolve_slice_indices, of one slice and of any item.
Slice(len, start, stop, step) ==
    LET up(given, other) ==
            IF given = <<>> THEN other
            ELSE IF given[1] < 0 THEN Max0(len + given[1]) ELSE AtMost(given[1], len)
        s == IF start = <<>> THEN len - 1
             ELSE IF start[1] < 0 THEN len + start[1] ELSE AtMost(start[1], len - 1)
        e == IF stop = <<>> THEN -1 ELSE IF stop[1] < 0 THEN len + stop[1] ELSE stop[1]
    IN  IF step = 0 THEN <<>>
        ELSE IF step > 0 THEN Stepped(up(start, 0), up(stop, len), step)
        ELSE SelectSeq(Stepped(s, e, step), LAMBDA i : 0 <= i /\ i < len)
Indices(len, item) ==
    IF len = 0 THEN <<>>
    ELSE IF item[1] = "one" THEN NormalizeIndex(len, item[2])
    ELSE Slice(len, item[2], item[3], item[4])

\* eval_filter_expr.
FilterPath(v, names) ==
    FoldLeft(LAMBDA at, n : IF at = <<>> \/ n \notin Names(at[1]) THEN <<>> ELSE <<at[1][2][n]>>,
             <<v>>, names)
NotFalse(v) == v # Null /\ (v[1] = "bool" => v[2])
Holds(v, filter) ==
    LET at == FilterPath(v, filter[2])
    IN  IF at = <<>> THEN filter[3] = "not"
        ELSE CASE filter[3] = "exists" -> NotFalse(at[1])
               [] filter[3] = "not" -> ~NotFalse(at[1])
               [] filter[3] = "eq" -> at[1] = filter[4]
               [] filter[3] = "ge" -> IsNum(at[1]) /\ at[1][2] >= filter[4][2]

\* What one segment selects, in order, and twice what is named twice.
Picks(v, seg) ==
    LET positions(s) == [j \in DOMAIN s |-> <<"i", s[j] + 1>>]
    IN  CASE seg[1] = "field" -> IF seg[2] \in Names(v) THEN << <<"m", seg[2]>> >> ELSE <<>>
          [] seg[1] = "fields" ->
                LET names == SelectSeq(seg[2], LAMBDA n : n \in Names(v))
                IN  [j \in DOMAIN names |-> <<"m", names[j]>>]
          [] seg[1] = "index" -> positions(NormalizeIndex(Size(v), seg[2]))
          [] seg[1] = "slices" ->
                positions(FoldLeft(LAMBDA s, item : s \o Indices(Size(v), item), <<>>, seg[2]))
          [] seg[1] = "any" -> AllSteps(v)
          [] seg[1] = "filter" ->
                IF IsArr(v) THEN SelectSeq(AllSteps(v), LAMBDA step : Holds(At(v, step), seg)) ELSE <<>>

----------------------------------------------------------------------------
(* Walking a document.                                                     *)

Concat(s, Op(_)) == FoldLeft(LAMBDA acc, x : acc \o Op(x), <<>>, s)

\* collect_recursive_matching: lists of members or indices select nothing here.
RECURSIVE Below(_, _)
Below(v, seg) ==
    LET here == IF seg[1] \in {"fields", "slices"} THEN <<>> ELSE Picks(v, seg)
        value(step) == <<At(v, step)>>
        under(step) == Below(At(v, step), seg)
    IN  Concat(here, value) \o Concat(AllSteps(v), under)

\* get_path_values, segment by segment.
GetSegment(nodes, seg) ==
    LET chosen(v) ==
            IF seg[1] = "deep" THEN Below(v, seg[2])
            ELSE LET value(step) == <<At(v, step)>> IN Concat(Picks(v, seg), value)
    IN  Concat(nodes, chosen)
GetPath(v, path) == FoldLeft(GetSegment, <<v>>, path)

----------------------------------------------------------------------------
(* The closures that commands run at each node: the node and the answer.   *)

Done(v, answer) == [node |-> v, answers |-> <<answer>>]

\* json_merge_patch.
RECURSIVE MergePatch(_, _)
MergePatch(v, patch) ==
    IF ~IsObj(patch) THEN patch
    ELSE LET target == IF IsObj(v) THEN v ELSE <<"obj", <<>>>>
             one(t, step) ==
                LET name == step[2]
                    old == IF name \in Names(t) THEN t[2][name] ELSE Null
                IN  IF At(patch, step) = Null THEN Drop(t, {step})
                    ELSE WithMember(t, name, MergePatch(old, At(patch, step)))
         IN  FoldLeft(one, target, AllSteps(patch))

\* execute_numop.
NumOp(v, n) == IF n > Largest THEN Done(v, <<"infinite">>) ELSE Done(Num(n), Num(n))

\* json_arrinsert, json_arrpop, json_arrtrim.
ArrInsert(v, index, vals) ==
    LET pos == IF index >= 0 THEN index ELSE Size(v) + index
        new == FoldLeft(LAMBDA s, j : InsertAt(s, pos + j, vals[j]), v[2], [j \in DOMAIN vals |-> j])
    IN  IF index > Size(v) \/ index < -Size(v) THEN Done(v, None) ELSE Done(<<"arr", new>>, Num(Len(new)))
ArrPop(v, index) ==
    LET at == IF index < 0 THEN Size(v) - AtMost(-index, Size(v)) ELSE AtMost(index, Size(v) - 1)
    IN  IF Size(v) = 0 THEN Done(v, None) ELSE Done(<<"arr", RemoveAt(v[2], at + 1)>>, v[2][at + 1])
\* Mutant: the end of the window is left out.
ArrTrimShort(v, start, stop) ==
    LET b == IF start < 0 THEN Max0(Size(v) + start) ELSE start
        e == IF stop < 0 THEN Max0(Size(v) + stop) ELSE AtMost(stop, Size(v) - 1)
        kept == IF b >= Size(v) \/ b > e THEN <<>> ELSE SubSeq(v[2], b + 1, e)
    IN  Done(<<"arr", kept>>, Num(Len(kept)))
ArrTrim(v, start, stop) ==
    LET b == IF start < 0 THEN Max0(Size(v) + start) ELSE start
        e == IF stop < 0 THEN Max0(Size(v) + stop) ELSE AtMost(stop, Size(v) - 1)
        kept == IF b >= Size(v) \/ b > e THEN <<>> ELSE SubSeq(v[2], b + 1, e + 1)
    IN  Done(<<"arr", kept>>, Num(Len(kept)))

Clear(v) ==
    IF IsContainer(v) /\ Steps(v) # {} THEN Done(<<v[1], <<>>>>, Num(1))
    ELSE IF IsNum(v) /\ v # Num(0) THEN Done(Num(0), Num(1))
    ELSE [node |-> v, answers |-> <<None>>]

Run(e, v) ==
    CASE e[1] = "set" -> Done(e[2], None)
      [] e[1] = "merge" -> Done(MergePatch(v, e[2]), None)
      [] e[1] = "incr" -> IF IsNum(v) THEN NumOp(v, v[2] + e[2]) ELSE Done(v, Null)
      [] e[1] = "mul" -> IF IsNum(v) THEN NumOp(v, v[2] * e[2]) ELSE Done(v, Null)
      [] e[1] = "strappend" ->
            IF v[1] = "str" THEN Done(<<"str", v[2] \o e[2]>>, Num(Len(v[2]) + Len(e[2]))) ELSE Done(v, None)
      [] e[1] = "toggle" -> IF v[1] = "bool" THEN Done(Bool(~v[2]), Bool(~v[2])) ELSE Done(v, None)
      [] e[1] = "clear" -> Clear(v)
      [] ~IsArr(v) -> Done(v, None)
      [] e[1] = "append" -> Done(<<"arr", v[2] \o e[2]>>, Num(Size(v) + Len(e[2])))
      [] e[1] = "insert" -> ArrInsert(v, e[2], e[3])
      [] e[1] = "pop" -> ArrPop(v, e[2])
      [] e[1] = "trim" -> ArrTrim(v, e[2], e[3])

----------------------------------------------------------------------------
(* Changing a document in place.                                           *)

\* The children at some steps, one after the other, each under Op, the answers
\* after those there are.
Unchanged(v) == [node |-> v, answers |-> <<>>]
With(acc, step, child) ==
    [node |-> Put(acc.node, step, child.node), answers |-> acc.answers \o child.answers]
Through(first, steps, Op(_)) ==
    FoldLeft(LAMBDA acc, step : With(acc, step, Op(At(acc.node, step))), first, steps)
ThroughAll(first, Op(_)) == Through(first, AllSteps(first.node), Op)

RECURSIVE Mutate(_, _, _), MutateDescent(_, _, _, _)
\* mutate_path_values, mutate_recursive.
Mutate(v, path, e) ==
    IF path = <<>> THEN Run(e, v)
    ELSE IF Head(path)[1] = "deep" THEN MutateDescent(v, Head(path)[2], Tail(path), e)
    ELSE LET one(child) == Mutate(child, Tail(path), e) IN Through(Unchanged(v), Picks(v, Head(path)), one)

\* mutate_recursive_descent: the node first, then what are its children now.
MutateDescent(v, seg, tail, e) ==
    LET one(child) == MutateDescent(child, seg, tail, e)
    IN  ThroughAll(Mutate(v, <<seg>> \o tail, e), one)

\* Mutant: each removal shifts what the next one means.
CutShifting(v, steps) ==
    LET after == FoldLeft(LAMBDA w, step : IF step \in Steps(w) THEN Drop(w, {step}) ELSE w, v, steps)
    IN  [node |-> after, answers |-> [i \in DOMAIN steps |-> None]]

\* The children at some steps removed, the last first and each once; an answer
\* stands for one removal.
Cut(v, steps) ==
    [node |-> Drop(v, ToSet(steps)),
     answers |-> [i \in 1 .. Cardinality(ToSet(steps)) |-> None]]

\* The steps of a list of slices, in order, each once.
Sorted(v, seg) ==
    IF seg[1] = "slices" THEN SelectSeq(AllSteps(v), LAMBDA step : step \in ToSet(Picks(v, seg)))
    ELSE Picks(v, seg)

RECURSIVE Delete(_, _), DeleteDescent(_, _, _)
\* delete_path_values, delete_recursive.
Delete(v, path) ==
    LET seg == Head(path)
        one(child) == Delete(child, Tail(path))
    IN  IF seg[1] = "deep" THEN DeleteDescent(v, seg[2], Tail(path))
        ELSE IF Tail(path) = <<>> THEN Cut(v, Sorted(v, seg))
        ELSE Through(Unchanged(v), Sorted(v, seg), one)

\* delete_recursive_descent: lists of members or indices remove nothing here.
DeleteDescent(v, seg, tail) ==
    LET one(child) == Delete(child, tail)
        under(child) == DeleteDescent(child, seg, tail)
    IN  ThroughAll(IF seg[1] \in {"fields", "slices"} THEN Unchanged(v)
                   ELSE IF tail = <<>> THEN Cut(v, Picks(v, seg))
                   ELSE Through(Unchanged(v), Picks(v, seg), one), under)

\* json_set_path after nothing was found: the parent by members and indices,
\* and a new member or an element at the end; <<>> is an error.
Around(v, step, new) == IF new = <<>> THEN <<>> ELSE <<Put(v, step, new[1])>>
RECURSIVE SetNew(_, _, _)
SetNew(v, path, x) ==
    LET seg == Head(path)
        at == Picks(v, seg)
    IN  IF Tail(path) = <<>>
        THEN IF IsObj(v) /\ seg[1] = "field" THEN <<WithMember(v, seg[2], x)>>
             ELSE IF IsArr(v) /\ seg[1] = "index" /\ seg[2] = Size(v) THEN << <<"arr", Append(v[2], x)>> >>
             ELSE <<>>
        ELSE IF seg[1] \notin {"field", "index"} \/ at = <<>> THEN <<>>
        ELSE Around(v, at[1], SetNew(At(v, at[1]), Tail(path), x))

\* json_set_path.
Replaced(there, new) == IF there.answers # <<>> THEN <<there.node>> ELSE new
SetPath(v, path, x) ==
    IF path = <<>> THEN <<x>>
    ELSE Replaced(Mutate(v, path, <<"set", x>>), SetNew(v, path, x))

\* A document that may not be there yet.
SetDoc(v, path, x) ==
    IF v # Absent THEN SetPath(v, path, x) ELSE IF path = <<>> THEN <<x>> ELSE <<>>

----------------------------------------------------------------------------
(* Commands.                                                               *)

Written(k, new) ==
    IF new = <<>> THEN Same /\ ret' = "error" ELSE Save(k, new[1]) /\ ret' = "ok"

JsonSet(k, path, x, cond) ==
    /\ asked' = <<"set", k, path, x, cond>>
    /\ IF (cond = "nx" /\ Doc(k) # Absent) \/ (cond = "xx" /\ Doc(k) = Absent)
       THEN Same /\ ret' = "skipped"
       ELSE Written(k, SetDoc(Doc(k), path, x))

\* json_numop_internal, json_strappend, json_clear, json_toggle, json_arrappend
\* and the others: written back when any node answered.
Answered(k, e, r, answers) ==
    IF <<"infinite">> \in answers THEN Same /\ ret' = "error"
    ELSE /\ IF answers \subseteq (IF e[1] = "pop" THEN {None} ELSE {None, Null})
            THEN Same ELSE Save(k, r.node)
         /\ ret' = IF e[1] = "clear" THEN Len(SelectSeq(r.answers, LAMBDA a : a # None))
                   ELSE Tally(r.answers)
Edit(k, e, r) == Answered(k, e, r, ToSet(r.answers))
JsonEdit(k, path, e) ==
    /\ asked' = <<"edit", k, path, e>>
    /\ IF Doc(k) = Absent THEN Same /\ ret' = "none" ELSE Edit(k, e, Mutate(Doc(k), path, e))

Removal(k, r) ==
    /\ IF r.answers # <<>> THEN Save(k, r.node) ELSE Same
    /\ ret' = Len(r.answers)
JsonDel(k, path) ==
    /\ asked' = <<"del", k, path>>
    /\ IF Doc(k) = Absent THEN Same /\ ret' = 0
       ELSE IF path = <<>>
       THEN /\ meta' = [meta EXCEPT ![k] = Absent]
            /\ row' = [row EXCEPT ![k] = Absent]
            /\ ret' = 1
       ELSE Removal(k, Delete(Doc(k), path))

Merge(v, path, patch) ==
    IF v = Absent THEN IF path = <<>> THEN <<MergePatch(<<"obj", <<>>>>, patch)>> ELSE <<>>
    ELSE IF path # <<>> /\ patch = Null THEN <<Delete(v, path).node>>
    ELSE Replaced(Mutate(v, path, <<"merge", patch>>), SetPath(v, path, patch))
JsonMerge(k, path, patch) ==
    /\ asked' = <<"merge", k, path, patch>>
    /\ Written(k, Merge(Doc(k), path, patch))

Stored(docs, k, new) == IF new = <<>> THEN <<>> ELSE << [docs[1] EXCEPT ![k] = new[1]] >>
\* Mutant: each triplet starts from the stored document.
MSetDocsStored(list) ==
    FoldLeft(LAMBDA docs, t :
                IF docs = <<>> THEN <<>> ELSE Stored(docs, t[1], SetDoc(Doc(t[1]), t[2], t[3])),
             << [k \in Keys |-> Doc(k)] >>, list)
\* json_mset keeps the documents it has changed until all of them are.
MSetDocs(list) ==
    FoldLeft(LAMBDA docs, t :
                IF docs = <<>> THEN <<>> ELSE Stored(docs, t[1], SetDoc(docs[1][t[1]], t[2], t[3])),
             << [k \in Keys |-> Doc(k)] >>, list)
WrittenAll(dirty, docs) ==
    IF docs = <<>> THEN Same /\ ret' = "error"
    ELSE /\ meta' = [k \in Keys |-> IF k \in dirty THEN "live" ELSE meta[k]]
         /\ row' = [k \in Keys |-> IF k \in dirty THEN docs[1][k] ELSE row[k]]
         /\ ret' = "ok"
JsonMSet(list) ==
    /\ asked' = <<"mset", list>>
    /\ WrittenAll({list[i][1] : i \in DOMAIN list}, MSetDocs(list))

\* The expiry of the key comes; DEL, SET and the like remove record and row.
Lapse(k) ==
    /\ meta[k] = "live"
    /\ asked' = <<"gone", k>> /\ ret' = 0
    /\ meta' = [meta EXCEPT ![k] = "passed"] /\ UNCHANGED row
Erase(k) ==
    /\ meta[k] # Absent
    /\ asked' = <<"gone", k>> /\ ret' = 0
    /\ meta' = [meta EXCEPT ![k] = Absent]
    /\ row' = [row EXCEPT ![k] = Absent]

Next ==
    \/ \E k \in Keys, w \in Sets : JsonSet(k, w[1], w[2], w[3])
    \/ \E k \in Keys, w \in Edits : JsonEdit(k, w[1], w[2])
    \/ \E k \in Keys, path \in Dels : JsonDel(k, path)
    \/ \E k \in Keys, w \in Patches : JsonMerge(k, w[1], w[2])
    \/ \E list \in Triplets : JsonMSet(list)
    \/ \E k \in Keys : Lapse(k) \/ Erase(k)

Spec == Init /\ [][Next]_vars

\* Bound: what follows a large document is left out, unless SET gives it.
Kept == \A k \in Keys :
            row[k] # Absent => Nodes(row[k]) <= MaxNodes \/ row[k] \in {w[2] : w \in Sets}

----------------------------------------------------------------------------
(* Properties.                                                             *)

Json == INSTANCE RedisJson WITH doc <- [k \in Keys |-> Doc(k)]

\* A record has its row, whatever became of its expiry, and no row is alone.
TypeOK ==
    \A k \in Keys :
        /\ meta[k] \in {Absent, "live", "passed"}
        /\ (meta[k] = Absent) <=> (row[k] = Absent)

\* json_arrindex_internal, of one array.
ArrIndex(v, x, start, stop) ==
    LET len == Size(v)
        s == IF start < 0 THEN Max0(len + start) ELSE AtMost(start, Max0(len - 1))
        e == IF stop \in {<<>>, <<0>>} THEN len
             ELSE IF stop[1] < 0 THEN Max0(len + stop[1]) ELSE AtMost(stop[1], len)
        hits == SelectSeq(Stepped(s, e, 1), LAMBDA i : v[2][i + 1] = x)
    IN  IF hits = <<>> THEN -1 ELSE hits[1]

\* JSON.GET returns the value of every place its path leads to and of no other,
\* each once; JSON.ARRINDEX finds the first of the equal elements in its window.
ReadsExact ==
    \A k \in Keys : Doc(k) # Absent =>
        /\ \A path \in ReadPaths :
              LET value(l) == Sub(Doc(k), l)
              IN  Tally(GetPath(Doc(k), path)) = Counted(Json!Found(Doc(k), path), value)
        /\ \A w \in Windows : IsArr(Doc(k)) =>
              LET n == Size(Doc(k))
                  from == IF w[2] >= n THEN n - 1 ELSE Json!Clamped(n, w[2], 0, n)
                  to == IF w[3] \in {<<>>, <<0>>} THEN n ELSE Json!Clamped(n, w[3][1], 0, n)
                  equal == {i \in 0 .. n - 1 : from <= i /\ i < to /\ Doc(k)[2][i + 1] = w[1]}
                  found == ArrIndex(Doc(k), w[1], w[2], w[3])
              IN  IF equal = {} THEN found = -1 ELSE found \in equal /\ \A i \in equal : found <= i
=============================================================================
