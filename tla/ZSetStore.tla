------------------------------ MODULE ZSetStore ------------------------------
(***************************************************************************)
(* The sorted sets of embed/src/api/zset: a record with a size, a row per  *)
(* member with its score, and a row per score and member, whose key puts   *)
(* them in order.  A change of score moves the second and rewrites the     *)
(* first; ranges and ranks read the second, ranges of members the first.   *)
(*                                                                         *)
(* One caller at a time; each action is a whole handler with its one       *)
(* atomic batch.  Scores are codes, as in RedisZSets: rows lie in the      *)
(* order of the codes, and what the code compares are the numbers.         *)
(***************************************************************************)
EXTENDS Integers, FiniteSets, SequencesExt

CONSTANTS
    Keys, Members, Scores, Additions, Options, Removals, Steps, Counts, Ranks, Spans,
    Sources, Absent    \* as in RedisZSets

\* The algebra commands are modelled for one key and for two; a range from
\* 0.0 to -0.0, taken for empty, is no range of numbers.
Metas == [size : Nat, lapsed : BOOLEAN]
ZSetAssumption ==
    /\ Members \subseteq Nat /\ IsFiniteSet(Members)
    /\ Scores \subseteq Int /\ Absent \notin Int \cup Metas
    /\ \A s \in Scores : -1 - s \in Scores
    /\ \A ps \in Additions : ps \in Seq([member : Members, score : Scores])
    /\ \A ms \in Removals : ToSet(ms) \subseteq Members
    /\ Steps \subseteq Int /\ Counts \subseteq Nat \ {0} /\ Ranks \subseteq Int \X Int
    /\ Spans \subseteq [min : Int, max : Int, minex : BOOLEAN, maxex : BOOLEAN]
    /\ \A s \in Spans : ~(s.min = 0 /\ s.max = -1)
    /\ \A src \in Sources : src \in Seq([key : Keys, weight : {1, -1}]) /\ Len(src) \in {1, 2}

VARIABLES
    meta,        \* the record of each key; lapsed once its expiry passed
    row,         \* the score in each member's row
    index,       \* the scores and members that have a row in order
    asked, ret   \* the last call and its answer

vars == <<meta, row, index, asked, ret>>

NoRows == [m \in Members |-> Absent]

Init ==
    /\ meta = [k \in Keys |-> Absent]
    /\ row = [k \in Keys |-> NoRows]
    /\ index = [k \in Keys |-> {}]
    /\ asked = <<>>
    /\ ret = 0

\* get_zset_meta, get_meta_checked.
Live(k) == meta[k] # Absent /\ meta[k].size > 0 /\ ~meta[k].lapsed
Size(k) == IF Live(k) THEN meta[k].size ELSE 0

\* encode_sortable_f64 and arithmetic on what it encodes.
Number(s) == IF s < 0 THEN s + 1 ELSE s
Encoded(n) == IF n < 0 THEN n - 1 ELSE n
Plus(a, b) == IF a = -1 /\ b = -1 THEN -1 ELSE Encoded(Number(a) + Number(b))

----------------------------------------------------------------------------
(* Reading.                                                                *)

\* ziter, ziter_members.
Ordered(k) == IF Live(k) THEN index[k] ELSE {}
ScoreOf(k, m) == IF Live(k) THEN row[k][m] ELSE Absent
InOrder(a, b) == a[1] < b[1] \/ (a[1] = b[1] /\ a[2] < b[2])
Ahead(S, e) == {x \in S : InOrder(x, e)}

\* Mutant: the walk stops at an equal score too.
ZRankShort(k, m) ==
    LET t == ScoreOf(k, m)
        stops == {e \in Ordered(k) : Number(e[1]) >= Number(t)}
        first == CHOOSE e \in stops : \A x \in stops : ~InOrder(x, e)
    IN  IF t = Absent \/ stops = {} THEN Absent
        ELSE IF first = <<t, m>> THEN Cardinality(Ahead(Ordered(k), first)) ELSE Absent

\* zrank_with_score: the walk over the rows stops at the member, or at what
\* it takes for a place after it.
ZRank(k, m) ==
    LET t == ScoreOf(k, m)
        stops == {e \in Ordered(k) : \/ Number(e[1]) > Number(t)
                                     \/ Number(e[1]) = Number(t) /\ e[2] >= m}
        first == CHOOSE e \in stops : \A x \in stops : ~InOrder(x, e)
    IN  IF t = Absent \/ stops = {} THEN Absent
        ELSE IF first[2] = m THEN Cardinality(Ahead(Ordered(k), first)) ELSE Absent

ZRevRank(k, m) ==
    LET t == ScoreOf(k, m)
        stops == {e \in Ordered(k) : \/ Number(e[1]) < Number(t)
                                     \/ Number(e[1]) = Number(t) /\ e[2] <= m}
        first == CHOOSE e \in stops : \A x \in stops : ~InOrder(e, x)
    IN  IF t = Absent \/ stops = {} THEN Absent
        ELSE IF first[2] = m THEN Cardinality({x \in Ordered(k) : InOrder(first, x)}) ELSE Absent

\* RangeScore::is_empty, total_cmp and to_bits.
IsEmpty(s) == s.min > s.max \/ (s.min = s.max /\ (s.minex \/ s.maxex))

\* score_range_bounds takes both zeros in, or leaves both out.
AtLeast(s) == IF s.min \in {-1, 0} THEN IF s.minex THEN 0 ELSE -1 ELSE s.min
AtMost(s) == IF s.max \in {-1, 0} THEN IF s.maxex THEN -1 ELSE 0 ELSE s.max

\* RangeScore::check, RangeLex::check.
Check(x, s) == /\ IF s.minex THEN s.min < x ELSE s.min <= x
               /\ IF s.maxex THEN x < s.max ELSE x <= s.max
Numbers(s) == [s EXCEPT !.min = Number(@), !.max = Number(@)]

\* ziter_range_byscore: between the bounds, what the check lets through.
ByScore(k, s) ==
    IF IsEmpty(s) THEN {}
    ELSE {e \in Ordered(k) : /\ Check(e[1], [s EXCEPT !.min = AtLeast(s), !.max = AtMost(s)])
                             /\ Check(Number(e[1]), Numbers(s))}

\* ziter_range_bylex, over the members' rows.
ByLex(k, s) ==
    IF IsEmpty(s) THEN {} ELSE {m \in Members : ScoreOf(k, m) # Absent /\ Check(m, s)}

----------------------------------------------------------------------------
(* Writing: a handler's view of one key, and what it commits.              *)

Here(k) == [size |-> meta[k].size, row |-> row[k], index |-> index[k], added |-> 0, changed |-> 0]

\* prepare_zset_meta_for_write: an expired sorted set loses all its rows.
Prepared(k) ==
    IF Live(k) THEN Here(k)
    ELSE [size |-> 0, row |-> NoRows, index |-> {}, added |-> 0, changed |-> 0]

\* Mutant: the row of the old score stays.
PlaceBeside(h, m, s) ==
    [h EXCEPT !.row[m] = s, !.index = @ \cup {<<s, m>>}]

\* The rows of a member with a score, in place of those it has.
Place(h, m, s) ==
    [h EXCEPT !.row[m] = s, !.index = (@ \ {<<h.row[m], m>>}) \cup {<<s, m>>}]

Taken(h, S) ==
    [h EXCEPT !.size = @ - Cardinality(S),
              !.row = [m \in Members |-> IF m \in S THEN Absent ELSE @[m]],
              !.index = {e \in @ : e[2] \notin S}]

\* commit_zset_batch.
Commit(k, h) ==
    /\ meta' = [meta EXCEPT ![k] = IF h.size = 0 THEN Absent
                                   ELSE [size |-> h.size, lapsed |-> FALSE]]
    /\ row' = [row EXCEPT ![k] = h.row]
    /\ index' = [index EXCEPT ![k] = h.index]

Unchanged(r) == UNCHANGED <<meta, row, index>> /\ ret' = r

\* zadd, one pair: options in the order the code looks at them.
AddOne(h, p, o) ==
    LET old == h.row[p.member]
        incr == "incr" \in o
        new == IF old # Absent /\ incr THEN Plus(old, p.score) ELSE p.score
        barred == \/ incr /\ "lt" \in o /\ Number(p.score) >= 0
                  \/ incr /\ "gt" \in o /\ Number(p.score) <= 0
                  \/ "gt" \in o /\ Number(new) <= Number(old)
                  \/ "lt" \in o /\ Number(new) >= Number(old)
                  \/ Number(new) = Number(old)
    IN  IF old = Absent
        THEN IF "xx" \in o THEN h
             ELSE [Place(h, p.member, p.score) EXCEPT !.size = @ + 1, !.added = @ + 1]
        ELSE IF "nx" \in o \/ barred THEN h
        ELSE [Place(h, p.member, new) EXCEPT !.changed = @ + 1]

\* The pairs from the back, each member's last one only.
AddAll(k, pairs, o) ==
    LET n == Len(pairs)
        after[i \in 0 .. n] ==
            IF i = 0 THEN Prepared(k)
            ELSE IF \E j \in n - i + 2 .. n : pairs[j].member = pairs[n - i + 1].member
            THEN after[i - 1]
            ELSE AddOne(after[i - 1], pairs[n - i + 1], o)
    IN  after[n]

ZAdd(k, pairs, o) ==
    LET h == AddAll(k, pairs, o)
    IN  /\ "incr" \in o => Len(pairs) = 1
        /\ \A m \in Members : h.row[m] \in Scores \cup {Absent}
        /\ IF h.added + h.changed > 0 THEN Commit(k, h) ELSE UNCHANGED <<meta, row, index>>
        /\ ret' = h.added + (IF "ch" \in o THEN h.changed ELSE 0)

ZIncrBy(k, m, n) ==
    LET h == Prepared(k)
        old == h.row[m]
        new == IF old = Absent THEN n ELSE Plus(old, n)
    IN  /\ new \in Scores
        /\ IF old = Absent THEN Commit(k, [Place(h, m, new) EXCEPT !.size = @ + 1])
           ELSE IF Number(new) = Number(old) THEN UNCHANGED <<meta, row, index>>
           ELSE Commit(k, Place(h, m, new))
        /\ ret' = Number(new)

\* Rows that go, and the size with them; nothing is written when none do.
Drop(k, S, r) ==
    IF ~Live(k) \/ S = {} THEN Unchanged(r) ELSE Commit(k, Taken(Here(k), S)) /\ ret' = r

ZRem(k, ms) ==
    LET S == {m \in ToSet(ms) : ScoreOf(k, m) # Absent}
    IN  Drop(k, S, Cardinality(S))

\* zpop_internal: from either end of the rows in order, as many as asked for
\* but no more than the record counts.
Popped(k, n, high) ==
    LET rows == Ordered(k)
        count == IF n < Size(k) THEN n ELSE Size(k)
    IN  {e[2] : e \in {x \in rows : Cardinality(IF high THEN {y \in rows : InOrder(x, y)}
                                                ELSE Ahead(rows, x)) < count}}

ZPop(k, n, high) == Drop(k, Popped(k, n, high), Popped(k, n, high))

\* zmpop, bzpop_internal.
ZMPop(ks, n, high) ==
    LET full == {i \in DOMAIN ks : Popped(ks[i], n, high) # {}}
        first == ks[CHOOSE i \in full : \A j \in full : i <= j]
    IN  IF full = {} THEN Unchanged({}) ELSE ZPop(first, n, high)

\* normalize_range: the first and last rank, the first after the last for none.
Normalized(n, r) ==
    LET from == IF r[1] < 0 THEN n + r[1] ELSE r[1]
        to == IF r[2] < 0 THEN n + r[2] ELSE r[2]
    IN  IF n = 0 THEN <<0, -1>>
        ELSE <<IF from < 0 THEN 0 ELSE from, IF to >= n THEN n - 1 ELSE to>>

\* zremrangebyrank; all of them go without a look at the rows.
ZRemRangeByRank(k, r) ==
    LET n == Size(k)
        span == Normalized(n, r)
        S == {e[2] : e \in {x \in Ordered(k) : LET i == Cardinality(Ahead(Ordered(k), x))
                                               IN  span[1] <= i /\ i <= span[2]}}
    IN  IF ~Live(k) \/ span[1] > span[2] THEN Unchanged(0)
        ELSE IF span[1] = 0 /\ span[2] + 1 >= n
        THEN Commit(k, [Here(k) EXCEPT !.size = 0, !.row = NoRows, !.index = {}]) /\ ret' = n
        ELSE Drop(k, S, Cardinality(S))

ZRemRangeByScore(k, s) == Drop(k, {e[2] : e \in ByScore(k, s)}, Cardinality(ByScore(k, s)))
ZRemRangeByLex(k, s) == Drop(k, ByLex(k, s), Cardinality(ByLex(k, s)))

----------------------------------------------------------------------------
(* Algebra.                                                                *)

Weighted(s, w) == IF w = 1 THEN s ELSE -1 - s

\* Aggregate::apply: f64::min and f64::max may return either of two zeros.
Apply(agg, a, b) ==
    IF agg = "sum" THEN {Plus(a, b)}
    ELSE IF Number(a) = Number(b) THEN {a, b}
    ELSE {IF (agg = "min") = (Number(a) < Number(b)) THEN a ELSE b}

\* zunion and zinter: the scores a member may end with; none, not a result.
Outcomes(op, src, agg, m) ==
    LET scores == [i \in DOMAIN src |-> IF ScoreOf(src[i].key, m) = Absent THEN Absent
                                        ELSE Weighted(ScoreOf(src[i].key, m), src[i].weight)]
        there == {i \in DOMAIN src : scores[i] # Absent}
    IN  CASE op = "diff" -> IF there = {1} THEN {ScoreOf(src[1].key, m)} ELSE {}
          [] op = "inter" /\ there # DOMAIN src -> {}
          [] OTHER -> IF there = {} THEN {}
                      ELSE IF Cardinality(there) = 2 THEN Apply(agg, scores[1], scores[2])
                      ELSE {scores[CHOOSE i \in there : TRUE]}

\* overwrite_zset of a result: what the destination held goes first.
Overwrite(k, f) ==
    LET S == {m \in Members : f[m] # Absent}
    IN  /\ Commit(k, [size |-> Cardinality(S), row |-> f, index |-> {<<f[m], m>> : m \in S}])
        /\ ret' = Cardinality(S)

Store(op, d, src, agg) ==
    \E f \in [Members -> Scores \cup {Absent}] :
        /\ \A m \in Members :
              LET o == Outcomes(op, src, agg, m) IN IF o = {} THEN f[m] = Absent ELSE f[m] \in o
        /\ Overwrite(d, f)

----------------------------------------------------------------------------
(* What others do, and all steps together.                                 *)

Lapse(k) ==
    /\ Live(k)
    /\ meta' = [meta EXCEPT ![k].lapsed = TRUE]
    /\ UNCHANGED <<row, index, ret>>

\* DEL of a live sorted set, or the sweep of an expired one.
Erase(k) ==
    /\ meta[k] # Absent
    /\ meta' = [meta EXCEPT ![k] = Absent]
    /\ row' = [row EXCEPT ![k] = NoRows]
    /\ index' = [index EXCEPT ![k] = {}]
    /\ UNCHANGED ret

Call(k) ==
    \/ \E ps \in Additions, o \in Options : asked' = <<"add", k, ps, o>> /\ ZAdd(k, ps, o)
    \/ \E ms \in Removals : asked' = <<"rem", k, ms>> /\ ZRem(k, ms)
    \/ \E m \in Members, n \in Steps : asked' = <<"incr", k, m, n>> /\ ZIncrBy(k, m, n)
    \/ \E n \in Counts, high \in BOOLEAN : asked' = <<"pop", k, n, high>> /\ ZPop(k, n, high)
    \/ \E r \in Ranks : asked' = <<"remrank", k, r>> /\ ZRemRangeByRank(k, r)
    \/ \E s \in Spans : \/ asked' = <<"remscore", k, s>> /\ ZRemRangeByScore(k, s)
                        \/ asked' = <<"remlex", k, s>> /\ ZRemRangeByLex(k, s)
    \/ \E op \in {"union", "inter", "diff"}, src \in Sources, agg \in {"sum", "min", "max"} :
          asked' = <<"store", op, k, src, agg>> /\ Store(op, k, src, agg)
    \/ asked' = <<"vanish", k>> /\ (Lapse(k) \/ Erase(k))

Next ==
    \/ \E k \in Keys : Call(k)
    \/ \E src \in Sources, n \in Counts, high \in BOOLEAN :
          LET ks == [i \in DOMAIN src |-> src[i].key]
          IN  asked' = <<"mpop", ks, n, high>> /\ ZMPop(ks, n, high)

Spec == Init /\ [][Next]_vars

----------------------------------------------------------------------------
(* Properties.                                                             *)

(* The variables have their types.                                         *)
TypeOK ==
    /\ meta \in [Keys -> Metas \cup {Absent}]
    /\ row \in [Keys -> [Members -> Scores \cup {Absent}]]
    /\ index \in [Keys -> SUBSET (Scores \X Members)]

(* The two kinds of rows say the same and the record counts them; nothing  *)
(* lies without a record (zadd, zincrby, the pops and range removals).     *)
BoundsExact ==
    \A k \in Keys :
        /\ index[k] = {<<row[k][m], m>> : m \in {x \in Members : row[k][x] # Absent}}
        /\ IF meta[k] = Absent THEN index[k] = {}
           ELSE meta[k].size > 0 /\ meta[k].size = Cardinality(index[k])

(* A range of scores, cut out of the rows by two keys, is what the numbers *)
(* say, at both zeros too (score_range_bounds) -- but for a range from 0.0 *)
(* to -0.0, taken for empty.                                               *)
ReadsExact ==
    \A k \in Keys, min, max \in Scores, minex, maxex \in BOOLEAN :
        min <= max =>
            ByScore(k, [min |-> min, max |-> max, minex |-> minex, maxex |-> maxex]) =
                {e \in Ordered(k) : Check(Number(e[1]), [min |-> Number(min), max |-> Number(max),
                                                         minex |-> minex, maxex |-> maxex])}

(* ZRANK and ZREVRANK, which walk the rows until a member's place has      *)
(* passed, say how many come before and after it -- unless another member  *)
(* has the other zero (zrank_with_score).                                  *)
RanksExact ==
    \A k \in Keys : \A e \in Ordered(k) :
        (\A x \in Ordered(k) : Number(x[1]) = Number(e[1]) => x[1] = e[1]) =>
            /\ ZRank(k, e[2]) = Cardinality(Ahead(Ordered(k), e))
            /\ ZRevRank(k, e[2]) = Size(k) - 1 - Cardinality(Ahead(Ordered(k), e))

(* Members come by score, and of one score by name, whatever the sign of   *)
(* a zero: so says the comment on zget_all.                                *)
EqualScoresByMember ==
    \A k \in Keys : \A a, b \in Ordered(k) :
        InOrder(a, b) => Number(a[1]) < Number(b[1]) \/ (Number(a[1]) = Number(b[1]) /\ a[2] < b[2])

ZSets == INSTANCE RedisZSets WITH
    held <- [k \in Keys |-> [m \in Members |-> ScoreOf(k, m)]]

(* The store implements sorted sets under every command: what is popped or *)
(* removed by rank, score or name goes from both kinds of rows, and what   *)
(* the algebra commands store may have been stored over their operands.    *)
ImplementsRedisZSets == ZSets!Init /\ [][ZSets!ZNext]_(ZSets!vars)
=============================================================================
