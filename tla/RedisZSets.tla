------------------------------ MODULE RedisZSets ------------------------------
(***************************************************************************)
(* What the sorted set commands promise a single caller: a key holds       *)
(* members with scores, none of them being no key.                         *)
(*                                                                         *)
(* A score is what encode_sortable_f64 makes of a double, small enough to  *)
(* count: n for n >= 0 and n - 1 for -n, the way ones' complement puts     *)
(* -0.0 at -1, next to 0.0 at 0.  Members are naturals, in their order.    *)
(***************************************************************************)
EXTENDS Integers, FiniteSets, SequencesExt

CONSTANTS
    Keys, Members, Scores,
    Additions,   \* the score and member lists of ZADD
    Options,     \* its options
    Removals,    \* the member lists of ZREM
    Steps,       \* the increments of ZINCRBY
    Counts,      \* the counts of pops
    Ranks,       \* pairs of ranks
    Spans,       \* ranges of scores
    Sources,     \* the keys and weights of the algebra commands
    Absent       \* not a member

VARIABLES
    held,        \* the score of each member of each key
    asked, ret   \* the last call and its answer

vars == <<held, asked, ret>>

Init ==
    /\ held = [k \in Keys |-> [m \in Members |-> Absent]]
    /\ asked = <<>>
    /\ ret = 0

\* The number a code stands for, the code of a number, and of a sum.
Number(s) == IF s < 0 THEN s + 1 ELSE s
Encoded(n) == IF n < 0 THEN n - 1 ELSE n
Plus(a, b) == IF a = -1 /\ b = -1 THEN -1 ELSE Encoded(Number(a) + Number(b))

\* A weight is 1 or -1.
Weighted(s, w) == IF w = 1 THEN s ELSE -1 - s

\* What is kept of two scores: of two zeros, either may be.
Kept(agg, a, b) ==
    IF agg = "sum" THEN {Plus(a, b)}
    ELSE IF Number(a) = Number(b) THEN {a, b}
    ELSE {IF (agg = "min") = (a < b) THEN a ELSE b}

In(k) == {m \in Members : held[k][m] # Absent}
Before(k, a, b) == held[k][a] < held[k][b] \/ (held[k][a] = held[k][b] /\ a < b)
Rank(k, m) == Cardinality({x \in In(k) : Before(k, x, m)})

Keep(r) == UNCHANGED held /\ ret' = r
Without(k, S, r) ==
    held' = [held EXCEPT ![k] = [m \in Members |-> IF m \in S THEN Absent ELSE @[m]]] /\ ret' = r

\* The last pair of a member counts.
LastFor(pairs, m) == pairs[CHOOSE i \in DOMAIN pairs :
    pairs[i].member = m /\ \A j \in DOMAIN pairs : pairs[j].member = m => j <= i].score

Allowed(o, old, new) ==
    /\ "nx" \notin o
    /\ "gt" \in o => Number(new) > Number(old)
    /\ "lt" \in o => Number(new) < Number(old)
    /\ Number(new) # Number(old)

ZAdd(k, pairs, o) ==
    LET named == {p.member : p \in ToSet(pairs)}
        want(m) == IF "incr" \in o /\ m \in In(k) THEN Plus(held[k][m], LastFor(pairs, m))
                   ELSE LastFor(pairs, m)
        added == {m \in named \ In(k) : "xx" \notin o}
        changed == {m \in named \cap In(k) : Allowed(o, held[k][m], want(m))}
    IN  /\ \A m \in added \cup changed : want(m) \in Scores
        /\ held' = [held EXCEPT ![k] = [m \in Members |-> IF m \in added \cup changed
                                                          THEN want(m) ELSE @[m]]]
        /\ ret' = Cardinality(added) + (IF "ch" \in o THEN Cardinality(changed) ELSE 0)

ZIncrBy(k, m, n) ==
    LET new == IF m \in In(k) THEN Plus(held[k][m], n) ELSE n
    IN  /\ new \in Scores
        /\ held' = IF m \in In(k) /\ Number(new) = Number(held[k][m]) THEN held
                   ELSE [held EXCEPT ![k][m] = new]
        /\ ret' = Number(new)

ZRem(k, ms) == Without(k, ToSet(ms), Cardinality(ToSet(ms) \cap In(k)))

\* The lowest, or the highest, so many.
Popped(k, n, high) ==
    {m \in In(k) : (IF high THEN Cardinality(In(k)) - 1 - Rank(k, m) ELSE Rank(k, m)) < n}
ZPop(k, n, high) == Without(k, Popped(k, n, high), Popped(k, n, high))

\* ZMPOP and the non-blocking BZPOP take from the first key that has some.
ZMPop(ks, n, high) ==
    LET full == {i \in DOMAIN ks : In(ks[i]) # {}}
    IN  IF full = {} THEN Keep({})
        ELSE ZPop(ks[CHOOSE i \in full : \A j \in full : i <= j], n, high)

\* normalize_range.
Ranked(k, r) ==
    LET n == Cardinality(In(k))
        from == IF r[1] < 0 THEN IF n + r[1] < 0 THEN 0 ELSE n + r[1] ELSE r[1]
        to == IF r[2] < 0 THEN n + r[2] ELSE r[2]
    IN  {m \in In(k) : from <= Rank(k, m) /\ Rank(k, m) <= to}
Within(x, s) == /\ IF s.minex THEN s.min < x ELSE s.min <= x
                /\ IF s.maxex THEN x < s.max ELSE x <= s.max
Scored(k, s) ==
    {m \in In(k) : Within(Number(held[k][m]), [s EXCEPT !.min = Number(@), !.max = Number(@)])}
Named(k, s) == {m \in In(k) : Within(m, s)}

RemRange(k, S) == Without(k, S, Cardinality(S))

Combined(op, src, agg) ==
    LET at(i) == held[src[i].key]
        in(i) == In(src[i].key)
        all == {m \in Members : CASE op = "union" -> \E i \in DOMAIN src : m \in in(i)
                                  [] op = "inter" -> \A i \in DOMAIN src : m \in in(i)
                                  [] op = "diff"  -> m \in in(1) /\ \A i \in 2 .. Len(src) : m \notin in(i)}
        w(i, m) == Weighted(at(i)[m], src[i].weight)
        scores(m) == IF op = "diff" THEN {at(1)[m]}
                     ELSE IF Len(src) = 2 /\ m \in in(1) \cap in(2) THEN Kept(agg, w(1, m), w(2, m))
                     ELSE {w(CHOOSE i \in DOMAIN src : m \in in(i), m)}
    IN  {f \in [Members -> Scores \cup {Absent}] :
           \A m \in Members : IF m \in all THEN f[m] \in scores(m) ELSE f[m] = Absent}

Store(op, d, src, agg) ==
    \E f \in Combined(op, src, agg) :
        /\ held' = [held EXCEPT ![d] = f]
        /\ ret' = Cardinality({m \in Members : f[m] # Absent})

Call(k) ==
    \/ \E ps \in Additions, o \in Options :
          asked' = <<"add", k, ps, o>> /\ ("incr" \in o => Len(ps) = 1) /\ ZAdd(k, ps, o)
    \/ \E ms \in Removals : asked' = <<"rem", k, ms>> /\ ZRem(k, ms)
    \/ \E m \in Members, n \in Steps : asked' = <<"incr", k, m, n>> /\ ZIncrBy(k, m, n)
    \/ \E n \in Counts, high \in BOOLEAN : asked' = <<"pop", k, n, high>> /\ ZPop(k, n, high)
    \/ \E r \in Ranks : asked' = <<"remrank", k, r>> /\ RemRange(k, Ranked(k, r))
    \/ \E s \in Spans : \/ asked' = <<"remscore", k, s>> /\ RemRange(k, Scored(k, s))
                        \/ asked' = <<"remlex", k, s>> /\ RemRange(k, Named(k, s))
    \/ \E op \in {"union", "inter", "diff"}, src \in Sources, agg \in {"sum", "min", "max"} :
          asked' = <<"store", op, k, src, agg>> /\ Store(op, k, src, agg)
    \/ asked' = <<"vanish", k>> /\ Without(k, Members, ret)

ZNext ==
    \/ \E k \in Keys : Call(k)
    \/ \E src \in Sources, n \in Counts, high \in BOOLEAN :
          LET ks == [i \in DOMAIN src |-> src[i].key]
          IN  asked' = <<"mpop", ks, n, high>> /\ ZMPop(ks, n, high)
=============================================================================
