------------------------------ MODULE TDigestStore ------------------------------
(***************************************************************************)
(* The t-digest of embed/src/api/tdigest.  First its algorithms (algo.rs): *)
(* centroids in order of their means, each with a weight, and a buffer of  *)
(* values not yet merged into them.  A centroid is a weight and the sum of *)
(* what it stands for, its mean their quotient, and arithmetic is exact: a *)
(* number is a fraction <<numerator, denominator>>, with denominator 0 for *)
(* infinity and for what is not a number.                                  *)
(*                                                                         *)
(* Then its commands on keys.  A key's digest is one record, read whole   *)
(* and saved whole with a metadata record of its own that never has an     *)
(* expiry; a reader saves it too when it had to merge the buffer.  A key   *)
(* may hold a value of another type, which CREATE and the readers refuse;  *)
(* TDIGEST.MERGE takes the refusal for an absence.  One caller; the count  *)
(* of compressions, which is only reported, is left out.                   *)
(***************************************************************************)
EXTENDS Integers, Sequences

LOCAL INSTANCE SequencesExt
LOCAL INSTANCE FiniteSetsExt

CONSTANTS
    MinDelta,             \* the smallest delta in use, 10 in the code
    DefaultCompression,   \* 100 in the code
    Capacity(_),          \* of the buffer, for a compression
    WeightLimit(_, _, _), \* where the next centroid must end: for a delta, the
                          \* total weight and the weight so far, in hundredths
    Huge,                 \* f64::MAX
    NotNumber,            \* a value that is not a number
    Keys,
    Compressions,  \* of CREATE and of MERGE
    Batches,       \* the sequences of values ADD is given
    Merges,        \* the sequences of sources of MERGE
    Probes,        \* the values and ranks that are read back
    Quantiles,     \* and the fractions
    Absent,
    MaxSeen        \* bound on the observations of a key

TDigestAssumption ==
    /\ DefaultCompression \in Nat \ {0} /\ MinDelta \in Nat
    /\ \A c \in Compressions \cup {DefaultCompression} : c \in Int /\ (c > 0 => Capacity(c) \in Nat \ {0})
    /\ \A b \in Batches : b # <<>> /\ \A i \in DOMAIN b : b[i] = NotNumber \/ b[i] \in -Huge .. Huge
    /\ \A s \in Merges : s # <<>>

----------------------------------------------------------------------------
(* Fractions.                                                              *)

Whole(n) == <<n, 1>>
Half(n) == <<n, 2>>
NaN == <<0, 0>>
Infinity == <<1, 0>>
MinusInfinity == <<-1, 0>>
Plus(a, b) == <<a[1] * b[2] + b[1] * a[2], a[2] * b[2]>>
Minus(a, b) == <<a[1] * b[2] - b[1] * a[2], a[2] * b[2]>>
Times(a, b) == <<a[1] * b[1], a[2] * b[2]>>
Over(a, b) == <<a[1] * b[2], a[2] * b[1]>>
Same(a, b) == a[1] * b[2] = b[1] * a[2]
AtMost(a, b) == a[1] * b[2] <= b[1] * a[2]
Below(a, b) == a[1] * b[2] < b[1] * a[2]
Floor(a) == a[1] \div a[2]
Ceiling(a) == -((-a[1]) \div a[2])
\* lerp.
Lerp(a, b, t) == Plus(a, Times(t, Minus(b, a)))

----------------------------------------------------------------------------
(* Centroids.                                                              *)

Single(v) == [sum |-> v, weight |-> 1]
Mean(c) == <<c.sum, c.weight>>
\* Centroid::merge.
Joined(c, d) == [sum |-> c.sum + d.sum, weight |-> c.weight + d.weight]
WeightOf(cs) == FoldLeft(LAMBDA n, c : n + c.weight, 0, cs)
UpTo(cs, i) == WeightOf(SubSeq(cs, 1, i))

\* Into a list in order, before those of the same mean and behind them.
InFront(cs, c) ==
    SelectSeq(cs, LAMBDA d : Below(Mean(d), Mean(c))) \o <<c>>
        \o SelectSeq(cs, LAMBDA d : AtMost(Mean(c), Mean(d)))
Behind(cs, c) ==
    SelectSeq(cs, LAMBDA d : AtMost(Mean(d), Mean(c))) \o <<c>>
        \o SelectSeq(cs, LAMBDA d : Below(Mean(c), Mean(d)))
\* Mutant: what is left of the second when the first has ended is left out.
WovenWithoutTail(cs, ds) ==
    FoldRight(LAMBDA d, s : InFront(s, d),
              SelectSeq(ds, LAMBDA d : cs = <<>> \/ AtMost(Mean(d), Mean(cs[Len(cs)]))), cs)
\* Two lists in one, the second first where means are the same.
Woven(cs, ds) == FoldRight(LAMBDA d, s : InFront(s, d), ds, cs)
SortedBuffer(buffer) == FoldLeft(LAMBDA s, v : Behind(s, Single(v)), <<>>, buffer)

\* A list of one or two has its own loop, three and more a heap.
InOrder(lists) ==
    CASE Len(lists) = 1 -> lists[1]
      [] Len(lists) = 2 -> Woven(lists[1], lists[2])
      [] OTHER -> FoldLeft(LAMBDA s, l : FoldLeft(Behind, s, l), <<>>, lists)

\* TDigestMerger::add: a centroid joins the one before it up to the limit, and
\* past it begins another.
Raised(limit, next, total) == IF next <= limit THEN 100 * total ELSE next
Added(m, c, delta, total) ==
    IF 100 * (m.sofar + c.weight) <= m.limit
    THEN [m EXCEPT !.out = IF m.out = <<>> THEN <<c>> ELSE [@ EXCEPT ![Len(m.out)] = Joined(@, c)],
                   !.sofar = @ + c.weight]
    ELSE [out |-> Append(m.out, c), sofar |-> m.sofar + c.weight,
          limit |-> Raised(m.limit, WeightLimit(delta, total, m.sofar), total)]
Merged(cs, delta, total) ==
    FoldLeft(LAMBDA m, c : Added(m, c, delta, total), [out |-> <<>>, sofar |-> 0, limit |-> -100], cs).out
Delta(compression) == IF compression < MinDelta THEN MinDelta ELSE compression

----------------------------------------------------------------------------
(* The digest.                                                             *)

NewDigest(compression) ==
    [compression |-> compression, centroids |-> <<>>, buffer |-> <<>>, total |-> 0,
     merged |-> 0, observations |-> 0, min |-> Huge, max |-> -Huge]
IsEmpty(d) == d.observations = 0 /\ d.total <= 0

\* Mutant: the merged weight is not brought up to date.
CompressedUnweighed(d) ==
    [d EXCEPT !.centroids = Merged(Woven(@, SortedBuffer(d.buffer)), Delta(d.compression), d.total),
              !.buffer = <<>>]
\* compress: the buffer in order, before centroids of the same mean.
Compressed(d) ==
    [d EXCEPT !.centroids = Merged(Woven(@, SortedBuffer(d.buffer)), Delta(d.compression), d.total),
              !.buffer = <<>>, !.merged = d.total]
EnsureMerged(d) == IF d.buffer = <<>> THEN d ELSE Compressed(d)

\* add with weight 1, and each turn of add_batch.
Buffered(d, v) ==
    [d EXCEPT !.buffer = Append(@, v), !.total = @ + 1, !.observations = @ + 1,
              !.min = IF v < @ THEN v ELSE @, !.max = IF v > @ THEN v ELSE @]
Filled(d) == IF Len(d.buffer) >= Capacity(d.compression) THEN Compressed(d) ELSE d
AddValue(d, v) == IF v = NotNumber THEN d ELSE Filled(Buffered(d, v))

\* tdigest_merge_buffer_and_centroids without a buffer, of lists that are not
\* empty: a list alone whose delta is the one asked for stays as it is.
MergedTotal(ds) == FoldLeft(LAMBDA n, d : n + d.merged, 0, ds)
MergedList(ds, compression) ==
    IF Len(ds) = 1 /\ ds[1].compression = Delta(compression) THEN ds[1].centroids
    ELSE Merged(InOrder([i \in DOMAIN ds |-> ds[i].centroids]), Delta(compression), MergedTotal(ds))
OfList(ds, compression) ==
    [compression |-> compression, centroids |-> MergedList(ds, compression), buffer |-> <<>>,
     total |-> MergedTotal(ds), merged |-> MergedTotal(ds),
     observations |-> FoldLeft(LAMBDA n, d : n + d.observations, 0, ds),
     min |-> Min({ds[i].min : i \in DOMAIN ds}), max |-> Max({ds[i].max : i \in DOMAIN ds})]

\* merge_with_options: dest is <<>> or a digest, and takes part unless it is
\* overridden.
FinalCompression(dest, sources, override, given) ==
    IF given # <<>> THEN given[1]
    ELSE IF override \/ dest = <<>>
         THEN Max({DefaultCompression} \cup {sources[i].compression : i \in DOMAIN sources})
         ELSE dest[1].compression
Parts(dest, sources, override) ==
    SelectSeq((IF override THEN <<>> ELSE dest) \o sources, LAMBDA d : ~IsEmpty(d))
MergeAll(parts, compression) ==
    IF parts = <<>> THEN NewDigest(compression)
    ELSE OfList(FoldLeft(LAMBDA s, d : Append(s, EnsureMerged(d)), <<>>, parts), compression)
\* Mutant: the buffers of the sources are not merged first.
MergeUnmerged(dest, sources, override, given) ==
    LET parts == Parts(dest, sources, override)
        compression == FinalCompression(dest, sources, override, given)
    IN  IF parts = <<>> THEN NewDigest(compression) ELSE OfList(parts, compression)
MergeWithOptions(dest, sources, override, given) ==
    MergeAll(Parts(dest, sources, override), FinalCompression(dest, sources, override, given))

----------------------------------------------------------------------------
(* What is read, of a digest whose buffer is empty.                        *)

LessWeight(cs, v) == WeightOf(SelectSeq(cs, LAMBDA c : Below(Mean(c), Whole(v))))
SameWeight(cs, v) == WeightOf(SelectSeq(cs, LAMBDA c : Same(Mean(c), Whole(v))))
MoreWeight(cs, v) == WeightOf(SelectSeq(cs, LAMBDA c : Below(Whole(v), Mean(c))))

\* tdigest_rank_calc, of one value: what is less, or more, and half of what is
\* the same.
\* Mutant: what is the same counts in full.
RankFull(d, v) ==
    IF d.centroids = <<>> THEN -2 ELSE IF v < d.min THEN -1
    ELSE LessWeight(d.centroids, v) + SameWeight(d.centroids, v)
Rank(d, v) ==
    IF d.centroids = <<>> THEN -2 ELSE IF v < d.min THEN -1
    ELSE (2 * LessWeight(d.centroids, v) + SameWeight(d.centroids, v)) \div 2
RevRank(d, v) ==
    IF d.centroids = <<>> THEN -2 ELSE IF v > d.max THEN -1
    ELSE (2 * MoreWeight(d.centroids, v) + SameWeight(d.centroids, v)) \div 2

\* tdigest_by_rank_calc: the centroid the rank falls into.
FallsIn(cs, r, beyond) ==
    LET past == {i \in DOMAIN cs : r < UpTo(cs, i)} IN IF past = {} THEN beyond ELSE Mean(cs[Min(past)])
ByRank(d, r) == IF d.centroids = <<>> THEN NaN ELSE FallsIn(d.centroids, r, Infinity)
ByRevRank(d, r) == IF d.centroids = <<>> THEN NaN ELSE FallsIn(Reverse(d.centroids), r, MinusInfinity)

\* tdigest_quantile_calc.
Toward(cs, i, diff) == \* from centroid i to the next
    Lerp(Mean(cs[i]), Mean(cs[i + 1]), Over(diff, Half(cs[i].weight + cs[i + 1].weight)))
QuantileIn(d, cs, i, index, diff) ==
    CASE cs[i].weight = 1 /\ Below(diff, <<1, 2>>) /\ Below(<<-1, 2>>, diff) -> Mean(cs[i])
      [] OTHER ->
           IF Below(Whole(0), diff)
           THEN IF i = Len(cs) THEN Lerp(Mean(cs[i]), Whole(d.max), Over(diff, Half(cs[i].weight)))
                ELSE Toward(cs, i, diff)
           ELSE IF i = 1 THEN Lerp(Whole(d.min), Mean(cs[1]), Over(index, Half(cs[1].weight)))
                ELSE Toward(cs, i - 1, Plus(diff, Half(cs[i - 1].weight + cs[i].weight)))
QuantileAt(d, cs, i, index) ==
    QuantileIn(d, cs, i, index, Minus(Plus(index, Half(cs[i].weight)), Whole(UpTo(cs, i))))
IndexOf(cs, index) == Min({i \in DOMAIN cs : AtMost(index, Whole(UpTo(cs, i)))})
Quantile(d, q) ==
    LET index == Times(q, Whole(d.total))
    IN  CASE d.centroids = <<>> -> NaN
          [] AtMost(index, Whole(1)) -> Whole(d.min)
          [] AtMost(Whole(d.total - 1), index) -> Whole(d.max)
          [] OTHER -> QuantileAt(d, d.centroids, IndexOf(d.centroids, index), index)

\* tdigest_cdf_calc, of one value, as the weight below it: first what lies
\* between two centroids, of which one that is single is a point and not a
\* spread, then the first, the last and all.
BetweenTwo(cs, i, v) ==
    LET c == cs[i]
        next == cs[i + 1]
        part == Over(Minus(Whole(v), Mean(c)), Minus(Mean(next), Mean(c)))
        from == Plus(Whole(UpTo(cs, i - 1)), IF c.weight = 1 THEN Whole(1) ELSE Half(c.weight))
        to == IF next.weight = 1 THEN Whole(UpTo(cs, i)) ELSE Plus(Whole(UpTo(cs, i)), Half(next.weight))
    IN  IF c.weight = 1 /\ next.weight = 1 THEN Whole(UpTo(cs, i)) ELSE Lerp(from, to, part)
BelowFirst(d, c, v) ==
    IF v = d.min THEN <<1, 2>>
    ELSE Lerp(<<1, 2>>, Half(c.weight), Over(Whole(v - d.min), Minus(Mean(c), Whole(d.min))))
FromLast(d, c, v) ==
    CASE Same(Mean(c), Whole(v)) -> Minus(Whole(d.total), Half(c.weight))
      [] v = d.max -> Minus(Whole(d.total), <<1, 2>>)
      [] OTHER -> Lerp(Minus(Whole(d.total), Half(c.weight)), Minus(Whole(d.total), <<1, 2>>),
                       Over(Minus(Whole(v), Mean(c)), Minus(Whole(d.max), Mean(c))))
WeightBelow(d, cs, v) ==
    CASE v < d.min -> Whole(0)
      [] v > d.max -> Whole(d.total)
      [] Len(cs) = 1 -> Half(d.total)
      [] Below(Whole(v), Mean(cs[1])) -> BelowFirst(d, cs[1], v)
      [] \E i \in 1 .. Len(cs) - 1 : Same(Mean(cs[i]), Whole(v)) ->
           Plus(Whole(LessWeight(cs, v)), Half(SameWeight(cs, v)))
      [] AtMost(Mean(cs[Len(cs)]), Whole(v)) -> FromLast(d, cs[Len(cs)], v)
      [] OTHER -> BetweenTwo(cs, Max({i \in DOMAIN cs : Below(Mean(cs[i]), Whole(v))}), v)
Cdf(d, v) == IF d.centroids = <<>> THEN NaN ELSE Over(WeightBelow(d, d.centroids, v), Whole(d.total))

\* tdigest_trimmed_mean_calc: of each centroid what lies between the cuts.
Lesser(a, b) == IF a < b THEN a ELSE b
Greater(a, b) == IF a > b THEN a ELSE b
Within(w, done, left, right) ==
    Lesser(Greater(right - done, 0), w - Lesser(Greater(left - done, 0), w))
Trimmed(t, c, left, right) ==
    LET n == Within(c.weight, t.done, left, right)
    IN  [done |-> t.done + c.weight, sum |-> Plus(t.sum, Times(Mean(c), Whole(n))), count |-> t.count + n]
TrimmedSum(cs, left, right) ==
    FoldLeft(LAMBDA t, c : Trimmed(t, c, left, right), [done |-> 0, sum |-> Whole(0), count |-> 0], cs)
MeanOf(t) == IF t.count = 0 THEN NaN ELSE Over(t.sum, Whole(t.count))
TrimmedMean(d, low, high) ==
    IF d.centroids = <<>> THEN NaN
    ELSE MeanOf(TrimmedSum(d.centroids, Floor(Times(Whole(d.total), low)),
                           Ceiling(Times(Whole(d.total), high))))

----------------------------------------------------------------------------
VARIABLES
    digest,   \* of each key: Absent, or its digest and whether it has an expiry; a
              \* record that expired is read as none and overwritten whole
    seen,     \* of each key: the values its digest stands for, in order
    others    \* the keys with a live value of another type, not a string

vars == <<digest, seen, others>>

Init == digest = [k \in Keys |-> Absent] /\ seen = [k \in Keys |-> <<>>] /\ others = {}

Live(k) == digest[k] # Absent
Saved(k, d) == digest' = [digest EXCEPT ![k] = [state |-> d, expires |-> FALSE]]

----------------------------------------------------------------------------
\* tdigest_create; a compression that is not positive is the default.
Create(k) ==
    \E c \in Compressions :
        /\ ~Live(k) /\ k \notin others
        /\ Saved(k, NewDigest(IF c <= 0 THEN DefaultCompression ELSE c))
        /\ seen' = [seen EXCEPT ![k] = <<>>]
        /\ UNCHANGED others

Ascending(s) == FoldLeft(LAMBDA t, v : SelectSeq(t, LAMBDA u : u <= v) \o <<v>>
                                          \o SelectSeq(t, LAMBDA u : u > v), <<>>, s)
Numbers(b) == SelectSeq(b, LAMBDA v : v # NotNumber)

\* tdigest_add and tdigest_add_one.
Add(k) ==
    \E b \in Batches :
        /\ Live(k) /\ Len(seen[k]) + Len(b) <= MaxSeen
        /\ Saved(k, FoldLeft(AddValue, digest[k].state, b))
        /\ seen' = [seen EXCEPT ![k] = Ascending(@ \o Numbers(b))]
        /\ UNCHANGED others

\* tdigest_reset.
ResetTo(k) ==
    /\ Live(k)
    /\ Saved(k, NewDigest(digest[k].state.compression))
    /\ seen' = [seen EXCEPT ![k] = <<>>]
    /\ UNCHANGED others

\* tdigest_merge.
Dest(k) == IF Live(k) THEN <<digest[k].state>> ELSE <<>>
SeenIn(k, sources, override) ==
    FoldLeft(LAMBDA s, j : s \o seen[j], IF override \/ ~Live(k) THEN <<>> ELSE seen[k], sources)
Merge(k) ==
    \E sources \in Merges, override \in BOOLEAN, given \in {<<>>} \cup {<<c>> : c \in Compressions} :
        /\ \A i \in DOMAIN sources : Live(sources[i])
        /\ given # <<>> => given[1] > 0
        /\ Len(SeenIn(k, sources, override)) <= MaxSeen
        /\ Saved(k, MergeWithOptions(Dest(k), [i \in DOMAIN sources |-> digest[sources[i]].state],
                                     override, given))
        /\ seen' = [seen EXCEPT ![k] = Ascending(SeenIn(k, sources, override))]
        /\ UNCHANGED others

\* QUANTILE, CDF, RANK, REVRANK, BYRANK, BYREVRANK and TRIMMED_MEAN: what they
\* leave behind.  MIN, MAX and INFO leave nothing.
Query(k) ==
    /\ Live(k) /\ digest[k].state.buffer # <<>>
    /\ Saved(k, EnsureMerged(digest[k].state))
    /\ UNCHANGED <<seen, others>>

\* EXPIRE where no other type is found first, the passing of time, and the
\* commands of other types.
Expire(k) ==
    /\ Live(k) /\ k \notin others
    /\ digest' = [digest EXCEPT ![k].expires = TRUE]
    /\ UNCHANGED <<seen, others>>
Lapse(k) ==
    /\ Live(k) /\ digest[k].expires
    /\ digest' = [digest EXCEPT ![k] = Absent]
    /\ seen' = [seen EXCEPT ![k] = <<>>]
    /\ UNCHANGED others
Other(k) ==
    /\ ~Live(k) /\ others' = IF k \in others THEN others \ {k} ELSE others \cup {k}
    /\ UNCHANGED <<digest, seen>>

Next ==
    \E k \in Keys :
        \/ Create(k) \/ Add(k) \/ ResetTo(k) \/ Merge(k) \/ Query(k)
        \/ Expire(k) \/ Lapse(k) \/ Other(k)

Spec == Init /\ [][Next]_vars

----------------------------------------------------------------------------
States == {digest[k].state : k \in {j \in Keys : Live(j)}}

OrderOK(cs) ==
    /\ \A i \in DOMAIN cs : cs[i].weight > 0
    /\ \A i \in 1 .. Len(cs) - 1 : AtMost(Mean(cs[i]), Mean(cs[i + 1]))

(* Centroids lie in order between the extremes; the buffer never waits     *)
(* past its capacity (add, add_batch, compress).                           *)
TypeOK ==
    \A d \in States :
        /\ OrderOK(d.centroids)
        /\ \A i \in DOMAIN d.centroids :
              AtMost(Whole(d.min), Mean(d.centroids[i])) /\ AtMost(Mean(d.centroids[i]), Whole(d.max))
        /\ d.compression > 0 /\ Len(d.buffer) < Capacity(d.compression)

SumOf(s) == FoldLeft(LAMBDA a, b : a + b, 0, s)
Conserved(d, s) ==
    /\ d.total = Len(s) /\ d.observations = Len(s)
    /\ d.merged = WeightOf(d.centroids) /\ d.merged + Len(d.buffer) = Len(s)
    /\ FoldLeft(LAMBDA n, c : n + c.sum, SumOf(d.buffer), d.centroids) = SumOf(s)

(* No observation is lost or counted twice, whatever was buffered, merged  *)
(* and merged again: weights and sums are those of what was added          *)
(* (compress, merge_with_options).                                         *)
SizeExact == \A k \in Keys : Live(k) => Conserved(digest[k].state, seen[k])

----------------------------------------------------------------------------
\* While every centroid is one value the answers are those of the values.
RankExact(d, s) ==
    \A v \in Probes :
        LET less == Len(SelectSeq(s, LAMBDA u : u < v))
            same == Len(SelectSeq(s, LAMBDA u : u = v))
        IN  /\ Rank(d, v) = IF v < d.min THEN -1 ELSE less + same \div 2
            /\ RevRank(d, v) = IF v > d.max THEN -1 ELSE Len(s) - less - same + same \div 2
            /\ Same(Cdf(d, v), <<2 * less + same, 2 * Len(s)>>)
ValueExact(d, up) ==
    /\ \A r \in Probes \cap Nat :
          IF r < Len(up) THEN Same(ByRank(d, r), Whole(up[r + 1]))
                              /\ Same(ByRevRank(d, r), Whole(up[Len(up) - r]))
          ELSE ByRank(d, r) = Infinity /\ ByRevRank(d, r) = MinusInfinity
    /\ \A q \in Quantiles :
          LET at == Times(q, Whole(Len(up)))
          IN  (Below(Whole(0), at) /\ Ceiling(at) # Floor(at)) => Same(Quantile(d, q), Whole(up[Ceiling(at)]))
    /\ \A p, q \in Quantiles :
          LET part == SubSeq(up, Floor(Times(p, Whole(Len(up)))) + 1, Ceiling(Times(q, Whole(Len(up)))))
          IN  Below(p, q) => Same(TrimmedMean(d, p, q), <<SumOf(part), Len(part)>>)

\* Otherwise they still go up together, between the extremes.
Bounded(d, x) == AtMost(Whole(d.min), x) /\ AtMost(x, Whole(d.max))
Steady(d) ==
    /\ \A v, w \in Probes :
          v <= w => /\ Rank(d, v) <= Rank(d, w)
                    /\ RevRank(d, w) <= RevRank(d, v)
                    /\ AtMost(Cdf(d, v), Cdf(d, w))
    /\ \A p, q \in Quantiles :
          /\ Bounded(d, Quantile(d, p))
          /\ AtMost(p, q) => AtMost(Quantile(d, p), Quantile(d, q))
          /\ Below(p, q) => Bounded(d, TrimmedMean(d, p, q))

AnswersExact(d, s) ==
    /\ d.min = Min(ToSet(s)) /\ d.max = Max(ToSet(s))
    /\ Steady(d)
    /\ (\A i \in DOMAIN d.centroids : d.centroids[i].weight = 1) =>
          RankExact(d, s) /\ ValueExact(d, s)

(* What a reader answers, after it has merged the buffer: the extremes of  *)
(* all that was added, exact ranks, quantiles and means while no two       *)
(* values share a centroid, and estimates that never turn back.            *)
ReadsExact ==
    \A k \in Keys : Live(k) /\ seen[k] # <<>> => AnswersExact(EnsureMerged(digest[k].state), seen[k])
=============================================================================
