----------------------------- MODULE TimeSeries -----------------------------
(***************************************************************************)
(* The time series of embed/src/api/timeseries: a record with the number   *)
(* of samples and the first and last of their times, the samples in chunk  *)
(* rows under the time of their first, and at a source one row per series  *)
(* it feeds, with the rule for that.                                       *)
(*                                                                         *)
(* One caller at a time.  A command is a batch for its own series and one  *)
(* for each series fed from it, in turn; a command that returns an error   *)
(* changes nothing and is no step.  Values are naturals, so averages and   *)
(* variances are left out of the rules.                                    *)
(***************************************************************************)
EXTENDS Integers, Sequences, FiniteSets

LOCAL INSTANCE SequencesExt
LOCAL INSTANCE TLC

CONSTANTS
    Keys,         \* numbers, in the order of the names
    MaxTime,      \* the last time of a sample
    Values,
    MaxValue,     \* bound: no sum goes beyond
    Bits,         \* the width of a gap between times in a packed chunk
    Creations,    \* the options of TS.CREATE: retention, size, packed, policy
    Default,      \* those TS.ADD takes when it has to create
    Alterations,  \* the options of TS.ALTER, Absent for one not given
    Policies,     \* the duplicate policies TS.ADD is given, Absent for none
    Rules,        \* type, duration and alignment of the buckets of a rule
    Spans,        \* the first and last time of TS.DEL
    Absent        \* no record, no rule, not given

Times == 0 .. MaxTime

SeriesAssumption ==
    /\ Keys \subseteq Nat /\ IsFiniteSet(Keys)
    /\ MaxTime \in Nat /\ Values \subseteq 0 .. MaxValue /\ Bits \in Nat \ {0}
    /\ Default \in Creations
    /\ \A o \in Creations : o.size > 0

VARIABLES
    meta,        \* the record of each series; lapsed once its expiry passed
    chunk,       \* the samples of each chunk, by the time it is kept under
    rule,        \* the rule a source has for a series it feeds
    stale,       \* history: the series made over chunks of an expired one
    odd,         \* history: the series that may not be what their rule says
    asked, ret   \* the last call and its answer

vars == <<meta, chunk, rule, stale, odd, asked, ret>>

Metas == [retention : Nat, size : Nat, packed : BOOLEAN, policy : STRING,
          source : Keys \cup {Absent}, chunks : Nat, total : Nat,
          first : Times, last : Times, lapsed : BOOLEAN]
Samples == [t : Times, v : 0 .. MaxValue]
NoChunks == [t \in Times |-> <<>>]

Init ==
    /\ meta = [k \in Keys |-> Absent]
    /\ chunk = [k \in Keys |-> NoChunks]
    /\ rule = [k \in Keys |-> [d \in Keys |-> Absent]]
    /\ stale = {}
    /\ odd = {}
    /\ asked = <<>>
    /\ ret = 0

Lowest(S) == CHOOSE m \in S : \A x \in S : m <= x
Highest(S) == CHOOSE m \in S : \A x \in S : x <= m
Larger(a, b) == IF a < b THEN b ELSE a
Less(a, b) == IF a < b THEN 0 ELSE a - b

Created(o) ==
    [retention |-> o.retention, size |-> o.size, packed |-> o.packed, policy |-> o.policy,
     source |-> Absent, chunks |-> 0, total |-> 0, first |-> 0, last |-> 0, lapsed |-> FALSE]

----------------------------------------------------------------------------
(* Chunks.  What the operators below take and return is a store: its       *)
(* records, chunks and rules.                                              *)

Store == [meta |-> meta, chunk |-> chunk, rule |-> rule]

\* get_meta_checked.
Live(s, k) == s.meta[k] # Absent /\ ~s.meta[k].lapsed
Starts(s, k) == {t \in Times : s.chunk[k][t] # <<>>}

\* compress_timestamps and its inverse: the first time is whole, the first gap
\* loses what its width does not hold, and a change of gap its sign as well.
Gap(ts, i) == ts[i] - ts[i - 1]
Wrapped(d) == ((d + 2 ^ (Bits - 1)) % (2 ^ Bits)) - 2 ^ (Bits - 1)
Unpacked(ts) ==
    LET one(r, i) ==
            LET gap == IF i = 2 THEN Gap(ts, 2) % (2 ^ Bits)
                       ELSE Larger(0, r.gap + Wrapped(Gap(ts, i) - Gap(ts, i - 1)))
            IN  [gap |-> gap, ts |-> Append(r.ts, r.ts[i - 1] + gap)]
    IN  FoldLeft(one, [gap |-> 0, ts |-> <<ts[1]>>], [i \in 1 .. Len(ts) - 1 |-> i + 1]).ts

\* encode_with_type, and what decode_samples makes of it.
Kept(samples, packed) ==
    IF ~packed \/ samples = <<>> THEN samples
    ELSE LET ts == Unpacked([i \in DOMAIN samples |-> samples[i].t])
         IN  [i \in DOMAIN samples |-> [t |-> ts[i], v |-> samples[i].v]]

\* The chunk of a time: the last to start by then, or else the first.
ChunkOf(s, k, t) ==
    IF \E a \in Starts(s, k) : a <= t THEN Highest({a \in Starts(s, k) : a <= t})
    ELSE Lowest(Starts(s, k))

\* merge_value, Absent for the error.
Merged(policy, old, new) ==
    CASE policy = "block" -> Absent
      [] policy = "first" -> old
      [] policy = "last" -> new
      [] policy = "min" -> IF old < new THEN old ELSE new
      [] policy = "max" -> Larger(old, new)
      [] policy = "sum" -> old + new

Pieces(samples, n) ==
    [i \in 1 .. (Len(samples) + n - 1) \div n |->
        SubSeq(samples, (i - 1) * n + 1, IF i * n < Len(samples) THEN i * n ELSE Len(samples))]

\* Mutant: the pieces are kept, the chunk that was split stays.
SplitBeside(c, at, samples, m) ==
    LET pieces == Pieces(samples, m.size)
        starts == {pieces[i][1].t : i \in DOMAIN pieces}
    IN  [t \in Times |-> IF t \in starts
                         THEN Kept(CHOOSE p \in ToSet(pieces) : p[1].t = t, m.packed)
                         ELSE c[t]]

\* A chunk's samples in place of it, in as many chunks as they need.
Split(c, at, samples, m) ==
    LET pieces == Pieces(samples, m.size)
        starts == {pieces[i][1].t : i \in DOMAIN pieces}
    IN  [t \in Times |-> IF t \in starts
                         THEN Kept(CHOOSE p \in ToSet(pieces) : p[1].t = t, m.packed)
                         ELSE IF t = at THEN <<>> ELSE c[t]]

\* The first and last time of a record that takes a sample; one more sample.
Spanning(m, t) == [m EXCEPT !.first = IF @ = 0 \/ t < @ THEN t ELSE @, !.last = Larger(@, t)]
Grown(m, t, chunks) == [Spanning(m, t) EXCEPT !.total = @ + 1, !.chunks = @ + chunks]

\* ts_add to one series: its record, its chunks and the value stored, or Absent
\* for an error.
AddOne(s, k, t, v, policy, o) ==
    LET m == IF Live(s, k) THEN s.meta[k] ELSE Created(o)
        c == s.chunk[k]
        at == ChunkOf(s, k, t)
        old == c[at]
        same == {i \in DOMAIN old : old[i].t = t}
        value == Merged(IF policy = Absent THEN m.policy ELSE policy, old[CHOOSE i \in same : TRUE].v, v)
        grown == Append(SelectSeq(old, LAMBDA x : x.t < t), [t |-> t, v |-> v])
                     \o SelectSeq(old, LAMBDA x : x.t > t)
    IN  IF m.retention > 0 /\ t < Less(m.last, m.retention) THEN Absent
        ELSE IF m.total = 0
        THEN [meta |-> [m EXCEPT !.total = 1, !.chunks = 1, !.first = t, !.last = t],
              chunk |-> [c EXCEPT ![t] = <<[t |-> t, v |-> v]>>], value |-> v]
        ELSE IF same # {}
        THEN IF value = Absent THEN Absent
             ELSE [meta |-> Spanning(m, t),
                   chunk |-> [c EXCEPT ![at] = Kept([i \in DOMAIN old |->
                                 IF i \in same THEN [t |-> t, v |-> value] ELSE old[i]], m.packed)],
                   value |-> value]
        ELSE IF t >= m.last /\ Len(old) >= m.size /\ t > old[Len(old)].t
        THEN [meta |-> Grown(m, t, 1), chunk |-> [c EXCEPT ![t] = <<[t |-> t, v |-> v]>>], value |-> v]
        ELSE [meta |-> Grown(m, t, Len(Pieces(grown, m.size)) - 1),
              chunk |-> Split(c, at, grown, m), value |-> v]

\* Mutant: the search lands behind the time, not on it.
SearchBehind(s, k, t) == t

\* Where ts_range_raw starts to read.
Search(s, k, t) == IF \E a \in Starts(s, k) : a <= t THEN ChunkOf(s, k, t) ELSE 0

\* ts_range_raw: from the chunk of the first time on, those that may have one.
\* It asks for the retention of a series, not whether it is there.
RangeRaw(s, k, from, to) ==
    LET kept == IF Live(s, k) /\ s.meta[k].retention > 0
                THEN Less(s.meta[k].last, s.meta[k].retention) ELSE 0
        start == Larger(from, kept)
        read == {a \in Starts(s, k) : Search(s, k, start) <= a /\ a <= to
                                      /\ s.chunk[k][a][Len(s.chunk[k][a])].t >= start}
        within(a) == SelectSeq(s.chunk[k][a], LAMBDA x : start <= x.t /\ x.t <= to)
    IN  IF from > to THEN <<>>
        ELSE SortSeq(FlattenSeq([i \in 1 .. Cardinality(read) |->
                 within(CHOOSE a \in read : Cardinality({b \in read : b < a}) = i - 1)]),
                 LAMBDA x, y : x.t < y.t)

\* ts_get: the last sample of the last chunk.
Latest(s, k) ==
    LET c == s.chunk[k][Highest(Starts(s, k))]
    IN  IF ~Live(s, k) \/ s.meta[k].total = 0 \/ Starts(s, k) = {} THEN Absent ELSE c[Len(c)]

----------------------------------------------------------------------------
(* Rules.                                                                  *)

\* calculate_aligned_bucket_left, _right: what lies before the first whole
\* bucket is one from 0.
BucketLeft(r, t) ==
    LET align == r.align % r.duration
    IN  IF t < align THEN 0 ELSE ((t - align) \div r.duration) * r.duration + align
BucketRight(r, t) == BucketLeft(r, t) + r.duration

Incremental == {"sum", "count", "min", "max"}

\* reduce_samples.
Reduced(samples, type) ==
    LET vs == {samples[i].v : i \in DOMAIN samples}
    IN  CASE type = "sum" -> FoldLeft(LAMBDA a, x : a + x.v, 0, samples)
          [] type = "count" -> Len(samples)
          [] type = "min" -> Lowest(vs)
          [] type = "max" -> Highest(vs)
          [] type = "first" -> samples[1].v
          [] type = "last" -> samples[Len(samples)].v
          [] type = "range" -> Highest(vs) - Lowest(vs)

Fed(s, k) == {d \in Keys : s.rule[k][d] # Absent}
InKeyOrder(S) == [i \in 1 .. Cardinality(S) |-> CHOOSE k \in S : Cardinality({x \in S : x < k}) = i - 1]

\* Mutant: the bucket that follows is read with it.
FeedingWide(s, k, r, t, value) ==
    IF r.type \in Incremental
    THEN [v |-> IF r.type = "count" THEN 1 ELSE value,
          policy |-> IF r.type = "count" THEN "sum" ELSE r.type]
    ELSE LET bucket == RangeRaw(s, k, BucketLeft(r, t), BucketRight(r, t))
         IN  IF bucket = <<>> THEN Absent ELSE [v |-> Reduced(bucket, r.type), policy |-> "last"]

\* What a sample of a source puts into the bucket of a series it feeds: itself,
\* or the bucket read anew.
Feeding(s, k, r, t, value) ==
    IF r.type \in Incremental
    THEN [v |-> IF r.type = "count" THEN 1 ELSE value,
          policy |-> IF r.type = "count" THEN "sum" ELSE r.type]
    ELSE LET bucket == RangeRaw(s, k, BucketLeft(r, t), BucketRight(r, t) - 1)
         IN  IF bucket = <<>> THEN Absent ELSE [v |-> Reduced(bucket, r.type), policy |-> "last"]

OrElse(x, y) == IF x = Absent THEN y ELSE x

\* ts_add and trigger_downstream_upsert: the series, then all it feeds; an
\* error there is passed over.
RECURSIVE Added(_, _, _, _, _, _)
Added(s, k, t, v, policy, o) ==
    LET put(x, d, f) ==
            IF f = Absent THEN x
            ELSE OrElse(Added(x, d, BucketLeft(x.rule[k][d], t), f.v, f.policy, Default), x)
        after(r) ==
            IF r = Absent THEN Absent
            ELSE FoldLeft(LAMBDA x, d : put(x, d, Feeding(x, k, x.rule[k][d], t, r.value)),
                          [s EXCEPT !.meta[k] = r.meta, !.chunk[k] = r.chunk], InKeyOrder(Fed(s, k)))
    IN  after(AddOne(s, k, t, v, policy, o))

\* The record after so many samples and chunks are gone.
Cut(m, c, gone, chunks) ==
    LET starts == {t \in Times : c[t] # <<>>}
        last == c[Highest(starts)]
    IN  IF Less(m.total, gone) = 0
        THEN [m EXCEPT !.total = 0, !.chunks = 0, !.first = 0, !.last = 0]
        ELSE [m EXCEPT !.total = @ - gone, !.chunks = Less(@, chunks),
                       !.first = IF starts = {} THEN @ ELSE Lowest(starts),
                       !.last = IF starts = {} THEN @ ELSE last[Len(last)].t]

\* ts_del and cascade_downstream_del: the samples, then every bucket they or
\* others between them lie in.  Absent for an error.
RECURSIVE Deleted(_, _, _, _)
Deleted(s, k, from, to) ==
    LET m == s.meta[k]
        bound == IF m.retention > 0 THEN Less(m.last, m.retention) ELSE 0
        rest(t) == SelectSeq(s.chunk[k][t], LAMBDA x : x.t < from \/ x.t > to)
        hit == {t \in Starts(s, k) : from <= to /\ Len(rest(t)) < Len(s.chunk[k][t])}
        cut == {t \in hit : rest(t) # <<>>}
        c == [t \in Times |->
                 IF \E a \in cut : rest(a)[1].t = t
                 THEN Kept(rest(CHOOSE a \in cut : rest(a)[1].t = t), m.packed)
                 ELSE IF t \in hit THEN <<>> ELSE s.chunk[k][t]]
        gone == FoldLeft(LAMBDA n, t : n + Len(s.chunk[k][t]) - Len(rest(t)), 0, InKeyOrder(hit))
        own == [s EXCEPT !.meta[k] = Cut(m, c, gone, Cardinality(hit \ cut)), !.chunk[k] = c]
        drop(x, d) ==
            LET r == x.rule[k][d]
            IN  OrElse(Deleted(x, d, BucketLeft(r, from), BucketRight(r, to) - 1), x)
    IN  IF ~Live(s, k) THEN s
        ELSE IF bound > 0 /\ \E d \in Fed(s, k) : BucketLeft(s.rule[k][d], from) < bound THEN Absent
        ELSE IF hit = {} THEN s
        ELSE FoldLeft(drop, own, InKeyOrder(Fed(s, k)))

----------------------------------------------------------------------------
(* Commands.                                                               *)

Commit(s, r) ==
    /\ meta' = s.meta
    /\ chunk' = s.chunk
    /\ rule' = s.rule
    /\ stale' = stale \cup {k \in Keys : ~Live(Store, k) /\ Live(s, k) /\ Starts(Store, k) # {}}
    /\ ret' = r

Feeders(k) == {s \in Keys : rule[s][k] # Absent}
Held(k) == UNION {ToSet(chunk[k][a]) : a \in Times}

TsCreate(k, o) ==
    /\ ~Live(Store, k)
    /\ Commit([Store EXCEPT !.meta[k] = Created(o)], 0)
    /\ UNCHANGED odd

TsAlter(k, o) ==
    /\ Live(Store, k)
    /\ Commit([Store EXCEPT
           !.meta[k].retention = IF o.retention = Absent THEN @ ELSE o.retention,
           !.meta[k].size = IF o.size = Absent THEN @ ELSE o.size,
           !.meta[k].policy = IF o.policy = Absent THEN @ ELSE o.policy], 0)
    /\ UNCHANGED odd

\* What a write to a series may set apart: itself, when others feed it, and
\* what it feeds, when a sample is replaced.
SetApart(k, t) ==
    (IF Feeders(k) = {} THEN {} ELSE {k})
        \cup (IF \E x \in Held(k) : x.t = t THEN Fed(Store, k) ELSE {})

TsAdd(k, t, v, policy, o) ==
    LET small(c) == \A d \in Keys : \A a \in Times : \A i \in DOMAIN c[d][a] : c[d][a][i].v <= MaxValue
        add(s) == /\ s # Absent
                  /\ small(s.chunk)
                  /\ Commit(s, t)
                  /\ odd' = odd \cup SetApart(k, t)
    IN  add(Added(Store, k, t, v, policy, o))

\* ts_incrby: no time before the last.
TsIncrBy(k, t, v, o) ==
    LET latest == Latest(Store, k)
    IN  /\ latest # Absent => t >= latest.t
        /\ TsAdd(k, t, IF latest = Absent THEN v ELSE latest.v + v, "last", o)

TsDel(k, from, to) ==
    LET count(c) == Cardinality(UNION {{<<a, i>> : i \in DOMAIN c[a]} : a \in Times})
        partly(d) == \E x \in Held(k) : /\ (x.t < from \/ x.t > to)
                                        /\ BucketLeft(rule[k][d], from) <= x.t
                                        /\ x.t < BucketRight(rule[k][d], to)
        del(s) ==
            /\ s # Absent
            /\ Commit(s, count(chunk[k]) - count(s.chunk[k]))
            /\ odd' = odd \cup (IF Feeders(k) = {} THEN {} ELSE {k}) \cup {d \in Fed(Store, k) : partly(d)}
    IN  del(Deleted(Store, k, from, to))

\* Mutant: what the destination feeds is not asked.
MayFeedAny(k, d) ==
    /\ k # d /\ meta[k] # Absent /\ meta[d] # Absent
    /\ meta[k].source = Absent
    /\ meta[d].source \in {Absent, k}

\* What ts_createrule asks, of the records as they are, expired or not.
MayFeed(k, d) ==
    /\ k # d /\ meta[k] # Absent /\ meta[d] # Absent
    /\ meta[k].source = Absent
    /\ meta[d].source \in {Absent, k}
    /\ Fed(Store, d) = {}

TsCreateRule(k, d, r) ==
    /\ MayFeed(k, d)
    /\ Commit([Store EXCEPT !.rule[k][d] = r, !.meta[d].source = k], 0)
    /\ odd' = IF Live(Store, k) /\ Live(Store, d) /\ Held(k) \cup Held(d) = {} /\ Feeders(d) \subseteq {k}
              THEN odd \ {d} ELSE odd \cup {d}

TsDeleteRule(k, d) ==
    /\ meta[k] # Absent /\ meta[d] # Absent /\ rule[k][d] # Absent
    /\ Commit([Store EXCEPT !.rule[k][d] = Absent,
                            !.meta[d].source = IF @ = k THEN Absent ELSE @], 0)
    /\ UNCHANGED odd

\* An expiry passes; everything stays.
Lapse(k) ==
    /\ Live(Store, k)
    /\ Commit([Store EXCEPT !.meta[k].lapsed = TRUE], ret)
    /\ odd' = odd \cup {k} \cup Fed(Store, k)

\* DEL, or the sweep of an expired series: its chunks go and the rules it has
\* for others, not those others have for it.
Erase(k) ==
    /\ meta[k] # Absent
    /\ meta' = [meta EXCEPT ![k] = Absent]
    /\ chunk' = [chunk EXCEPT ![k] = NoChunks]
    /\ rule' = [rule EXCEPT ![k] = [d \in Keys |-> Absent]]
    /\ stale' = stale \ {k}
    /\ odd' = odd \cup {k} \cup Fed(Store, k)
    /\ UNCHANGED ret

Call(k) ==
    \/ \E o \in Creations : asked' = <<"create", k, o>> /\ TsCreate(k, o)
    \/ \E o \in Alterations : asked' = <<"alter", k, o>> /\ TsAlter(k, o)
    \/ \E t \in Times, v \in Values, p \in Policies, o \in Creations :
          asked' = <<"add", k, t, v, p, o>> /\ TsAdd(k, t, v, p, o)
    \/ \E t \in Times, v \in Values, o \in Creations :
          asked' = <<"incr", k, t, v, o>> /\ TsIncrBy(k, t, v, o)
    \/ \E s \in Spans : asked' = <<"del", k, s>> /\ TsDel(k, s[1], s[2])
    \/ \E d \in Keys : \/ \E r \in Rules : asked' = <<"rule", k, d, r>> /\ TsCreateRule(k, d, r)
                       \/ asked' = <<"norule", k, d>> /\ TsDeleteRule(k, d)
    \/ asked' = <<"vanish", k>> /\ (Lapse(k) \/ Erase(k))

Next == \E k \in Keys : Call(k)

Spec == Init /\ [][Next]_vars

----------------------------------------------------------------------------
(* Properties.                                                             *)

(* The variables have their types.                                         *)
TypeOK ==
    /\ meta \in [Keys -> Metas \cup {Absent}]
    /\ \A k \in Keys : \A a \in Times : \A i \in DOMAIN chunk[k][a] : chunk[k][a][i] \in Samples
    /\ rule \in [Keys -> [Keys -> Rules \cup {Absent}]]
    /\ stale \subseteq Keys /\ odd \subseteq Keys

(* A series' record counts its samples and chunks and has their bounds; a  *)
(* chunk is kept under its first time and ends before the next begins; and *)
(* nothing lies without a record (ts_add, ts_del) -- unless the series was *)
(* made over what an expired one left.  A first time of 0 is taken for     *)
(* none, so the record may then have the second.                           *)
BoundsExact ==
    \A k \in Keys \ stale :
        LET starts == Starts(Store, k)
            c == chunk[k]
            end(a) == c[a][Len(c[a])].t
        IN  /\ \A a \in starts :
                  /\ c[a][1].t = a
                  /\ \A i \in DOMAIN c[a] : i > 1 => c[a][i - 1].t < c[a][i].t
                  /\ \A b \in starts : a < b => end(a) < b
            /\ meta[k] = Absent => starts = {}
            /\ meta[k] # Absent =>
                  /\ meta[k].chunks = Cardinality(starts)
                  /\ meta[k].total = Cardinality(Held(k))
                  /\ starts # {} => /\ meta[k].last = end(Highest(starts))
                                    /\ (meta[k].first = Lowest(starts) \/ Lowest(starts) = 0)

(* TS.RANGE, which starts at the chunk the first time falls into, skips no *)
(* sample of the range and returns none twice (ts_range_raw).              *)
ReadsExact ==
    \A k \in Keys \ stale : Live(Store, k) =>
        LET bound == IF meta[k].retention = 0 THEN 0 ELSE Less(meta[k].last, meta[k].retention)
        IN  \A from, to \in Times :
                LET range == RangeRaw(Store, k, from, to)
                    there == {x \in Held(k) : Larger(from, bound) <= x.t /\ x.t <= to}
                IN  ToSet(range) = there /\ Len(range) = Cardinality(there)

(* "assert_eq!(orig.ts, dec.ts)" (tests/timeseries.rs): what a packed chunk *)
(* gives back was put in, so an accepted sample is there to be read.        *)
AddedKept ==
    \A k \in Keys : asked'[1] = "add" /\ asked'[2] = k => \E x \in Held(k)' : x.t = asked'[3]

(* What a rule keeps at its series is what it says of the samples of its   *)
(* source, in whatever order they came (trigger_downstream_upsert), when   *)
(* none was replaced, none deleted out of the middle of a bucket, and both *)
(* were empty at the start.  The part of a bucket before the first aligned *)
(* one is no bucket of the aggregates read anew.                           *)
DownstreamExact ==
    \A k, d \in Keys : rule[k][d] # Absent /\ Feeders(k) = {} /\ {k, d} \cap (odd \cup stale) = {} =>
        LET r == rule[k][d]
            all == RangeRaw([Store EXCEPT !.meta[k] = Absent], k, 0, MaxTime)
            bucket(b) == SelectSeq(all, LAMBDA x : BucketLeft(r, x.t) = b)
            buckets == {BucketLeft(r, x.t) : x \in Held(k)}
            said == {[t |-> b, v |-> Reduced(bucket(b), r.type)] : b \in buckets}
            short(x) == x.t = 0 /\ r.align % r.duration # 0 /\ r.type \notin Incremental
        IN  /\ meta[d].source = k
            /\ meta[k].retention = 0 /\ meta[d].retention = 0 =>
                   {x \in Held(d) : ~short(x)} = {x \in said : ~short(x)}

(* No series feeds itself, over however many others: a write that runs     *)
(* down the rules comes to an end (ts_createrule), whatever is deleted and *)
(* made again in between.                                                  *)
RulesEnd ==
    \A k \in Keys :
        k \notin FoldLeft(LAMBDA S, i : S \cup UNION {Fed(Store, x) : x \in S},
                         Fed(Store, k), InKeyOrder(Keys))

(* An expired series has no samples for TS.RANGE, as it has none for       *)
(* TS.MRANGE, TS.MGET and TS.GET.                                          *)
LapsedUnread ==
    \A k \in Keys : meta[k] # Absent /\ meta[k].lapsed => RangeRaw(Store, k, 0, MaxTime) = <<>>
=============================================================================
