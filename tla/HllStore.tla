------------------------------- MODULE HllStore -------------------------------
(***************************************************************************)
(* The HyperLogLogs of embed/src/api/hll.  Registers of a few bits are     *)
(* packed one after another into bytes (dense), or encoded as runs of      *)
(* equal registers (sparse), which gives way to dense when a count is too  *)
(* large for it or the runs are too many.  A key keeps the dense form; a   *)
(* HyperLogLog, the value that the library gives its callers, either.      *)
(*                                                                         *)
(* A hash is the register and the count that extract_dense_hll_result      *)
(* makes of it.  One caller; an action is a handler with its one batch.    *)
(***************************************************************************)
EXTENDS Integers, Sequences, FiniteSets

LOCAL INSTANCE FiniteSetsExt
LOCAL INSTANCE SequencesExt

CONSTANTS
    Keys, Registers, Hashes, Sources,      \* as in RedisHlls
    Values,         \* the members of Keys that are HyperLogLogs, not keys
    ByteBits, RegBits,                     \* 8 and 6 in the code
    SparseMax,      \* the largest count of the sparse form, 32
    ValRun, ZeroRun,                       \* the longest runs of one byte, 4 and 64
    SparseBytes,    \* the longest sparse form, 3000
    Absent

HllAssumption ==
    /\ (Registers * RegBits) % ByteBits = 0 /\ RegBits < ByteBits
    /\ Values \subseteq Keys /\ SparseMax < 2 ^ RegBits
    /\ \A hs \in Hashes : \A i \in DOMAIN hs :
        hs[i][1] \in 0 .. Registers - 1 /\ hs[i][2] \in 1 .. 2 ^ RegBits - 1

VARIABLES
    hll,           \* of each key: Absent, or its form and whether it expired
    asked, ret

vars == <<hll, asked, ret>>

Dense(bytes) == [sparse |-> FALSE, data |-> bytes, lapsed |-> FALSE]
Sparse(runs) == [sparse |-> TRUE, data |-> runs, lapsed |-> FALSE]

----------------------------------------------------------------------------
(* Dense: a register begins in one byte, and may end in the next.          *)

NoBytes == [i \in 1 .. (Registers * RegBits) \div ByteBits |-> 0]

\* hll_dense_get_register.
DenseGet(bytes, i) ==
    LET at == (i * RegBits) \div ByteBits + 1
        from == (i * RegBits) % ByteBits
        next == IF from > ByteBits - RegBits THEN bytes[at + 1] ELSE 0
    IN  (bytes[at] \div 2 ^ from + next * 2 ^ (ByteBits - from)) % 2 ^ RegBits

\* hll_dense_set_register: the bits below the register and above it stay.
\* Mutant: what the next byte held before is not cleared.
DenseSetOver(bytes, i, v) ==
    LET at == (i * RegBits) \div ByteBits + 1
        from == (i * RegBits) % ByteBits
        fits == ByteBits - from
        low == (bytes[at] % 2 ^ from) + ((v * 2 ^ from) % 2 ^ ByteBits)
        high == (bytes[at] \div 2 ^ (from + RegBits)) * 2 ^ (from + RegBits)
    IN  IF from <= ByteBits - RegBits
        THEN [bytes EXCEPT ![at] = low + high]
        ELSE [bytes EXCEPT ![at] = low, ![at + 1] = (@ + v \div 2 ^ fits) % 2 ^ ByteBits]
DenseSet(bytes, i, v) ==
    LET at == (i * RegBits) \div ByteBits + 1
        from == (i * RegBits) % ByteBits
        fits == ByteBits - from
        low == (bytes[at] % 2 ^ from) + ((v * 2 ^ from) % 2 ^ ByteBits)
        high == (bytes[at] \div 2 ^ (from + RegBits)) * 2 ^ (from + RegBits)
        rest == 2 ^ (RegBits - fits)
    IN  IF from <= ByteBits - RegBits
        THEN [bytes EXCEPT ![at] = low + high]
        ELSE [bytes EXCEPT ![at] = low, ![at + 1] = (@ \div rest) * rest + v \div 2 ^ fits]

Positions == [i \in 1 .. Registers |-> i - 1]

\* hll_merge_bytes, and hll_merge_sparse_into_dense for the counts of a sparse
\* form: at(i) is register i of the other.
MergedWith(bytes, at(_)) ==
    FoldLeft(LAMBDA b, i : IF at(i) > DenseGet(b, i) THEN DenseSet(b, i, at(i)) ELSE b,
             bytes, Positions)

----------------------------------------------------------------------------
(* Sparse: runs of zeros, in one byte or in two when there are many, and   *)
(* of up to ValRun equal counts.                                           *)

\* encode_sparse_zero, encode_sparse_val.
EncodedRun(v, n) ==
    IF v = 0 THEN <<[val |-> 0, len |-> n, bytes |-> IF n > ZeroRun THEN 2 ELSE 1]>>
    ELSE [j \in 1 .. (n + ValRun - 1) \div ValRun |->
            [val |-> v, len |-> Min({ValRun, n - (j - 1) * ValRun}), bytes |-> 1]]

\* Runs put together where they have the same count, and encoded (push_run and
\* emit_run of hll_sparse_set_register, hll_dense_to_sparse).
Encoded(counts) ==
    LET cuts == {i \in DOMAIN counts : i = 1 \/ counts[i] # counts[i - 1]}
        starts == SetToSortSeq(cuts, <)
        len(j) == IF j = Len(starts) THEN Len(counts) + 1 - starts[j] ELSE starts[j + 1] - starts[j]
    IN  FlattenSeq([j \in DOMAIN starts |-> EncodedRun(counts[starts[j]], len(j))])

SizeOf(runs) == FoldLeft(LAMBDA n, r : n + r.bytes, 0, runs)
Counts(runs) == FlattenSeq([j \in DOMAIN runs |-> [i \in 1 .. runs[j].len |-> runs[j].val]])

\* hll_sparse_get_register.
\* Mutant: the first register after a run is taken for its last.
SparseGetLate(runs, i) ==
    LET start(j) == FoldLeft(LAMBDA n, r : n + r.len, 0, SubSeq(runs, 1, j - 1))
    IN  runs[Min({j \in DOMAIN runs : i <= start(j) + runs[j].len})].val
SparseGet(runs, i) ==
    LET start(j) == FoldLeft(LAMBDA n, r : n + r.len, 0, SubSeq(runs, 1, j - 1))
    IN  runs[Min({j \in DOMAIN runs : i < start(j) + runs[j].len})].val

\* hll_sparse_set_register, Absent when the form cannot hold it.
SparseSet(runs, i, v) ==
    LET new == Encoded([Counts(runs) EXCEPT ![i + 1] = v])
    IN  IF v > SparseMax THEN Absent
        ELSE IF v <= SparseGet(runs, i) THEN runs
        ELSE IF SizeOf(new) > SparseBytes THEN Absent ELSE new

\* hll_sparse_to_dense, of promote_to_dense and pfmerge.
ToDense(runs) == MergedWith(NoBytes, LAMBDA i : SparseGet(runs, i))

\* hll_dense_to_sparse, Absent when the form cannot hold them.
ToSparse(bytes) ==
    LET counts == [i \in 1 .. Registers |-> DenseGet(bytes, i - 1)]
    IN  IF \E i \in DOMAIN counts : counts[i] > SparseMax THEN Absent
        ELSE IF SizeOf(Encoded(counts)) > SparseBytes THEN Absent ELSE Encoded(counts)

----------------------------------------------------------------------------
(* Either form.                                                            *)

New(k) == IF k \in Values THEN Sparse(Encoded([i \in 1 .. Registers |-> 0])) ELSE Absent
Init == hll = [k \in Keys |-> New(k)] /\ asked = <<>> /\ ret = 0

Live(k) == hll[k] # Absent /\ ~hll[k].lapsed
Get(h, i) == IF h.sparse THEN SparseGet(h.data, i) ELSE DenseGet(h.data, i)
Promoted(h) == IF h.sparse THEN Dense(ToDense(h.data)) ELSE h

\* add_hash and pfadd_with_hashes: one hash.
AddHash(h, x) ==
    LET set == SparseSet(h.data, x[1], x[2])
        raise(d) == IF x[2] > DenseGet(d.data, x[1])
                    THEN [d EXCEPT !.data = DenseSet(@, x[1], x[2])] ELSE d
    IN  IF ~h.sparse THEN raise(h)
        ELSE IF set = Absent THEN raise(Promoted(h)) ELSE Sparse(set)

\* What a key has, as pfadd and pfmerge begin with it.
Held(k) == IF Live(k) THEN hll[k] ELSE Dense(NoBytes)

\* PFADD, HyperLogLog::add.
Add(k, hs) ==
    LET h == FoldLeft(AddHash, Held(k), hs)
        raised == \E i \in 0 .. Registers - 1 : Get(h, i) > Get(Held(k), i)
    IN  /\ asked' = <<"add", k, hs>>
        /\ hll' = IF raised THEN [hll EXCEPT ![k] = h] ELSE hll
        /\ ret' = IF raised THEN 1 ELSE 0

\* merge_hll_source and HyperLogLog::merge: what j has goes into dense bytes.
Merged(bytes, j) == IF Live(j) THEN MergedWith(bytes, LAMBDA i : Get(hll[j], i)) ELSE bytes

\* PFMERGE: each source once, and not the destination again.
PfMerge(k, ks) ==
    LET others == {ks[i] : i \in DOMAIN ks} \ {k}
    IN  /\ k \notin Values /\ others \cap Values = {}
        /\ asked' = <<"merge", k, ks>>
        /\ hll' = IF ks = <<>> THEN hll
                  ELSE [hll EXCEPT ![k] =
                        Dense(FoldLeft(Merged, Promoted(Held(k)).data, SetToSeq(others)))]
        /\ ret' = 0

\* HyperLogLog::merge; one without counts changes nothing.
MergeValue(k, j) ==
    LET empty == \A i \in 0 .. Registers - 1 : Get(hll[j], i) = 0
    IN  /\ k \in Values /\ j \in Values
        /\ asked' = <<"merge", k, <<j>>>>
        /\ hll' = IF j = k \/ empty THEN hll
                  ELSE [hll EXCEPT ![k] = Dense(Merged(Promoted(@).data, j))]
        /\ ret' = 0

\* promote_to_dense, and to_sparse where the form can hold the counts.
Promote(k) == asked' = <<"recode", k>> /\ hll' = [hll EXCEPT ![k] = Promoted(@)] /\ ret' = 0
Compress(k) ==
    /\ ~hll[k].sparse /\ ToSparse(hll[k].data) # Absent
    /\ asked' = <<"recode", k>>
    /\ hll' = [hll EXCEPT ![k] = Sparse(ToSparse(@.data))]
    /\ ret' = 0

\* HyperLogLog::clear keeps the form; a key loses its counts when it expires.
Clear(k) ==
    /\ asked' = <<"clear", k>>
    /\ hll' = [hll EXCEPT ![k] = IF @.sparse THEN New(k) ELSE Dense(NoBytes)]
    /\ ret' = 0
Lapse(k) ==
    /\ Live(k)
    /\ asked' = <<"clear", k>>
    /\ hll' = [hll EXCEPT ![k].lapsed = TRUE]
    /\ ret' = 0

Next ==
    \/ \E k \in Keys, hs \in Hashes : Add(k, hs)
    \/ \E k \in Keys \ Values, ks \in Sources : PfMerge(k, ks)
    \/ \E k \in Keys \ Values : Lapse(k)
    \/ \E k, j \in Values : MergeValue(k, j)
    \/ \E k \in Values : Promote(k) \/ Compress(k) \/ Clear(k)

Spec == Init /\ [][Next]_vars

----------------------------------------------------------------------------
(* A sparse form has a count for every register, none too large, and is    *)
(* no longer than it may be (hll_sparse_is_valid).                         *)
TypeOK ==
    \A k \in Keys : hll[k] # Absent =>
        IF hll[k].sparse
        THEN /\ Len(Counts(hll[k].data)) = Registers /\ SizeOf(hll[k].data) <= SparseBytes
             /\ \A j \in DOMAIN hll[k].data : hll[k].data[j].val \in 0 .. SparseMax
        ELSE hll[k].data \in [DOMAIN NoBytes -> 0 .. 2 ^ ByteBits - 1]

RegsOf(k) == [i \in 0 .. Registers - 1 |-> IF Live(k) THEN Get(hll[k], i) ELSE 0]
Hlls == INSTANCE RedisHlls WITH regs <- [k \in Keys |-> RegsOf(k)]

\* hll_sparse_reg_histo: how many registers of a sparse form have a count.
SparseHisto(runs, c) == FoldLeft(LAMBDA n, r : n + (IF r.val = c THEN r.len ELSE 0), 0, runs)

(* The estimate of a sparse form is made from the same counts as that of   *)
(* the dense form it would be promoted to, so that PFCOUNT does not jump   *)
(* when it is (hll_sparse_reg_histo, hll_dense_reg_histo).                 *)
ReadsExact ==
    \A k \in Keys : Live(k) /\ hll[k].sparse =>
        \A c \in 0 .. 2 ^ RegBits - 1 :
            SparseHisto(hll[k].data, c) =
                Cardinality({i \in 0 .. Registers - 1 : DenseGet(ToDense(hll[k].data), i) = c})
=============================================================================
