------------------------------ MODULE BloomStore ------------------------------
(***************************************************************************)
(* The Bloom filters of embed/src/api/bloom/impl.rs.  A filter is a chain  *)
(* of sub-filters, each larger than the one before by the expansion: a     *)
(* record with their number and the items taken, and one row of blocks for *)
(* each.  An item sets, in the one block of a row that its hash picks, one *)
(* bit of each word.  Only the last sub-filter takes items, until the      *)
(* chain's capacity is reached; then another one is added, or the filter   *)
(* is full.  One caller; an action is a handler with its one batch.        *)
(***************************************************************************)
EXTENDS Integers, Sequences, FiniteSets

LOCAL INSTANCE FiniteSetsExt
LOCAL INSTANCE SequencesExt

CONSTANTS
    Keys, Items,
    High,         \* the upper half of each item's hash, below HighRange
    HighRange,    \* 2^32 in the code
    Mask,         \* the bits each item sets in its block
    BlocksFor(_), \* the blocks of a sub-filter of a capacity (optimal_num_of_bytes)
    Capacities, Expansions,
    Batches,      \* the items of one call
    MaxCapacity,  \* the largest u32
    MaxFilters,   \* the largest u16, a bound of the model
    Absent

BloomAssumption ==
    /\ High \in [Items -> 0 .. HighRange - 1]
    /\ \A c \in Capacities : c \in 1 .. MaxCapacity
    /\ \A c \in 1 .. MaxCapacity : BlocksFor(c) \in Nat \ {0}

VARIABLES
    meta,         \* the record of each key
    row,          \* the sub-filters' rows
    held,         \* ghost: the items that a caller was told the filter has
    taken,        \* ghost: how many items each sub-filter took
    stale,        \* ghost: the keys with rows of an expired filter in place
    ret

vars == <<meta, row, held, taken, stale, ret>>

Init ==
    /\ meta = [k \in Keys |-> Absent]
    /\ row = [k \in Keys |-> <<>>]
    /\ held = [k \in Keys |-> {}]
    /\ taken = [k \in Keys |-> <<>>]
    /\ stale = {}
    /\ ret = <<>>

\* An empty filter is a filter.
Live(k) == meta[k] # Absent /\ ~meta[k].lapsed

Created(cap, exp) == [n |-> 1, exp |-> exp, cap |-> cap, size |-> 0, lapsed |-> FALSE]

----------------------------------------------------------------------------
(* Capacities.                                                             *)

\* The i-th sub-filter, from 1 (sub_filter_capacity).
SubCapacity(m, i) ==
    IF m.exp <= 1 \/ i = 1 THEN m.cap ELSE Min({m.cap * m.exp ^ (i - 1), MaxCapacity})

\* Mutant: the chain is taken to hold what a further sub-filter would.
GeometricFurther(m) ==
    IF m.exp = 0 \/ m.n <= 1 THEN m.cap
    ELSE IF m.exp = 1 THEN m.cap * m.n
    ELSE (m.cap * m.exp ^ m.n) \div (m.exp - 1)

\* calculate_geometric_capacity.
Geometric(m) ==
    IF m.exp = 0 \/ m.n <= 1 THEN m.cap
    ELSE IF m.exp = 1 THEN m.cap * m.n
    ELSE (m.cap * (m.exp ^ m.n - 1)) \div (m.exp - 1)

\* get_capacity.
Capacity(m) == Min({Geometric(m), MaxCapacity})

----------------------------------------------------------------------------
(* One row: a number of blocks and the bits set, each with its block.      *)

Zeroed(cap) == [blocks |-> BlocksFor(cap), bits |-> {}]

\* block_range and the salted bits of an item.
BitsOf(r, x) == {<<(High[x] * r.blocks) \div HighRange, w>> : w \in Mask[x]}

FindHash(r, x) == BitsOf(r, x) \subseteq r.bits
InsertHash(r, x) == [r EXCEPT !.bits = @ \cup BitsOf(r, x)]

----------------------------------------------------------------------------
(* BF.RESERVE.                                                             *)

BfReserve(k, cap, exp) ==
    /\ ~Live(k)
    /\ meta' = [meta EXCEPT ![k] = Created(cap, exp)]
    /\ row' = [row EXCEPT ![k] = IF @ = <<>> THEN <<Zeroed(cap)>> ELSE [@ EXCEPT ![1] = Zeroed(cap)]]
    /\ taken' = [taken EXCEPT ![k] = <<0>>]
    /\ stale' = stale \ {k}
    /\ ret' = <<"ok">>
    /\ UNCHANGED held

----------------------------------------------------------------------------
(* BF.ADD, BF.MADD and BF.INSERT.                                          *)

\* The rows of the chain as the call reads them: as long as they should be.
Loaded(k, m) ==
    [i \in 1 .. m.n |->
        IF i \in DOMAIN row[k]
        THEN [row[k][i] EXCEPT !.blocks = Max({@, BlocksFor(SubCapacity(m, i))})]
        ELSE Zeroed(SubCapacity(m, i))]

\* The sub-filter that a full chain gets.
Grown(c) ==
    [c EXCEPT !.m.n = @ + 1,
              !.rows = Append(@, Zeroed(SubCapacity(c.m, c.m.n + 1))),
              !.taken = Append(@, 0)]

Put(c, x) ==
    [c EXCEPT !.rows[c.m.n] = InsertHash(@, x),
              !.m.size = @ + 1,
              !.taken[c.m.n] = @ + 1,
              !.out = Append(@, "ok")]

\* One item after the others of the call.
Insert(c, x) ==
    LET full == c.m.size + 1 > Capacity(c.m)
    IN  CASE \E i \in DOMAIN c.rows : FindHash(c.rows[i], x) -> [c EXCEPT !.out = Append(@, "exist")]
          [] OTHER -> IF ~full THEN Put(c, x)
                      ELSE IF c.m.exp # 0 /\ c.m.n < MaxFilters THEN Put(Grown(c), x)
                      ELSE [c EXCEPT !.out = Append(@, "full")]

\* The rows an answer is written to: those from the last one it began with.
\* Mutant: only the last one it ended with.
WrittenLast(k, c, n) ==
    [i \in 1 .. Max({Len(row[k]), c.m.n}) |->
        IF i = c.m.n \/ i \notin DOMAIN row[k] THEN c.rows[i] ELSE row[k][i]]
Written(k, c, n) ==
    [i \in 1 .. Max({Len(row[k]), c.m.n}) |->
        IF n <= i /\ i <= c.m.n THEN c.rows[i] ELSE row[k][i]]

\* bf_insert_internal.  Nothing is written when no item was taken.
BfInsert(k, xs, cap, exp) ==
    LET m == IF Live(k) THEN meta[k] ELSE Created(cap, exp)
        c == FoldLeft(Insert,
                      [m |-> m, rows |-> Loaded(k, m), out |-> <<>>,
                       taken |-> IF Live(k) THEN taken[k] ELSE <<0>>], xs)
        told == {xs[i] : i \in {j \in DOMAIN xs : c.out[j] # "full"}}
    IN  /\ IF \E i \in DOMAIN xs : c.out[i] = "ok"
           THEN /\ meta' = [meta EXCEPT ![k] = c.m]
                /\ row' = [row EXCEPT ![k] = Written(k, c, m.n)]
                /\ taken' = [taken EXCEPT ![k] = c.taken]
           ELSE UNCHANGED <<meta, row, taken>>
        /\ held' = [held EXCEPT ![k] = @ \cup told]
        /\ ret' = c.out
        /\ UNCHANGED stale

\* With NOCREATE.
BfInsertNoCreate(k) ==
    /\ ~Live(k)
    /\ ret' = <<"not found">>
    /\ UNCHANGED <<meta, row, held, taken, stale>>

\* bf_exists, bf_mexists: a row that is missing has nothing.
BfExists(k, x) ==
    Live(k) /\ \E i \in 1 .. meta[k].n : i \in DOMAIN row[k] /\ FindHash(row[k][i], x)

\* The record's expiry passes; its rows stay.
Lapse(k) ==
    /\ Live(k)
    /\ meta' = [meta EXCEPT ![k].lapsed = TRUE]
    /\ held' = [held EXCEPT ![k] = {}]
    /\ stale' = stale \cup {k}
    /\ ret' = <<>>
    /\ UNCHANGED <<row, taken>>

Next ==
    \/ \E k \in Keys, cap \in Capacities, exp \in Expansions : BfReserve(k, cap, exp)
    \/ \E k \in Keys, xs \in Batches : \E cap \in Capacities, exp \in Expansions :
        (Live(k) => cap = Min(Capacities) /\ exp = Min(Expansions)) /\ BfInsert(k, xs, cap, exp)
    \/ \E k \in Keys : BfInsertNoCreate(k)
    \/ \E k \in Keys : Lapse(k)

Spec == Init /\ [][Next]_vars

----------------------------------------------------------------------------
\* Bound: no claim is made about a filter that BF.ADD began on the rows of an
\* expired one, which answers for the old items.
Kept == \A k \in stale : ~Live(k) /\ held[k] = {}

(* A chain has a row for each sub-filter and no more items than capacity.  *)
TypeOK ==
    \A k \in Keys : Live(k) /\ k \notin stale =>
        /\ meta[k].n \in 1 .. MaxFilters /\ 1 .. meta[k].n \subseteq DOMAIN row[k]
        /\ meta[k].size \in 0 .. Capacity(meta[k])

(* An item that BF.ADD said was added, or there already, is found until    *)
(* the filter expires, however the chain grew since (bf_insert_internal,   *)
(* bf_exists).                                                             *)
NoFalseNegatives ==
    \A k \in Keys \ stale : \A x \in held[k] : BfExists(k, x)

(* No sub-filter takes more items than the capacity its size was computed  *)
(* for, and none is added before those before it are full: past that the   *)
(* error rate is not the one asked for (get_capacity against               *)
(* sub_filter_capacity, unless the sum is cut at the largest u32).         *)
LoadsBounded ==
    \A k \in Keys \ stale : Live(k) =>
        /\ \A i \in DOMAIN taken[k] : taken[k][i] <= SubCapacity(meta[k], i)
        /\ Geometric(meta[k]) <= MaxCapacity =>
            \A i \in 1 .. Len(taken[k]) - 1 : taken[k][i] = SubCapacity(meta[k], i)
=============================================================================
