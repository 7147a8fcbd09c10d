------------------------------ MODULE CuckooStore -----------------------------
(***************************************************************************)
(* The cuckoo filters of embed/src/api/bloom/cuckoo.rs.  A filter is a     *)
(* chain of tables of buckets; a bucket has some slots, each empty or with *)
(* the fingerprint of an item.  An item belongs in one of two buckets of a *)
(* table, and either is computed from the other and the fingerprint alone, *)
(* so that an item can be moved without being known.                       *)
(*                                                                         *)
(* The code keeps a table in pages of several buckets; a bucket whose page *)
(* was never written is empty, and so is a bucket here.  One caller; an    *)
(* action is a handler with its one batch.                                 *)
(***************************************************************************)
EXTENDS Integers, Sequences, FiniteSets

LOCAL INSTANCE Bitwise
LOCAL INSTANCE FiniteSetsExt
LOCAL INSTANCE SequencesExt

CONSTANTS
    Keys, Items,
    Hash,            \* of each item
    Fp,              \* the fingerprint of each item, from 1 (generate_fingerprint)
    Spread,          \* of each fingerprint: its product in get_alt_hash
    BucketsFor(_),   \* the buckets of a table of a capacity, a power of two
    Slots,           \* in a bucket
    Capacities, Expansions, Iterations,
    Batches,         \* the items of one call
    MaxFilters,      \* the largest u16, a bound of the model
    Absent

CuckooAssumption ==
    /\ Hash \in [Items -> Nat] /\ Fp \in [Items -> Nat \ {0}]
    /\ \A x \in Items : Spread[Fp[x]] \in Nat
    /\ Slots \in Nat \ {0} /\ \A n \in Iterations : n \in Nat \ {0}

VARIABLES
    meta,      \* the record of each key
    table,     \* its tables: the slots of each bucket
    held,      \* ghost: how often each item was added and not deleted
    odd,       \* ghost: the keys that no claim is made about
    ret

vars == <<meta, table, held, odd, ret>>

None == [x \in Items |-> 0]
Init ==
    /\ meta = [k \in Keys |-> Absent]
    /\ table = [k \in Keys |-> <<>>]
    /\ held = [k \in Keys |-> None]
    /\ odd = {}
    /\ ret = <<>>

\* An empty filter is a filter.
Live(k) == meta[k] # Absent /\ ~meta[k].lapsed

Created(cap, exp, iters) ==
    [n |-> 1, exp |-> exp, cap |-> cap, iters |-> iters, size |-> 0, lapsed |-> FALSE]

----------------------------------------------------------------------------
(* Tables.  A table is a function from its buckets; t is a sequence of     *)
(* them and i the number of one, from 1.                                   *)

\* sub_filter_num_buckets.
Buckets(m, i) == BucketsFor(IF m.exp = 1 \/ i = 1 THEN m.cap ELSE m.cap * m.exp ^ (i - 1))
Empty(m, i) == [b \in 0 .. Buckets(m, i) - 1 |-> [s \in 1 .. Slots |-> 0]]

\* get_alt_bucket_index: from a bucket to the other, and back.
Other(b, fp, n) == (b ^^ Spread[fp]) % n

\* The buckets of an item in table i, the first and then the other.
Homes(m, i, x) ==
    LET first == Hash[x] % Buckets(m, i)
        other == Other(first, Fp[x], Buckets(m, i))
    IN  IF first = other THEN <<first>> ELSE <<first, other>>

\* The places, table, bucket and slot, where an item's fingerprint is, or where
\* value v is in its buckets.  Newest table first, as every command looks.
Where(m, t, x, v) ==
    {<<i, j, s>> \in (1 .. m.n) \X {1, 2} \X (1 .. Slots) :
        j <= Len(Homes(m, i, x)) /\ t[i][Homes(m, i, x)[j]][s] = v}
Foremost(P) ==
    CHOOSE p \in P : \A q \in P :
        \/ p[1] > q[1]
        \/ p[1] = q[1] /\ (p[2] < q[2] \/ (p[2] = q[2] /\ p[3] <= q[3]))
Replaced(m, t, x, p, v) == [t EXCEPT ![p[1]][Homes(m, p[1], x)[p[2]]][p[3]] = v]

----------------------------------------------------------------------------
(* Kicking out: the item takes the place of another, which moves to its    *)
(* other bucket if that has room, or takes the place of a third there.     *)

\* What apply_undo_log makes of the table: the changes undone, last first.
\* Mutant: undone in the order they were made.
UndoneForward(t, log) == FoldLeft(LAMBDA u, e : [u EXCEPT ![e[1]][e[2]] = e[3]], t, log)
Undone(t, log) == FoldRight(LAMBDA e, u : [u EXCEPT ![e[1]][e[2]] = e[3]], log, t)

\* One turn: `slot` is the victim's.
Kick(c, slot, n) ==
    LET old == c.t[c.b][slot]
        t1 == [c.t EXCEPT ![c.b][slot] = c.fp]
        log1 == Append(c.log, <<c.b, slot, old>>)
        b2 == Other(c.b, old, n)
        free == {s \in 1 .. Slots : t1[b2][s] = 0}
    IN  CASE c.done -> c
          [] ~c.done /\ old = 0 -> [c EXCEPT !.t = t1, !.log = log1, !.done = TRUE]
          [] OTHER -> IF free # {}
                      THEN [c EXCEPT !.t = [t1 EXCEPT ![b2][Min(free)] = old],
                                     !.log = Append(log1, <<b2, Min(free), 0>>), !.done = TRUE]
                      ELSE [c EXCEPT !.t = t1, !.log = log1, !.b = b2, !.fp = old]

\* try_cuckoo_kickout, with the random slots it draws: the table after it and
\* whether it took the item.
KickedOut(t, x, n, slots) ==
    LET c == FoldLeft(LAMBDA d, s : Kick(d, s, n),
                      [t |-> t, b |-> Hash[x] % n, fp |-> Fp[x], log |-> <<>>, done |-> FALSE],
                      slots)
    IN  [t |-> IF c.done THEN c.t ELSE Undone(c.t, c.log), done |-> c.done]

----------------------------------------------------------------------------
(* CF.RESERVE.  Only the record is written.                                *)

CfReserve(k, cap, exp, iters) ==
    /\ ~Live(k)
    /\ meta' = [meta EXCEPT ![k] = Created(cap, exp, iters)]
    /\ table' = [table EXCEPT ![k] = IF @ = <<>> THEN <<Empty(Created(cap, exp, iters), 1)>> ELSE @]
    /\ held' = [held EXCEPT ![k] = None]
    /\ odd' = IF table[k] = <<>> THEN odd ELSE odd \cup {k}
    /\ ret' = <<"ok">>

----------------------------------------------------------------------------
(* CF.ADD, CF.ADDNX, CF.INSERT and CF.INSERTNX.                            *)

\* An item in an empty slot, in the newest table that has one; or by kicking
\* out in the last table; or in a new table; or nowhere.
Insert(c, x, nx, slots) ==
    LET m == c.m
        free == Where(m, c.t, x, 0)
        kicked == KickedOut(c.t[m.n], x, Buckets(m, m.n), slots)
        larger == [m EXCEPT !.n = @ + 1]
        grown == Append([c.t EXCEPT ![m.n] = kicked.t], Empty(larger, larger.n))
        took(d, t) == [d EXCEPT !.t = t, !.m.size = @ + 1, !.out = Append(@, TRUE)]
    IN  CASE c.full -> c
          [] ~c.full /\ nx /\ Where(m, c.t, x, Fp[x]) # {} -> [c EXCEPT !.out = Append(@, FALSE)]
          [] OTHER ->
               IF free # {} THEN took(c, Replaced(m, c.t, x, Foremost(free), Fp[x]))
               ELSE IF kicked.done THEN took(c, [c.t EXCEPT ![m.n] = kicked.t])
               ELSE IF m.exp # 0 /\ m.n < MaxFilters
               THEN took([c EXCEPT !.m = larger],
                         Replaced(larger, grown, x, <<larger.n, 1, 1>>, Fp[x]))
               ELSE [c EXCEPT !.full = TRUE]

\* One item that finds no place, and nothing of the call is written.
\* Mutant: the pages are.
RefuseDirty(k, c) ==
    /\ table' = [table EXCEPT ![k] = c.t]
    /\ ret' = <<"full">>
    /\ UNCHANGED <<meta, held, odd>>
Refuse(k, c) ==
    /\ ret' = <<"full">>
    /\ UNCHANGED <<meta, table, held, odd>>

\* raw_cf_insert.
CfInsert(k, xs, nx, m, slots) ==
    LET c == FoldLeft(LAMBDA d, x : Insert(d, x, nx, slots),
                      [m |-> m, out |-> <<>>, full |-> FALSE,
                       t |-> IF table[k] = <<>> THEN <<Empty(m, 1)>> ELSE table[k]], xs)
        added(x) == Cardinality({i \in DOMAIN xs : xs[i] = x /\ c.out[i]})
    IN  \/ c.full /\ Refuse(k, c)
        \/ /\ ~c.full
           /\ meta' = [meta EXCEPT ![k] = c.m]
           /\ table' = [table EXCEPT ![k] = c.t]
           /\ held' = [held EXCEPT ![k] = [x \in Items |-> (IF Live(k) THEN @[x] ELSE 0) + added(x)]]
           /\ odd' = IF Live(k) \/ table[k] = <<>> THEN odd ELSE odd \cup {k}
           /\ ret' = c.out

----------------------------------------------------------------------------
(* CF.DEL, CF.EXISTS, CF.MEXISTS and CF.COUNT.                             *)

CfExists(k, x) == Live(k) /\ Where(meta[k], table[k], x, Fp[x]) # {}
CfCount(k, x) == IF Live(k) THEN Cardinality(Where(meta[k], table[k], x, Fp[x])) ELSE 0

\* The place that an item is deleted from: in the newest table first.
\* Mutant: in the oldest.
TakenOldest(k, x) ==
    LET P == Where(meta[k], table[k], x, Fp[x])
    IN  CHOOSE p \in P : \A q \in P : p[1] <= q[1]
Taken(k, x) == Foremost(Where(meta[k], table[k], x, Fp[x]))

\* cf_del.  To delete what was never added may take another item's place: no
\* claim is made about such a filter.
CfDel(k, x) ==
    /\ CfExists(k, x)
    /\ table' = [table EXCEPT ![k] = Replaced(meta[k], @, x, Taken(k, x), 0)]
    /\ meta' = [meta EXCEPT ![k].size = IF @ = 0 THEN 0 ELSE @ - 1]
    /\ held' = [held EXCEPT ![k][x] = IF @ = 0 THEN 0 ELSE @ - 1]
    /\ odd' = IF held[k][x] = 0 THEN odd \cup {k} ELSE odd
    /\ ret' = <<TRUE>>

CfDelNone(k, x) ==
    /\ ~CfExists(k, x)
    /\ ret' = <<FALSE>>
    /\ UNCHANGED <<meta, table, held, odd>>

\* The record's expiry passes; its pages stay.
Lapse(k) ==
    /\ Live(k)
    /\ meta' = [meta EXCEPT ![k].lapsed = TRUE]
    /\ held' = [held EXCEPT ![k] = None]
    /\ ret' = <<>>
    /\ UNCHANGED <<table, odd>>

Next ==
    \/ \E k \in Keys, cap \in Capacities, exp \in Expansions, iters \in Iterations :
        CfReserve(k, cap, exp, iters)
    \/ \E k \in Keys, xs \in Batches, nx \in BOOLEAN :
        \/ Live(k) /\ \E slots \in [1 .. meta[k].iters -> 1 .. Slots] : CfInsert(k, xs, nx, meta[k], slots)
        \/ ~Live(k) /\ \E cap \in Capacities, exp \in Expansions, iters \in Iterations :
            \E slots \in [1 .. iters -> 1 .. Slots] : CfInsert(k, xs, nx, Created(cap, exp, iters), slots)
    \/ \E k \in Keys, x \in Items : CfDel(k, x) \/ CfDelNone(k, x)
    \/ \E k \in Keys : Lapse(k)

Spec == Init /\ [][Next]_vars

----------------------------------------------------------------------------
\* Bound: no claim is made about a filter begun on the pages of an expired one,
\* nor about one that lost an item it was never given.
Kept == odd = {}

(* Each table is whole and the chain within its bound.                     *)
TypeOK ==
    \A k \in Keys \ odd : Live(k) =>
        /\ meta[k].n \in 1 .. MaxFilters /\ DOMAIN table[k] = 1 .. meta[k].n
        /\ \A i \in 1 .. meta[k].n : \A b \in DOMAIN table[k][i] :
            table[k][i][b] \in [1 .. Slots -> {0} \cup {Fp[x] : x \in Items}]

(* An item is counted at least as often as it was added and not deleted,   *)
(* whatever was kicked out, undone, deleted or added in between, while     *)
(* items share fingerprints and buckets (try_cuckoo_kickout, cf_del).      *)
NoFalseNegatives ==
    \A k \in Keys \ odd : \A x \in Items :
        held[k][x] > 0 => CfExists(k, x) /\ CfCount(k, x) >= held[k][x]

(* CF.CARD is the number of slots taken, also after a call that kicked     *)
(* items out and was undone, or that failed as a whole (raw_cf_insert).    *)
SizeExact ==
    \A k \in Keys \ odd : Live(k) =>
        meta[k].size = FoldLeft(LAMBDA a, i : a +
            Cardinality({<<b, s>> \in (DOMAIN table[k][i]) \X (1 .. Slots) : table[k][i][b][s] # 0}),
            0, [i \in 1 .. meta[k].n |-> i])
=============================================================================
