--------------------------- MODULE SortedIntStore ---------------------------
(***************************************************************************)
(* The sorted integers of embed/src/api/sortedint: sets of ids whose rows  *)
(* lie in the order of the ids, big-endian in the key.  Ranges are taken   *)
(* by id, by rank and by page, where the cursor of a page is the last id   *)
(* of the page before and 0 means the beginning, although 0 is an id.      *)
(*                                                                         *)
(* One caller at a time, one atomic batch per handler; a key here holds    *)
(* sorted integers or nothing.  Beside the caller a client pages through   *)
(* one key while it changes.                                               *)
(***************************************************************************)
EXTENDS Integers, FiniteSets, SequencesExt

CONSTANTS
    Keys, Members, Batches, Counts, Operands, Spans, Ranks,   \* as in RedisSets
    MaxId,       \* u64::MAX, made small
    Scanned,     \* the keys a client pages through
    PageSize,    \* its limit
    Absent       \* no record

Metas == [size : Nat, lapsed : BOOLEAN]

SortedIntAssumption ==
    /\ MaxId \in Nat
    /\ Members \subseteq 0 .. MaxId
    /\ PageSize \in Nat \ {0}
    /\ Scanned \subseteq Keys
    /\ \A b \in Batches : ToSet(b) \subseteq Members
    /\ Spans \subseteq [min : 0 .. MaxId, minex : BOOLEAN, max : 0 .. MaxId, maxex : BOOLEAN]
    /\ Ranks \subseteq Int \X Int
    /\ Absent \notin Metas

VARIABLES
    meta,        \* the metadata record of each key; lapsed once its expiry passed
    row,         \* the ids that have a row
    scan,        \* where the paging client is
    asked, ret   \* the last call and its answer

vars == <<meta, row, scan, asked, ret>>

Idle == [key |-> Absent, reversed |-> FALSE, cursor |-> 0, seen |-> {}, due |-> {},
         again |-> FALSE, over |-> TRUE]

Init ==
    /\ meta = [k \in Keys |-> Absent]
    /\ row = [k \in Keys |-> {}]
    /\ scan = Idle
    /\ asked = <<>>
    /\ ret = 0

Live(k) == meta[k] # Absent /\ meta[k].size > 0 /\ ~meta[k].lapsed
Elements(k) == IF Live(k) THEN row[k] ELSE {}

Reply(r) == ret' = r /\ UNCHANGED <<meta, row>>

\* commit_deleted_meta, and the end of si_add and si_rem.
Commit(k, m, rows, r) ==
    /\ meta' = [meta EXCEPT ![k] = IF m.size = 0 THEN Absent ELSE m]
    /\ row' = [row EXCEPT ![k] = rows]
    /\ ret' = r

\* prepare_si_meta_for_write: new sorted integers begin with no rows.
Prepared(k) ==
    IF Live(k) THEN [m |-> meta[k], rows |-> row[k]]
    ELSE [m |-> [size |-> 0, lapsed |-> FALSE], rows |-> {}]

\* si_add_one, si_add.
SiAdd(k, b) ==
    LET p == Prepared(k)
        new == ToSet(b) \ p.rows
    IN  IF new = {} THEN Reply(0)
        ELSE Commit(k, [p.m EXCEPT !.size = @ + Cardinality(new)], p.rows \cup new,
                    Cardinality(new))

\* Rows go with their count; a count below its rows stops at 0.
Drop(k, gone) ==
    IF gone = {} THEN Reply(0)
    ELSE Commit(k, [meta[k] EXCEPT !.size = IF @ < Cardinality(gone) THEN 0
                                            ELSE @ - Cardinality(gone)],
                row[k] \ gone, Cardinality(gone))

\* si_rem_one, si_rem.
SiRem(k, b) == Drop(k, ToSet(b) \cap Elements(k))

\* is_empty_range: open ends count as the next integer inside, unless there
\* is none.
IsEmptyRange(s) ==
    \/ s.min > s.max
    \/ s.minex /\ s.min = MaxId
    \/ s.maxex /\ s.max = 0
    \/ (IF s.minex THEN s.min + 1 ELSE s.min) > (IF s.maxex THEN s.max - 1 ELSE s.max)

IsAll(s) == ~s.minex /\ ~s.maxex /\ s.min = 0 /\ s.max = MaxId

\* The rows between the bounds of a span, as the ordered store gives them.
Between(k, s) ==
    {m \in row[k] : /\ IF s.minex THEN s.min < m ELSE s.min <= m
                    /\ IF s.maxex THEN m < s.max ELSE m <= s.max}

\* All rows and the record, answered from the record.
Clear(k) ==
    /\ meta' = [meta EXCEPT ![k] = Absent]
    /\ row' = [row EXCEPT ![k] = {}]
    /\ ret' = meta[k].size

RemRangeByValue(k, s) ==
    IF IsEmptyRange(s) \/ ~Live(k) THEN Reply(0)
    ELSE IF IsAll(s) THEN Clear(k)
    ELSE Drop(k, Between(k, s))

\* si_count.
Count(k, s) ==
    IF IsEmptyRange(s) \/ ~Live(k) THEN 0
    ELSE IF IsAll(s) THEN meta[k].size
    ELSE Cardinality(Between(k, s))

\* normalize_range.
Normalized(r, len) ==
    LET s == IF r[1] < 0 THEN len + r[1] ELSE r[1]
        e == IF r[2] < 0 THEN len + r[2] ELSE r[2]
    IN  <<IF s < 0 THEN 0 ELSE s, IF e >= len THEN len - 1 ELSE e>>

RankOf(k, m) == Cardinality({n \in row[k] : n < m})

RemRangeByRank(k, r) ==
    LET n == Normalized(r, meta[k].size)
    IN  IF ~Live(k) THEN Reply(0)
        ELSE IF n[1] > n[2] THEN Reply(0)
        ELSE IF n[1] = 0 /\ n[2] + 1 >= meta[k].size THEN Clear(k)
        ELSE Drop(k, {m \in row[k] : n[1] <= RankOf(k, m) /\ RankOf(k, m) <= n[2]})

\* si_rank and si_revrank, -1 for none.
SiRank(k, m) == IF m \in Elements(k) THEN RankOf(k, m) ELSE -1
SiRevRank(k, m) ==
    IF m \in Elements(k)
    THEN LET last == meta[k].size - 1
         IN  IF last < RankOf(k, m) THEN 0 ELSE last - RankOf(k, m)
    ELSE -1

----------------------------------------------------------------------------
(* Paging.                                                                 *)

\* The first n of S in the order of ids, or in the opposite order.
FirstOf(S, n, reversed) ==
    {m \in S : Cardinality({x \in S : IF reversed THEN x > m ELSE x < m}) < n}

\* Mutant: the cursor itself is returned again.
SiRangeAgain(k, cursor, limit, reversed) ==
    FirstOf({m \in Elements(k) : cursor = 0 \/ IF reversed THEN m <= cursor ELSE m >= cursor},
            limit, reversed)

\* si_range: from the cursor on, without it; a cursor of 0 excludes nothing.
SiRange(k, cursor, limit, reversed) ==
    FirstOf({m \in Elements(k) : cursor = 0 \/ IF reversed THEN m < cursor ELSE m > cursor},
            limit, reversed)

FurthestOf(S, reversed) == CHOOSE m \in S : \A x \in S : IF reversed THEN m <= x ELSE x <= m

ScanBegin(k, reversed) ==
    /\ scan.over
    /\ scan' = [Idle EXCEPT !.reversed = reversed, !.key = k, !.due = Elements(k), !.over = FALSE]
    /\ UNCHANGED <<meta, row, asked, ret>>

\* The client stops at a page that is not full, or at id 0, which as a cursor
\* would take it back to the beginning: it cannot go on from there.
ScanStep ==
    LET page == SiRange(scan.key, scan.cursor, PageSize, scan.reversed)
        last == IF page = {} THEN 0 ELSE FurthestOf(page, scan.reversed)
    IN  /\ ~scan.over
        /\ scan' = [scan EXCEPT !.seen = @ \cup page, !.cursor = last,
                                !.again = @ \/ page \cap scan.seen # {},
                                !.over = Cardinality(page) < PageSize \/ last = 0]
        /\ UNCHANGED <<meta, row, asked, ret>>

\* History: what the scan must return is what has been there all along.
Watch ==
    scan' = IF scan.over THEN scan
            ELSE LET k == scan.key
                 IN  [scan EXCEPT !.due = @ \cap IF meta'[k] = Absent \/ meta'[k].lapsed
                                                 THEN {} ELSE row'[k]]

----------------------------------------------------------------------------

\* What expiry, DEL and the sweep do.
Lapse(k) ==
    /\ Live(k)
    /\ meta' = [meta EXCEPT ![k].lapsed = TRUE]
    /\ UNCHANGED <<row, ret>>

Erase(k) ==
    /\ meta[k] # Absent
    /\ meta' = [meta EXCEPT ![k] = Absent]
    /\ row' = [row EXCEPT ![k] = {}]
    /\ UNCHANGED ret

Call(k) ==
    \/ \E b \in Batches : \/ asked' = <<"add", k, b>> /\ SiAdd(k, b)
                          \/ asked' = <<"remove", k, b>> /\ SiRem(k, b)
    \/ \E s \in Spans : \/ asked' = <<"remspan", k, s>> /\ RemRangeByValue(k, s)
                        \/ asked' = <<"count", k, s>> /\ Reply(Count(k, s))
    \/ \E r \in Ranks : asked' = <<"remrank", k, r>> /\ RemRangeByRank(k, r)
    \/ asked' = <<"vanish", k>> /\ (Lapse(k) \/ Erase(k))

Next ==
    \/ \E k \in Keys : Call(k) /\ Watch
    \/ \E k \in Scanned, reversed \in BOOLEAN : ScanBegin(k, reversed)
    \/ ScanStep

Spec == Init /\ [][Next]_vars

----------------------------------------------------------------------------
(* Properties.                                                             *)

(* The variables have their types.                                         *)
TypeOK ==
    /\ meta \in [Keys -> Metas \cup {Absent}]
    /\ row \in [Keys -> SUBSET Members]
    /\ scan.seen \subseteq Members /\ scan.due \subseteq Members

(* A record's size is the number of its rows and never 0, and no row lies  *)
(* without a record: ranks from the end and whole ranges are answered from *)
(* the size (si_revrank, si_count).                                        *)
SizeExact ==
    \A k \in Keys :
        IF meta[k] = Absent THEN row[k] = {}
        ELSE meta[k].size > 0 /\ meta[k].size = Cardinality(row[k])

Sets == INSTANCE RedisSets WITH held <- [k \in Keys |-> Elements(k)]

(* Ranks from both ends agree with the order of the ids, and what a span    *)
(* counts, answered from the record or from the rows, is what lies in it:   *)
(* with ends excluded, past the largest id and below zero (si_rank,         *)
(* si_revrank, si_count).                                                   *)
ReadsExact ==
    \A k \in Keys :
        /\ \A m \in Elements(k) :
            /\ SiRank(k, m) = Cardinality({n \in Elements(k) : n < m})
            /\ SiRevRank(k, m) = Cardinality({n \in Elements(k) : n > m})
        /\ \A s \in Spans : Count(k, s) = Cardinality(Sets!Within(k, s))

(* Paging in either direction, while ids come and go, returns every id     *)
(* that stays from the first page to the last, and none twice (si_range),  *)
(* except upwards past a page that is just id 0.                           *)
ScanComplete ==
    /\ scan.over /\ ~(scan.seen = {0} /\ ~scan.reversed) => scan.due \subseteq scan.seen
    /\ ~scan.again

(* The store implements sets under every command, by id and by rank.       *)
ImplementsRedisSets == Sets!Init /\ [][Sets!IntNext]_(Sets!vars)
=============================================================================
