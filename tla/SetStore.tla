------------------------------ MODULE SetStore ------------------------------
(***************************************************************************)
(* The sets of embed/src/api/set.  A set is a metadata record with a size  *)
(* and one row per member; a row does not say of which generation of the   *)
(* set it is, so an expired set that is written again must first lose its  *)
(* rows.  The algebra commands read several sets and may overwrite one of  *)
(* them.                                                                   *)
(*                                                                         *)
(* One caller at a time: each action is a whole handler with its one       *)
(* atomic batch.  Records of other types belong to Keyspace; a key here    *)
(* holds a set or nothing.  Beside the caller a client pages through one   *)
(* set, and the set changes between its pages.                             *)
(***************************************************************************)
EXTENDS Integers, FiniteSets, SequencesExt

CONSTANTS
    Keys, Members, Batches, Counts, Operands, Spans, Ranks,   \* as in RedisSets
    Scanned,     \* the keys a client pages through
    PageSize,    \* its COUNT
    Absent       \* no record

Metas == [size : Nat, lapsed : BOOLEAN]

\* A member is the number of its key in their order; 0 is the cursor before all.
SetAssumption ==
    /\ Members \subseteq Nat \ {0}
    /\ IsFiniteSet(Members)
    /\ PageSize \in Nat \ {0}
    /\ Counts \subseteq Nat \ {0}
    /\ Scanned \subseteq Keys
    /\ Batches \subseteq Seq(Members)
    /\ Operands \subseteq Seq(Keys) \ {<<>>}
    /\ Absent \notin Metas

VARIABLES
    meta,        \* the metadata record of each key; lapsed once its expiry passed
    row,         \* the members that have a row
    scan,        \* where the paging client is
    asked, ret   \* the last call and its answer

vars == <<meta, row, scan, asked, ret>>

\* No scan under way.
Idle == [by |-> "member", key |-> Absent, next |-> 0, seen |-> {}, due |-> {},
         shrunk |-> FALSE, over |-> TRUE]

Init ==
    /\ meta = [k \in Keys |-> Absent]
    /\ row = [k \in Keys |-> {}]
    /\ scan = Idle
    /\ asked = <<>>
    /\ ret = 0

----------------------------------------------------------------------------
(* Reading.                                                                *)

\* get_meta_checked, and `if m.base.size > 0` of the readers.
Live(k) == meta[k] # Absent /\ meta[k].size > 0 /\ ~meta[k].lapsed

\* siter and smembers; scard.
Elements(k) == IF Live(k) THEN row[k] ELSE {}
Size(k) == IF Live(k) THEN meta[k].size ELSE 0

\* compute_sinter_set: an empty operand ends it.
Inter(ks) ==
    IF \E i \in 1 .. Len(ks) : Size(ks[i]) = 0 THEN {}
    ELSE {m \in Elements(ks[1]) : \A i \in 2 .. Len(ks) : m \in Elements(ks[i])}

\* compute_sunion_set.
Union(ks) == UNION {Elements(ks[i]) : i \in 1 .. Len(ks)}

\* Mutant: an empty operand ends the difference as it ends an intersection.
DiffEnded(ks) ==
    IF \E i \in 1 .. Len(ks) : Size(ks[i]) = 0 THEN {}
    ELSE Elements(ks[1]) \ UNION {Elements(ks[i]) : i \in 2 .. Len(ks)}

\* compute_sdiff_set: an empty subtrahend is passed over.
Diff(ks) ==
    IF Size(ks[1]) = 0 THEN {}
    ELSE Elements(ks[1]) \ UNION {Elements(ks[i]) : i \in {j \in 2 .. Len(ks) : Size(ks[j]) > 0}}

Ops == {"inter", "union", "diff"}
Combined(op, ks) ==
    CASE op = "inter" -> Inter(ks) [] op = "union" -> Union(ks) [] op = "diff" -> Diff(ks)

\* apply_set_limit, apply_card_limit: one operand is answered from its record.
Card(op, ks, limit) ==
    LET n == IF Len(ks) = 1 THEN Size(ks[1]) ELSE Cardinality(Combined(op, ks))
    IN  IF limit > 0 /\ limit < n THEN limit ELSE n

----------------------------------------------------------------------------
(* Writing.                                                                *)

Reply(r) == ret' = r /\ UNCHANGED <<meta, row>>

Less(n, m) == IF n < m THEN 0 ELSE n - m

\* commit_set_batch: an empty set loses its record.
Commit(k, m, rows, r) ==
    /\ meta' = [meta EXCEPT ![k] = IF m.size = 0 THEN Absent ELSE m]
    /\ row' = [row EXCEPT ![k] = rows]
    /\ ret' = r

\* Mutant: the rows of an expired set stay under the new one.
PreparedStale(k) ==
    [m |-> IF Live(k) THEN meta[k] ELSE [size |-> 0, lapsed |-> FALSE], rows |-> row[k]]

\* prepare_set_meta_for_write: a new set begins with its rows cleared.
Prepared(k) ==
    IF Live(k) THEN [m |-> meta[k], rows |-> row[k]]
    ELSE [m |-> [size |-> 0, lapsed |-> FALSE], rows |-> {}]

\* Mutant: a member given twice is counted twice.
SAddCounted(k, b) ==
    LET p == Prepared(k)
        n == Cardinality({i \in 1 .. Len(b) : b[i] \notin p.rows})
    IN  IF n = 0 THEN Reply(0)
        ELSE Commit(k, [p.m EXCEPT !.size = @ + n], p.rows \cup ToSet(b), n)

\* sadd_one, sadd: members already there, or given twice, do not count.
SAdd(k, b) ==
    LET p == Prepared(k)
        new == ToSet(b) \ p.rows
    IN  IF new = {} THEN Reply(0)
        ELSE Commit(k, [p.m EXCEPT !.size = @ + Cardinality(new)], p.rows \cup new,
                    Cardinality(new))

\* srem_one, srem.
SRem(k, b) ==
    LET gone == ToSet(b) \cap Elements(k)
    IN  IF gone = {} THEN Reply(0)
        ELSE Commit(k, [meta[k] EXCEPT !.size = Less(@, Cardinality(gone))], row[k] \ gone,
                    Cardinality(gone))

\* The row at a position of the order of the keys.
AtRank(S, i) == {m \in S : Cardinality({n \in S : n < m}) = i}

\* spop_one: the target is drawn from the record's size and looked for among
\* the rows.
PopOne(k) ==
    \/ ~Live(k) /\ Reply({})
    \/ /\ Live(k)
       /\ \E target \in 0 .. (Size(k) - 1) :
             LET hit == AtRank(row[k], target)
             IN  IF hit = {} THEN Reply({})
                 ELSE Commit(k, [meta[k] EXCEPT !.size = Less(@, 1)], row[k] \ hit, hit)

\* spop of more than one: all the rows, or any n of them.
PopMany(k, n) ==
    \/ Elements(k) = {} /\ Reply({})
    \/ /\ Elements(k) # {} /\ n >= Cardinality(row[k])
       /\ Commit(k, [meta[k] EXCEPT !.size = 0], {}, row[k])
    \/ /\ Elements(k) # {} /\ n < Cardinality(row[k])
       /\ \E S \in SUBSET row[k] :
             /\ Cardinality(S) = n
             /\ Commit(k, [meta[k] EXCEPT !.size = Less(@, n)], row[k] \ S, S)

SPop(k, n) == IF n = 1 THEN PopOne(k) ELSE PopMany(k, n)

\* smove: the source's row and count go; the destination gains unless it has
\* the member already.
Transfer(s, d, m) ==
    LET p == Prepared(d)
        left == Less(Size(s), 1)
        new == m \notin p.rows
    IN  /\ meta' = [meta EXCEPT ![s] = IF left = 0 THEN Absent ELSE [@ EXCEPT !.size = left],
                                ![d] = IF new THEN [p.m EXCEPT !.size = @ + 1] ELSE @]
        /\ row' = [row EXCEPT ![s] = @ \ {m}, ![d] = p.rows \cup {m}]
        /\ ret' = 1

SMove(s, d, m) ==
    \/ m \notin Elements(s) /\ Reply(0)
    \/ m \in Elements(s) /\ s = d /\ Reply(1)
    \/ m \in Elements(s) /\ s # d /\ Transfer(s, d, m)

\* overwrite_set_iter: the destination is cleared whatever it held.
Overwrite(d, S) ==
    /\ meta' = [meta EXCEPT ![d] = IF S = {} THEN Absent
                                   ELSE [size |-> Cardinality(S), lapsed |-> FALSE]]
    /\ row' = [row EXCEPT ![d] = S]
    /\ ret' = Cardinality(S)

\* sinterstore, sunionstore, sdiffstore: the operands are read first, so the
\* destination may be one of them.
Store(op, d, ks) == Overwrite(d, Combined(op, ks))

----------------------------------------------------------------------------
(* Paging.                                                                 *)

\* Up to n members of S in the order of the keys.
FirstOf(S, n) == {m \in S : Cardinality({x \in S : x < m}) < n}

Top(S) == CHOOSE m \in S : \A x \in S : x <= m

\* Mutant: the page begins after the first row from the cursor on, taking it
\* to be the cursor's own.
PageAfterSkip(k, m) ==
    LET from == {x \in Elements(k) : x >= m}
    IN  FirstOf(IF m = 0 THEN from ELSE from \ FirstOf(from, 1), PageSize)

\* sscan_by_member: the rows after the cursor, which is a member; it goes on
\* while pages are full.
PageAfter(k, m) == FirstOf({x \in Elements(k) : x > m}, PageSize)

ScanByMember ==
    LET page == PageAfter(scan.key, scan.next)
    IN  scan' = [scan EXCEPT !.seen = @ \cup page,
                             !.next = IF page = {} THEN 0 ELSE Top(page),
                             !.over = Cardinality(page) < PageSize]

\* sscan: the cursor counts the members already returned.
ScanByPosition ==
    LET elements == Elements(scan.key)
        before == FirstOf(elements, scan.next)
        page == FirstOf(elements \ before, PageSize)
    IN  scan' = [scan EXCEPT !.seen = @ \cup page,
                             !.next = @ + Cardinality(page),
                             !.over = elements = before \cup page]

ScanBegin(k, by) ==
    /\ scan.over
    /\ scan' = [Idle EXCEPT !.by = by, !.key = k, !.due = Elements(k), !.over = FALSE]
    /\ UNCHANGED <<meta, row, asked, ret>>

ScanStep ==
    /\ ~scan.over
    /\ IF scan.by = "member" THEN ScanByMember ELSE ScanByPosition
    /\ UNCHANGED <<meta, row, asked, ret>>

\* History: what the scan must return is what has been in the set all along.
Watch ==
    scan' = IF scan.over THEN scan
            ELSE LET k == scan.key
                     now == IF meta'[k] = Absent \/ meta'[k].lapsed THEN {} ELSE row'[k]
                 IN  [scan EXCEPT !.due = @ \cap now,
                                  !.shrunk = @ \/ ~(Elements(k) \subseteq now)]

----------------------------------------------------------------------------
(* What others do to a set's key.                                          *)

\* An expiry set by EXPIRE passes; the record and the rows stay.
Lapse(k) ==
    /\ Live(k)
    /\ meta' = [meta EXCEPT ![k].lapsed = TRUE]
    /\ UNCHANGED <<row, ret>>

\* DEL of a live set, or the sweep of an expired one.
Erase(k) ==
    /\ meta[k] # Absent
    /\ meta' = [meta EXCEPT ![k] = Absent]
    /\ row' = [row EXCEPT ![k] = {}]
    /\ UNCHANGED ret

Call(k) ==
    \/ \E b \in Batches : \/ asked' = <<"add", k, b>> /\ SAdd(k, b)
                          \/ asked' = <<"remove", k, b>> /\ SRem(k, b)
    \/ \E n \in Counts : asked' = <<"pop", k, n>> /\ SPop(k, n)
    \/ \E d \in Keys, m \in Members : asked' = <<"move", k, d, m>> /\ SMove(k, d, m)
    \/ \E op \in Ops, ks \in Operands : asked' = <<"store", op, k, ks>> /\ Store(op, k, ks)
    \/ asked' = <<"vanish", k>> /\ (Lapse(k) \/ Erase(k))

CallCard ==
    \E op \in Ops, ks \in Operands, n \in Counts \cup {0} :
        asked' = <<"card", op, ks, n>> /\ Reply(Card(op, ks, n))

Next ==
    \/ \E k \in Keys : Call(k) /\ Watch
    \/ CallCard /\ UNCHANGED scan
    \/ \E k \in Scanned, by \in {"member", "position"} : ScanBegin(k, by)
    \/ ScanStep

Spec == Init /\ [][Next]_vars

----------------------------------------------------------------------------
(* Properties.                                                             *)

(* The variables have their types.                                         *)
TypeOK ==
    /\ meta \in [Keys -> Metas \cup {Absent}]
    /\ row \in [Keys -> SUBSET Members]
    /\ scan.seen \subseteq Members /\ scan.due \subseteq Members

(* A record's size is the number of rows under it and is never 0, and no   *)
(* row lies without a record (commit_set_batch): SPOP draws from the size, *)
(* SCARD and the *CARD commands answer it.                                 *)
SizeExact ==
    \A k \in Keys :
        IF meta[k] = Absent THEN row[k] = {}
        ELSE meta[k].size > 0 /\ meta[k].size = Cardinality(row[k])

(* Paging returns whatever stays in the set from its first page to its     *)
(* last, whatever is added or removed in between: by member always, by     *)
(* position when nothing has been removed (sscan_by_member, sscan).        *)
ScanComplete ==
    (scan.over /\ (scan.by = "member" \/ ~scan.shrunk)) => scan.due \subseteq scan.seen

Sets == INSTANCE RedisSets WITH held <- [k \in Keys |-> Elements(k)]

(* The store implements sets under every command, with the command's own   *)
(* arguments, over expired rows and over its own operands; paging changes  *)
(* nothing.                                                                *)
ImplementsRedisSets == Sets!Init /\ [][Sets!SetNext]_(Sets!vars)
=============================================================================
