----------------------------- MODULE StreamStore -----------------------------
(***************************************************************************)
(* A stream of embed/src/api/stream with its consumer groups: a metadata   *)
(* record that repeats what the entry rows say, and for each group a       *)
(* record, one per consumer and one row per entry delivered and not yet    *)
(* acknowledged (the pending list), each with counts of the others.        *)
(*                                                                         *)
(* One caller at a time, one atomic batch per handler.  An id ms-seq is    *)
(* the number ms * Seqs + seq, in the same order; 0 is 0-0, "no entry".    *)
(* Fields of entries, delivery counts and times of interaction are left    *)
(* out: nothing is decided by them.  A call that returns an error changes  *)
(* nothing and is no step.                                                 *)
(***************************************************************************)
EXTENDS Integers, FiniteSets

CONSTANTS
    Groups, Consumers,
    Seqs,         \* sequence numbers to a millisecond
    MaxMs,        \* the last millisecond of an id
    MaxNow,       \* bound: the clock stops here
    MaxAdds,      \* bound: entries_added stays below
    Strategies,   \* how XADD is asked for its id
    Trims,        \* the trimming options of XADD and XTRIM
    Counts,       \* the COUNT of readers
    Positions,    \* the ids groups are set to, beside the last entry's
    LastIds,      \* the ids XSETID sets
    MaxPending,   \* bound: a group's pending count stays below
    Absent        \* no record

Top == MaxMs * Seqs + Seqs - 1
Ids == 0 .. Top
MsOf(id) == id \div Seqs
SeqOf(id) == id % Seqs

Metas == [size : Nat, last : Ids, maxdel : Ids, first : Ids, top : Ids, added : Nat,
          groups : Nat, lapsed : BOOLEAN]
GroupMetas == [consumers : Nat, pending : Nat, delivered : Ids, read : Int]
PelEntries == [owner : Consumers, time : 0 .. MaxNow]

StreamAssumption ==
    /\ Seqs \in Nat \ {0} /\ MaxMs \in Nat /\ MaxNow \in 1 .. MaxMs
    /\ IsFiniteSet(Groups) /\ IsFiniteSet(Consumers)
    /\ \A s \in Strategies : \/ s.by = "auto"
                             \/ s.by = "seq" /\ s.n \in 0 .. Seqs - 1
                             \/ s.by = "ms" /\ s.n \in 0 .. MaxMs
                             \/ s.by = "id" /\ s.n \in Ids
    /\ Trims \subseteq [by : {"none", "maxlen", "minid"}, n : Nat, limit : Nat \cup {Absent}]
    /\ Counts \subseteq Nat /\ Positions \subseteq Ids /\ LastIds \subseteq Ids
    /\ Absent \notin Int \cup Metas \cup GroupMetas \cup PelEntries

VARIABLES
    now,          \* the clock, in milliseconds
    meta,         \* the stream's record; lapsed once its expiry passed
    rows,         \* the ids of the entries
    group,        \* the record of each group
    consumer,     \* the pending count in each consumer's record
    pel,          \* the pending list of each group: owner and time of delivery
    due,          \* history: the entries a group has yet to be given
    noted         \* history: what may have put the counts out

vars == <<now, meta, rows, group, consumer, pel, due, noted>>

NewMeta == [size |-> 0, last |-> 0, maxdel |-> 0, first |-> 0, top |-> 0, added |-> 0,
            groups |-> 0, lapsed |-> FALSE]

NoGroups ==
    /\ group' = [g \in Groups |-> Absent]
    /\ consumer' = [g \in Groups |-> [c \in Consumers |-> Absent]]
    /\ pel' = [g \in Groups |-> [i \in Ids |-> Absent]]
    /\ due' = [g \in Groups |-> {}]
    /\ noted' = {}

Init ==
    /\ now = 1
    /\ meta = Absent
    /\ rows = {}
    /\ group = [g \in Groups |-> Absent]
    /\ consumer = [g \in Groups |-> [c \in Consumers |-> Absent]]
    /\ pel = [g \in Groups |-> [i \in Ids |-> Absent]]
    /\ due = [g \in Groups |-> {}]
    /\ noted = {}

Lowest(S) == CHOOSE m \in S : \A x \in S : m <= x
Highest(S) == CHOOSE m \in S : \A x \in S : x <= m
FirstOf(S, n) == {m \in S : Cardinality({x \in S : x < m}) < n}
Larger(a, b) == IF a < b THEN b ELSE a

\* Mutant: a subtraction that does not stop at zero.
LessBelow(a, b) == a - b

\* saturating_sub.
Less(a, b) == IF a < b THEN 0 ELSE a - b

\* get_meta_checked: a stream of no entries is still a stream.
Live == meta # Absent /\ ~meta.lapsed

----------------------------------------------------------------------------
(* Entries.                                                                *)

\* generate_id: the new id, or none on an error.
GenerateId(s, last) ==
    CASE s.by = "auto" -> IF now > MsOf(last) THEN {now * Seqs}
                          ELSE IF last = Top THEN {} ELSE {last + 1}
      [] s.by = "seq"  -> {now * Seqs + s.n} \ (0 .. last)
      [] s.by = "ms"   -> IF s.n < MsOf(last) THEN {}
                          ELSE IF s.n > MsOf(last) THEN {s.n * Seqs}
                          ELSE IF SeqOf(last) = Seqs - 1 THEN {} ELSE {last + 1}
      [] s.by = "id"   -> IF last = Top THEN {} ELSE {s.n} \ (0 .. last)

\* The entries beyond a length, or below an id.
Unwanted(m, t) ==
    CASE t.by = "maxlen" -> FirstOf(rows, Less(m.size, t.n))
      [] t.by = "minid"  -> {i \in rows : i < t.n}
      [] t.by = "none"   -> rows

\* trim_stream_internal: the entries that go.  The record may answer without
\* a look at the rows; a limit lets one through before it is compared.
Trimmed(m, t) ==
    IF \/ m.size = 0
       \/ t.by = "maxlen" /\ m.size <= t.n
       \/ t.by = "minid" /\ m.first >= t.n THEN {}
    ELSE IF t.limit = Absent THEN Unwanted(m, t)
    ELSE FirstOf(Unwanted(m, t), Larger(t.limit, 1))

\* Its end: what the record says of the rows that are left.
MetaTrimmed(m, gone) ==
    IF gone = {} THEN m
    ELSE LET size == Less(m.size, Cardinality(gone))
             cut == [m EXCEPT !.size = size, !.maxdel = Larger(@, Highest(gone))]
         IN  IF size = 0 \/ rows = gone
             THEN [cut EXCEPT !.size = 0, !.first = 0, !.top = 0]
             ELSE [cut EXCEPT !.first = Lowest(rows \ gone)]

MetaAdded(m, id) ==
    [m EXCEPT !.last = id, !.top = id, !.size = @ + 1, !.added = @ + 1,
              !.first = IF m.size = 0 THEN id ELSE @]

\* Entries come and go; a group that is ahead of a new entry will miss it.
Rows(S) ==
    /\ rows' = S
    /\ due' = [g \in Groups |-> IF group[g] = Absent THEN {}
                                ELSE (due[g] \cap S) \cup (S \ rows)]

\* The trimming that is part of an addition makes room for the entry.
MakingRoom(t) == IF t.by = "maxlen" THEN [t EXCEPT !.n = Less(@, 1)] ELSE t

\* stream_add to a stream that is there.
AddTo(id, t) ==
    LET room == MakingRoom(t)
        gone == IF t.by = "none" THEN {} ELSE Trimmed(meta, room)
        m == MetaTrimmed(meta, gone)
        refused == \/ t.by = "minid" /\ id < t.n
                   \/ t.by = "maxlen" /\ t.n = 0
    IN  /\ meta' = IF refused THEN [m EXCEPT !.last = id, !.maxdel = id, !.added = @ + 1]
                   ELSE MetaAdded(m, id)
        /\ Rows(IF refused THEN rows \ gone ELSE (rows \ gone) \cup {id})
        /\ UNCHANGED <<group, consumer, pel, noted>>

\* stream_add to one that is not, or has expired: whatever is left of that
\* one, its groups too, goes first.
AddNew(id, t) ==
    LET refused == \/ t.by = "minid" /\ id < t.n
                   \/ t.by = "maxlen" /\ t.n = 0
    IN  /\ meta' = IF refused THEN [NewMeta EXCEPT !.last = id, !.maxdel = id, !.added = 1]
                   ELSE MetaAdded(NewMeta, id)
        /\ rows' = IF refused THEN {} ELSE {id}
        /\ NoGroups

\* Mutant: the next id follows the last entry there is, not the last given.
XAddAfterTop(s, t, nomkstream) ==
    /\ Live => meta.added < MaxAdds
    /\ \E id \in GenerateId(s, IF Live THEN meta.top ELSE 0) :
          \/ Live /\ AddTo(id, t)
          \/ ~Live /\ ~nomkstream /\ AddNew(id, t)
    /\ UNCHANGED now

XAdd(s, t, nomkstream) ==
    /\ Live => meta.added < MaxAdds
    /\ \E id \in GenerateId(s, IF Live THEN meta.last ELSE 0) :
          \/ Live /\ AddTo(id, t)
          \/ ~Live /\ ~nomkstream /\ AddNew(id, t)
    /\ UNCHANGED now

XTrim(t) ==
    /\ Live
    /\ Trimmed(meta, t) # {}
    /\ meta' = MetaTrimmed(meta, Trimmed(meta, t))
    /\ Rows(rows \ Trimmed(meta, t))
    /\ UNCHANGED <<now, group, consumer, pel, noted>>

\* Mutant: the last entry is looked for only when the first is also gone.
MetaDeletedFirst(m, gone) ==
    LET size == Less(m.size, Cardinality(gone))
        left == rows \ gone
    IN  IF size = 0 THEN [m EXCEPT !.size = 0, !.first = 0, !.top = 0]
        ELSE [m EXCEPT !.size = size,
                       !.first = IF @ \in gone /\ left # {} THEN Lowest(left) ELSE @,
                       !.top = IF @ \in gone /\ m.first \in gone /\ left # {}
                               THEN Highest(left) ELSE @]

\* stream_del, the record: a boundary that goes is looked for again.
MetaDeleted(m, gone) ==
    LET size == Less(m.size, Cardinality(gone))
        left == rows \ gone
    IN  IF size = 0 THEN [m EXCEPT !.size = 0, !.first = 0, !.top = 0]
        ELSE [m EXCEPT !.size = size,
                       !.first = IF @ \in gone /\ left # {} THEN Lowest(left) ELSE @,
                       !.top = IF @ \in gone /\ left # {} THEN Highest(left) ELSE @]

XDel(ids) ==
    LET gone == ids \cap rows
    IN  /\ Live /\ meta.size > 0 /\ gone # {}
        /\ meta' = [MetaDeleted(meta, gone) EXCEPT !.maxdel = Larger(@, Highest(gone))]
        /\ Rows(rows \ gone)
        /\ UNCHANGED <<now, group, consumer, pel, noted>>

\* stream_setid.  A stream that is not there is made without a look at what
\* an expired one left behind.
XSetId(last, added, maxdel) ==
    LET m == IF Live THEN meta ELSE NewMeta
    IN  /\ maxdel # Absent => maxdel <= last
        /\ ~Live => added \notin {Absent, 0} /\ maxdel \notin {Absent, 0}
        /\ m.size > 0 => last >= m.last /\ (added # Absent => added >= m.size)
        /\ meta' = [m EXCEPT !.last = last,
                             !.added = IF added = Absent THEN @ ELSE added,
                             !.maxdel = IF maxdel \in {Absent, 0} THEN @ ELSE maxdel]
        /\ noted' = noted \cup {"set"}
              \cup (IF ~Live /\ (rows # {} \/ \E g \in Groups : group[g] # Absent)
                    THEN {"residue"} ELSE {})
              \cup (IF \E g \in Groups : group[g] # Absent /\ last < group[g].delivered
                    THEN {"ahead"} ELSE {})
        /\ UNCHANGED <<now, rows, group, consumer, pel, due>>

----------------------------------------------------------------------------
(* Reading, counting and lag.                                              *)

\* stream_range_with_options: the record may answer, or one row.
Ranged(start, end, count, reverse, exstart, exend) ==
    LET within == {i \in rows :
                     IF reverse
                     THEN /\ IF exstart THEN i < start ELSE i <= start
                          /\ IF exend THEN end < i ELSE end <= i
                     ELSE /\ IF exstart THEN start < i ELSE start <= i
                          /\ IF exend THEN i < end ELSE i <= end}
        beside == IF reverse THEN start < meta.first \/ end > meta.top
                  ELSE start > meta.top \/ end < meta.first
    IN  IF ~Live \/ count = 0 \/ (IF reverse THEN start < end ELSE end < start) THEN {}
        ELSE IF meta.size = 0 \/ beside THEN {}
        ELSE IF start = end THEN IF exstart \/ exend THEN {} ELSE rows \cap {start}
        ELSE IF reverse THEN {i \in within : Cardinality({x \in within : x > i}) < count}
        ELSE FirstOf(within, count)

\* Mutant: the short answers take no notice of the direction.
CountedShort(id, toFirst) ==
    IF id > meta.top THEN IF toFirst THEN meta.size ELSE 0
    ELSE IF id < meta.first THEN IF toFirst THEN 0 ELSE meta.size
    ELSE IF id \in {meta.first, meta.top} THEN Less(meta.size, 1)
    ELSE Cardinality({i \in rows : IF toFirst THEN i < id ELSE i > id})

\* stream_len_with_options: the entries before or after an id.
Counted(id, toFirst) ==
    IF id > meta.top THEN IF toFirst THEN meta.size ELSE 0
    ELSE IF id < meta.first THEN IF toFirst THEN 0 ELSE meta.size
    ELSE IF id = (IF toFirst THEN meta.top ELSE meta.first) THEN Less(meta.size, 1)
    ELSE Cardinality({i \in rows : IF toFirst THEN i < id ELSE i > id})

HasTombstones(m, from) == m.size > 0 /\ m.maxdel # 0 /\ m.first <= m.maxdel /\ from <= m.maxdel

\* Mutant: a group before the first entry counts as having been given it.
DistanceAtFirst(m, id) ==
    IF m.added = 0 THEN 0
    ELSE IF (m.size = 0 /\ id < m.top) \/ id = m.top THEN m.added
    ELSE IF id > m.top \/ (m.maxdel # 0 /\ m.maxdel >= m.first) \/ id > m.first THEN -1
    ELSE Less(m.added, m.size) + 1

\* stream_estimate_distance_from_first_ever_entry, -1 when it cannot tell.
Distance(m, id) ==
    IF m.added = 0 THEN 0
    ELSE IF (m.size = 0 /\ id < m.top) \/ id = m.top THEN m.added
    ELSE IF id > m.top \/ (m.maxdel # 0 /\ m.maxdel >= m.first) \/ id > m.first THEN -1
    ELSE Less(m.added, m.size) + (IF id = m.first THEN 1 ELSE 0)

\* check_lag_valid; Absent for u64::MAX, not known.
Lag(m, g) ==
    IF m.added = 0 THEN 0
    ELSE IF g.read # -1 /\ ~HasTombstones(m, g.delivered) THEN Less(m.added, g.read)
    ELSE IF Distance(m, g.delivered) # -1 THEN Less(m.added, Distance(m, g.delivered))
    ELSE Absent

----------------------------------------------------------------------------
(* Groups.                                                                 *)

Ahead(at) == IF Live /\ at <= meta.last THEN {} ELSE {"ahead"}

NewGroup(at, read) == [consumers |-> 0, pending |-> 0, delivered |-> at, read |-> read]

\* stream_group_create.  A group left by an expired stream is still in the
\* way; when there is none of that name, all that is left is cleared.
XGroupCreate(g, at, read) ==
    /\ group[g] = Absent
    /\ IF Live
       THEN /\ meta' = [meta EXCEPT !.groups = @ + 1]
            /\ group' = [group EXCEPT ![g] = NewGroup(at, read)]
            /\ due' = [due EXCEPT ![g] = {i \in rows : i > at}]
            /\ noted' = noted \cup Ahead(at)
            /\ UNCHANGED <<rows, consumer, pel>>
       ELSE /\ meta' = [NewMeta EXCEPT !.groups = 1]
            /\ rows' = {}
            /\ group' = [h \in Groups |-> IF h = g THEN NewGroup(at, read) ELSE Absent]
            /\ consumer' = [h \in Groups |-> [c \in Consumers |-> Absent]]
            /\ pel' = [h \in Groups |-> [i \in Ids |-> Absent]]
            /\ due' = [h \in Groups |-> {}]
            /\ noted' = IF at > 0 THEN {"ahead"} ELSE {}
    /\ UNCHANGED now

XGroupDestroy(g) ==
    /\ Live /\ group[g] # Absent
    /\ meta' = [meta EXCEPT !.groups = Less(@, 1)]
    /\ group' = [group EXCEPT ![g] = Absent]
    /\ consumer' = [consumer EXCEPT ![g] = [c \in Consumers |-> Absent]]
    /\ pel' = [pel EXCEPT ![g] = [i \in Ids |-> Absent]]
    /\ due' = [due EXCEPT ![g] = {}]
    /\ UNCHANGED <<now, rows, noted>>

XGroupSetId(g, at, read) ==
    /\ Live /\ group[g] # Absent
    /\ group' = [group EXCEPT ![g].delivered = at, ![g].read = IF read = Absent THEN @ ELSE read]
    /\ due' = [due EXCEPT ![g] = {i \in rows : i > at}]
    /\ noted' = noted \cup {"set"} \cup Ahead(at)
    /\ UNCHANGED <<now, meta, rows, consumer, pel>>

XGroupCreateConsumer(g, c) ==
    /\ Live /\ group[g] # Absent /\ consumer[g][c] = Absent
    /\ group' = [group EXCEPT ![g].consumers = @ + 1]
    /\ consumer' = [consumer EXCEPT ![g][c] = 0]
    /\ UNCHANGED <<now, meta, rows, pel, due, noted>>

Pending(g) == {i \in Ids : pel[g][i] # Absent}
Owned(g, c) == {i \in Pending(g) : pel[g][i].owner = c}

\* Mutant: the group's count stays.
XGroupDelConsumerUncounted(g, c) ==
    /\ Live /\ group[g] # Absent /\ consumer[g][c] # Absent
    /\ group' = [group EXCEPT ![g].consumers = Less(@, 1)]
    /\ consumer' = [consumer EXCEPT ![g][c] = Absent]
    /\ pel' = [pel EXCEPT ![g] = [i \in Ids |-> IF i \in Owned(g, c) THEN Absent ELSE @[i]]]
    /\ UNCHANGED <<now, meta, rows, due, noted>>

\* Mutant: its pending rows stay.
XGroupDelConsumerOnly(g, c) ==
    /\ Live /\ group[g] # Absent /\ consumer[g][c] # Absent
    /\ group' = [group EXCEPT ![g].consumers = Less(@, 1),
                              ![g].pending = Less(@, consumer[g][c])]
    /\ consumer' = [consumer EXCEPT ![g][c] = Absent]
    /\ UNCHANGED <<now, meta, rows, pel, due, noted>>

\* stream_group_del_consumer: its pending rows go, the group's count loses
\* what the consumer's own count says.
XGroupDelConsumer(g, c) ==
    /\ Live /\ group[g] # Absent /\ consumer[g][c] # Absent
    /\ group' = [group EXCEPT ![g].consumers = Less(@, 1),
                              ![g].pending = Less(@, consumer[g][c])]
    /\ consumer' = [consumer EXCEPT ![g][c] = Absent]
    /\ pel' = [pel EXCEPT ![g] = [i \in Ids |-> IF i \in Owned(g, c) THEN Absent ELSE @[i]]]
    /\ UNCHANGED <<now, meta, rows, due, noted>>

\* A command by a consumer makes it: the group's record counts it.
Joined(g, c) ==
    [group[g] EXCEPT !.consumers = @ + (IF consumer[g][c] = Absent THEN 1 ELSE 0)]
PendingOf(g, c) == IF consumer[g][c] = Absent THEN 0 ELSE consumer[g][c]

Deliver(g, S, c, at) ==
    [pel EXCEPT ![g] = [i \in Ids |-> IF i \in S THEN [owner |-> c, time |-> at] ELSE @[i]]]

\* stream_readgroup of ">": a row of the pending list is written over when
\* the group had been set back, and counted again.
ReadNew(g, c, count, noack) ==
    /\ Live /\ group[g] # Absent /\ group[g].delivered # Top
    /\ group[g].pending < MaxPending
    /\ LET S == Ranged(group[g].delivered, Top, count, FALSE, TRUE, FALSE)
           listed == IF noack THEN {} ELSE S
           n == Cardinality(listed)
       IN  /\ pel' = Deliver(g, listed, c, now)
           /\ group' = [group EXCEPT ![g] =
                 [Joined(g, c) EXCEPT !.read = @ + n, !.pending = @ + n,
                                      !.delivered = IF S = {} THEN @ ELSE Highest(S)]]
           /\ consumer' = [consumer EXCEPT ![g][c] = PendingOf(g, c) + n]
           /\ due' = [due EXCEPT ![g] = @ \ S]
           /\ noted' = noted \cup (IF listed \cap Pending(g) = {} THEN {} ELSE {"again"})
    /\ UNCHANGED <<now, meta, rows>>

\* stream_readgroup of an id: what the consumer has not acknowledged.
ReadOwn(g, c, from, count) ==
    /\ Live /\ group[g] # Absent
    /\ pel' = Deliver(g, FirstOf({i \in Owned(g, c) \cap rows : i >= from}, count), c, now)
    /\ group' = [group EXCEPT ![g] = Joined(g, c)]
    /\ consumer' = [consumer EXCEPT ![g][c] = PendingOf(g, c)]
    /\ UNCHANGED <<now, meta, rows, due, noted>>

\* stream_ack does not ask whether the stream is there, nor looks at the rows
\* when the group's count is 0.
XAck(g, ids) ==
    LET acked == ids \cap Pending(g)
    IN  /\ group[g] # Absent /\ group[g].pending # 0 /\ acked # {}
        /\ group' = [group EXCEPT ![g].pending = Less(@, Cardinality(acked))]
        /\ consumer' = [consumer EXCEPT ![g] = [c \in Consumers |->
              IF @[c] = Absent THEN Absent ELSE Less(@[c], Cardinality(acked \cap Owned(g, c)))]]
        /\ pel' = [pel EXCEPT ![g] = [i \in Ids |-> IF i \in acked THEN Absent ELSE @[i]]]
        /\ UNCHANGED <<now, meta, rows, due, noted>>

IdleFor(g, i, least) == now - (IF pel[g][i] = Absent THEN 0 ELSE pel[g][i].time) >= least

\* stream_claim.  Every entry taken from an owner writes that owner's stored
\* count less one: two entries of one owner in a call count as one.
XClaim(g, c, ids, least, force, idle, lastid) ==
    LET taken == {i \in ids \cap rows : (i \in Pending(g) \/ force) /\ IdleFor(g, i, least)}
        forced == taken \ Pending(g)
        robbed == {o \in Consumers \ {c} : taken \cap Owned(g, o) # {}}
        moved == lastid # Absent /\ lastid > group[g].delivered
    IN  /\ Live /\ group[g] # Absent
        /\ pel' = Deliver(g, taken, c, now - idle)
        /\ group' = [group EXCEPT ![g] =
              [Joined(g, c) EXCEPT !.pending = @ + Cardinality(forced),
                                   !.delivered = IF moved THEN lastid ELSE @]]
        /\ consumer' = [consumer EXCEPT ![g] = [o \in Consumers |->
              IF o = c THEN PendingOf(g, c) + Cardinality(taken \ Owned(g, c))
              ELSE IF o \in robbed /\ @[o] # Absent THEN Less(@[o], 1) ELSE @[o]]]
        /\ due' = IF moved THEN [due EXCEPT ![g] = {i \in @ : i > lastid}] ELSE due
        /\ noted' = noted \cup (IF moved THEN Ahead(lastid) \cup {"set"} ELSE {})
              \cup (IF \E o \in robbed : Cardinality(taken \cap Owned(g, o)) > 1
                    THEN {"shared"} ELSE {})
        /\ UNCHANGED <<now, meta, rows>>

\* stream_autoclaim walks the pending list from an id, no more than so many
\* rows and no more than so many of them idle for long enough.
Walked(g, from, least, count, attempts) ==
    LET ahead == {i \in Pending(g) : i >= from}
    IN  {i \in ahead : LET before == {x \in ahead : x < i}
                       IN  /\ Cardinality(before) < attempts
                           /\ Cardinality({x \in before : IdleFor(g, x, least)}) < count}

NextClaim(g, from, least, count, attempts) ==
    LET left == {i \in Pending(g) : i >= from} \ Walked(g, from, least, count, attempts)
    IN  IF left = {} THEN 0 ELSE Lowest(left)

\* Its own entries are handed out as they are, those without a row are
\* dropped, the rest change hands.  The group's record, with the count of
\* consumers, is written only when something was dropped.
XAutoClaim(g, c, from, least, count, attempts) ==
    LET idle == {i \in Walked(g, from, least, count, attempts) : IdleFor(g, i, least)}
        dropped == idle \ rows
        claimed == (idle \cap rows) \ Owned(g, c)
    IN  /\ Live /\ group[g] # Absent /\ claimed \cup dropped # {}
        /\ pel' = [Deliver(g, claimed, c, now) EXCEPT ![g] =
              [i \in Ids |-> IF i \in dropped THEN Absent ELSE @[i]]]
        /\ consumer' = [consumer EXCEPT ![g] = [o \in Consumers |->
              IF o = c THEN Less(PendingOf(g, c) + Cardinality(claimed),
                                 Cardinality(dropped \cap Owned(g, c)))
              ELSE IF @[o] = Absent THEN Absent
              ELSE Less(@[o], Cardinality((claimed \cup dropped) \cap Owned(g, o)))]]
        /\ group' = IF dropped = {} THEN group
                    ELSE [group EXCEPT ![g] =
                            [Joined(g, c) EXCEPT !.pending = Less(@, Cardinality(dropped))]]
        /\ noted' = noted \cup (IF dropped = {} /\ consumer[g][c] = Absent
                                THEN {"uncounted"} ELSE {})
        /\ UNCHANGED <<now, meta, rows, due>>

----------------------------------------------------------------------------
(* What others do, and all steps together.                                 *)

Tick == now < MaxNow /\ now' = now + 1
        /\ UNCHANGED <<meta, rows, group, consumer, pel, due, noted>>

\* An expiry set by EXPIRE passes; everything stays.
Lapse ==
    /\ Live
    /\ meta' = [meta EXCEPT !.lapsed = TRUE]
    /\ UNCHANGED <<now, rows, group, consumer, pel, due, noted>>

\* DEL, or the sweep of an expired stream, with its groups.
Erase ==
    /\ meta # Absent
    /\ meta' = Absent
    /\ rows' = {}
    /\ NoGroups
    /\ UNCHANGED now

Claims(g, c) ==
    \/ \E ids \in SUBSET (Pending(g) \cup rows) \ {{}}, least, idle \in {0, 1}, force \in BOOLEAN,
          lastid \in {Absent} \cup Positions :
          XClaim(g, c, ids, least, force, idle, lastid)
    \/ \E from \in Pending(g), least \in {0, 1}, count \in Counts, attempts \in {1, 2} :
          XAutoClaim(g, c, from, least, count, attempts)

ForGroup(g) ==
    \/ \E at \in Positions \cup {IF Live THEN meta.top ELSE 0} :
          XGroupCreate(g, at, -1) \/ XGroupCreate(g, at, 0)
    \/ XGroupDestroy(g)
    \/ \E at \in Positions \cup {IF Live THEN meta.top ELSE 0} : XGroupSetId(g, at, Absent)
    \/ \E ids \in SUBSET Pending(g) : XAck(g, ids)
    \/ \E c \in Consumers :
          \/ XGroupCreateConsumer(g, c)
          \/ XGroupDelConsumer(g, c)
          \/ \E count \in Counts, noack \in BOOLEAN : ReadNew(g, c, count, noack)
          \/ \E from \in {0, 1}, count \in Counts : ReadOwn(g, c, from, count)
          \/ Claims(g, c)

Next ==
    \/ \E s \in Strategies, t \in Trims, nomkstream \in BOOLEAN : XAdd(s, t, nomkstream)
    \/ \E t \in Trims : XTrim(t)
    \/ \E ids \in SUBSET rows : XDel(ids)
    \/ \E last \in LastIds, added \in {Absent, 1}, maxdel \in {Absent, 1} : XSetId(last, added, maxdel)
    \/ \E g \in Groups : ForGroup(g)
    \/ Tick \/ Lapse \/ Erase

Spec == Init /\ [][Next]_vars

----------------------------------------------------------------------------
(* Properties.                                                             *)

(* The variables have their types.                                         *)
TypeOK ==
    /\ now \in 1 .. MaxNow
    /\ meta \in Metas \cup {Absent}
    /\ rows \subseteq Ids
    /\ group \in [Groups -> GroupMetas \cup {Absent}]
    /\ consumer \in [Groups -> [Consumers -> Nat \cup {Absent}]]
    /\ pel \in [Groups -> [Ids -> PelEntries \cup {Absent}]]

(* The record's size, first and last entry and number of groups are those  *)
(* of the rows, every entry is at or below the last id given out, and      *)
(* nothing lies without a record (stream_add, trim_stream_internal,        *)
(* stream_del) -- unless XSETID made a record over what an expired stream  *)
(* left, which it does not clear.                                          *)
BoundsExact ==
    "residue" \notin noted =>
        IF meta = Absent THEN rows = {} /\ \A g \in Groups : group[g] = Absent
        ELSE /\ meta.size = Cardinality(rows)
             /\ meta.groups = Cardinality({g \in Groups : group[g] # Absent})
             /\ IF rows = {} THEN meta.first = 0 /\ meta.top = 0
                ELSE /\ meta.first = Lowest(rows) /\ meta.top = Highest(rows)
                     /\ meta.top <= meta.last

(* XRANGE, XREVRANGE and XLEN up to or from an id, whose answers may come  *)
(* from the record alone, say what the rows say.                           *)
ReadsExact ==
    Live /\ "residue" \notin noted =>
        \A a, b \in Ids :
            /\ \A ex \in BOOLEAN, count \in Counts :
                  LET S == {i \in rows : IF ex THEN a < i /\ i < b ELSE a <= i /\ i <= b}
                  IN  /\ Ranged(a, b, count, FALSE, ex, ex) = FirstOf(S, count)
                      /\ Ranged(b, a, count, TRUE, ex, ex) =
                            {i \in S : Cardinality({x \in S : x > i}) < count}
            /\ Counted(a, TRUE) = Cardinality({i \in rows : i < a})
            /\ Counted(a, FALSE) = Cardinality({i \in rows : i > a})

(* What a group has yet to be given is what lies after the last entry it   *)
(* was given: reading ">" skips no entry and gives none twice, however     *)
(* entries are added, trimmed and deleted (stream_readgroup, generate_id)  *)
(* -- unless a position was set beyond the last id, or the last id back.   *)
DueExact ==
    noted \cap {"ahead", "residue"} = {} =>
        \A g \in Groups :
            group[g] # Absent => due[g] = {i \in rows : i > group[g].delivered}

(* The counts in the records of groups and consumers are those of the      *)
(* pending list and of the consumers (stream_readgroup, stream_ack,        *)
(* stream_autoclaim, stream_group_del_consumer) -- unless entries still    *)
(* pending were given out again, one XCLAIM took two entries of an owner,  *)
(* or XAUTOCLAIM made a consumer.                                          *)
PendingExact ==
    noted \cap {"again", "shared", "uncounted", "residue"} = {} =>
        \A g \in Groups :
            group[g] # Absent =>
                /\ group[g].pending = Cardinality(Pending(g))
                /\ group[g].consumers = Cardinality({c \in Consumers : consumer[g][c] # Absent})
                /\ \A c \in Consumers :
                      consumer[g][c] # Absent => consumer[g][c] = Cardinality(Owned(g, c))

(* An entry on a pending list belongs to a consumer of a group that is     *)
(* there: it can be read, claimed or acknowledged by somebody.             *)
OwnersExist ==
    \A g \in Groups : \A i \in Pending(g) :
        group[g] # Absent /\ consumer[g][pel[g][i].owner] # Absent

(* The lag XINFO GROUPS shows is never less than what the group has yet to *)
(* be given (check_lag_valid), when it was always read and never set.      *)
LagCovers ==
    Live /\ noted \cap {"again", "ahead", "set", "residue"} = {} =>
        \A g \in Groups :
            group[g] # Absent /\ Lag(meta, group[g]) # Absent =>
                Lag(meta, group[g]) >= Cardinality({i \in rows : i > group[g].delivered})

(* What a consumer's record counts is what it owns, also after XCLAIM:     *)
(* tests/stream.rs asks it of XACK and XAUTOCLAIM.                         *)
ClaimsCounted ==
    noted \cap {"again", "residue"} = {} =>
        \A g \in Groups, c \in Consumers :
            consumer[g][c] # Absent => consumer[g][c] = Cardinality(Owned(g, c))
=============================================================================
