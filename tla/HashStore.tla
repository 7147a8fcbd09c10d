------------------------------ MODULE HashStore ------------------------------
(***************************************************************************)
(* The hashes of embed/src/api/hash.  A field's row carries its value and  *)
(* the time it expires, 0 for never; a field that has run out keeps its    *)
(* row until a command meets it.  The record counts the rows, and among    *)
(* them those that never expire, and bounds the expiries of the others:    *)
(* readers and HLEN answer from the bounds when they can.                  *)
(*                                                                         *)
(* One key and one caller; each action is a whole handler with its one     *)
(* atomic batch.                                                           *)
(***************************************************************************)
EXTENDS Integers, Sequences, FiniteSets

CONSTANTS
    Fields, MaxVal, Pairs, Lists,   \* as in RedisHashes
    MaxNow,      \* bound: the clock stops here
    MaxSize,     \* bound: HSETEX stops when the record counts more rows
    Absent       \* no record, no row

Metas == [size : Nat, persist : Nat, lower : Nat, upper : Nat, lapsed : BOOLEAN]
Cells == [val : 0 .. MaxVal, exp : 0 .. MaxNow]

HashAssumption ==
    /\ MaxVal \in Nat \ {0} /\ MaxNow \in Nat \ {0} /\ MaxSize \in Nat
    /\ IsFiniteSet(Fields) /\ Absent \notin Metas \cup Cells
    \* commands with nothing to write return at once
    /\ \A ps \in Pairs : ps \in Seq([field : Fields, val : 0 .. MaxVal]) /\ ps # <<>>
    /\ \A fs \in Lists : fs \in Seq(Fields)

VARIABLES
    now,         \* the clock
    meta,        \* the record; lapsed once the key's own expiry has passed
    row,         \* the row of each field
    asked, ret   \* the last call and its answer

vars == <<now, meta, row, asked, ret>>

NewMeta == [size |-> 0, persist |-> 0, lower |-> 0, upper |-> 0, lapsed |-> FALSE]
NoRows == [f \in Fields |-> Absent]

Init ==
    /\ now = 1
    /\ meta = Absent
    /\ row = NoRows
    /\ asked = <<>>
    /\ ret = 0

\* get_meta_checked; a record of size 0 counts as expired.
Live == meta # Absent /\ meta.size > 0 /\ ~meta.lapsed

----------------------------------------------------------------------------
(* The record.                                                             *)

Less(n) == IF n = 0 THEN 0 ELSE n - 1

ClearBounds(m) == IF m.size = m.persist THEN [m EXCEPT !.lower = 0, !.upper = 0] ELSE m

Expand(m, at) ==
    IF at = 0 THEN m
    ELSE IF m.size = m.persist THEN [m EXCEPT !.lower = at, !.upper = at]
    ELSE [m EXCEPT !.lower = IF @ = 0 \/ at < @ THEN at ELSE @,
                   !.upper = IF @ < at THEN at ELSE @]

MissingToPersistent(m) == ClearBounds([m EXCEPT !.size = @ + 1, !.persist = @ + 1])
MissingToTTL(m, at) == [Expand(m, at) EXCEPT !.size = @ + 1]
PersistentToTTL(m, at) == [Expand(m, at) EXCEPT !.persist = Less(@)]
TTLToTTL(m, at) == Expand(m, at)
TTLToPersistent(m) ==
    ClearBounds([m EXCEPT !.persist = IF @ + 1 < m.size THEN @ + 1 ELSE m.size])
PersistentToDeleted(m) == ClearBounds([m EXCEPT !.size = Less(@), !.persist = Less(@)])
TTLToDeleted(m) ==
    ClearBounds([m EXCEPT !.size = Less(@), !.persist = IF @ > Less(m.size) THEN Less(m.size) ELSE @])

----------------------------------------------------------------------------
(* A handler goes through its fields with the record, the rows and the     *)
(* answers so far, and commits what it has at the end.                     *)

\* A step for each of n elements in turn.
Each(step(_, _), h, n) ==
    LET after[i \in 0 .. n] == IF i = 0 THEN h ELSE step(after[i - 1], i)
    IN  after[n]

Expired(at) == at > 0 /\ at <= now

\* decode_field_state.
Kind(h, f) ==
    IF h.row[f] = Absent THEN "missing"
    ELSE IF h.row[f].exp = 0 THEN "persistent"
    ELSE IF Expired(h.row[f].exp) THEN "expired" ELSE "live"

Here == [meta |-> meta, row |-> row, out |-> <<>>]

\* prepare_hash_meta_for_write: an expired hash loses its rows.
Prepared == IF Live THEN Here ELSE [meta |-> NewMeta, row |-> NoRows, out |-> <<>>]

Put(h, f, v, at) == [h EXCEPT !.row[f] = [val |-> v, exp |-> at]]
Answer(h, x) == [h EXCEPT !.out = Append(@, x)]
With(h, m) == [h EXCEPT !.meta = m]

\* Mutant: every row taken away is counted as one that never expires.
RemoveUncounted(h, f) == [h EXCEPT !.meta = PersistentToDeleted(@), !.row[f] = Absent]

\* remove_field_in_batch, and the purge of a field that has run out.
RemoveField(h, f) ==
    [h EXCEPT !.meta = IF h.row[f].exp = 0 THEN PersistentToDeleted(@) ELSE TTLToDeleted(@),
              !.row[f] = Absent]

\* commit_hash_batch: no rows, no record.
Commit(h) ==
    /\ meta' = IF h.meta.size = 0 THEN Absent ELSE ClearBounds(h.meta)
    /\ row' = h.row

Unchanged(r) == UNCHANGED <<meta, row>> /\ ret' = r
Ones(s) == Cardinality({i \in DOMAIN s : s[i] = 1})

----------------------------------------------------------------------------
(* Commands that write.                                                    *)

\* apply_field_state_to_meta, and the row.
SetField(h, p) ==
    LET kind == Kind(h, p.field)
        m == CASE kind = "missing" -> MissingToPersistent(h.meta)
               [] kind \in {"expired", "live"} -> TTLToPersistent(h.meta)
               [] kind = "persistent" -> h.meta
    IN  Put(Answer(With(h, m), IF kind \in {"missing", "expired"} THEN 1 ELSE 0), p.field, p.val, 0)

\* Of the pairs of one field the last counts, where there is no hash the first.
Passed(ps, i) == \E j \in i + 1 .. Len(ps) : ps[j].field = ps[i].field
Seconded(ps, i) == \E j \in 1 .. i - 1 : ps[j].field = ps[i].field

HSet(ps) ==
    LET set(h, i) == IF (IF Live THEN Passed(ps, i) ELSE Seconded(ps, i)) THEN h
                     ELSE SetField(h, ps[i])
        h == Each(set, Prepared, Len(ps))
    IN  Commit(h) /\ ret' = Ones(h.out)

HSetNx(f, v) ==
    IF Live /\ Kind(Here, f) \in {"persistent", "live"} THEN Unchanged(0)
    ELSE Commit(SetField(Prepared, [field |-> f, val |-> v])) /\ ret' = 1

\* hdel: one that has run out is removed and not counted.
DelField(h, f) ==
    IF h.row[f] = Absent THEN h
    ELSE RemoveField(Answer(h, IF Expired(h.row[f].exp) THEN 0 ELSE 1), f)

HDel(fs) ==
    LET del(h, i) == DelField(h, fs[i])
        h == Each(del, Here, Len(fs))
    IN  IF ~Live \/ h.out = <<>> THEN Unchanged(0) ELSE Commit(h) /\ ret' = Ones(h.out)

\* apply_setex_field_in_batch: a field that has run out is counted as new,
\* beside the row it still has.
SetExField(h, p, at) ==
    LET kind == Kind(h, p.field)
        m == CASE kind \in {"missing", "expired"} ->
                    IF at = 0 THEN MissingToPersistent(h.meta) ELSE MissingToTTL(h.meta, at)
               [] kind = "persistent" ->
                    IF at = 0 THEN h.meta ELSE PersistentToTTL(h.meta, at)
               [] kind = "live" ->
                    IF at = 0 THEN TTLToPersistent(h.meta) ELSE TTLToTTL(h.meta, at)
    IN  Put(With(h, m), p.field, p.val, at)

\* resolve_target_expire.
Target(h, f, action, at) ==
    CASE action = "discard" -> 0
      [] action = "keep" -> IF Kind(h, f) \in {"live", "expired"} THEN h.row[f].exp ELSE 0
      [] action = "set" -> at

\* hsetex.  Of one field that is not there, nothing is committed when the
\* expiry has already passed.
HSetEx(ps, cond, action, at) ==
    LET here(p) == Kind(Prepared, p.field) \in {"persistent", "live"}
        met == CASE cond = "none" -> TRUE
                 [] cond = "nx" -> \A i \in DOMAIN ps : ~here(ps[i])
                 [] cond = "xx" -> \A i \in DOMAIN ps : here(ps[i])
        gone(h, i) == IF h.row[ps[i].field] = Absent THEN h ELSE RemoveField(h, ps[i].field)
        set(h, i) == IF Passed(ps, i) THEN h
                     ELSE SetExField(h, ps[i], Target(h, ps[i].field, action, at))
    IN  /\ Live => meta.size <= MaxSize
        /\ IF ~met THEN Unchanged(FALSE)
           ELSE IF action = "set" /\ at <= now
           THEN IF Len(ps) = 1 /\ Prepared.row[ps[1].field] = Absent THEN Unchanged(TRUE)
                ELSE Commit(Each(gone, Prepared, Len(ps))) /\ ret' = TRUE
           ELSE Commit(Each(set, Prepared, Len(ps))) /\ ret' = TRUE

\* get_live_hfe_meta, and the short cut of the readers: everything ran out.
AllGone == meta.upper # 0 /\ now > meta.upper /\ meta.persist = 0
Readable == Live /\ ~AllGone

\* The commands below go through fields and purge what has run out.
Through(fs, step(_, _), none) ==
    LET purge(h, i) == CASE Kind(h, fs[i]) = "missing" -> Answer(h, none)
                         [] Kind(h, fs[i]) = "expired" -> Answer(RemoveField(h, fs[i]), none)
                         [] OTHER -> step(h, fs[i])
        h == Each(purge, Here, Len(fs))
    IN  IF ~Readable THEN Unchanged([i \in DOMAIN fs |-> none])
        ELSE IF h.meta = meta /\ h.row = row THEN Unchanged(h.out)
        ELSE Commit(h) /\ ret' = h.out

HGetDel(fs) ==
    LET take(h, f) == RemoveField(Answer(h, h.row[f].val), f)
    IN  Through(fs, take, Absent)

Retimed(h, f, at) ==
    Put(With(h, IF at = 0 THEN IF Kind(h, f) = "live" THEN TTLToPersistent(h.meta) ELSE h.meta
                ELSE IF Kind(h, f) = "persistent" THEN PersistentToTTL(h.meta, at)
                ELSE TTLToTTL(h.meta, at)),
        f, h.row[f].val, at)

\* hgetex and hmget_ex: an expiry that has passed removes the field, and one
\* field alone is then not answered.
HGetEx(fs, action, at) ==
    LET read(h, f) ==
            IF action = "set" /\ at <= now
            THEN RemoveField(Answer(h, IF Len(fs) = 1 THEN Absent ELSE h.row[f].val), f)
            ELSE LET a == Answer(h, h.row[f].val)
                 IN  CASE action = "discard" -> a
                       [] action = "persist" -> Retimed(a, f, 0)
                       [] action = "set" -> Retimed(a, f, at)
    IN  Through(fs, read, Absent)

\* hexpire_condition_passes.
ConditionPasses(cond, exp, at) ==
    IF exp = 0 THEN cond \in {"none", "nx", "lt"}
    ELSE CASE cond \in {"none", "xx"} -> TRUE
           [] cond = "nx" -> FALSE
           [] cond = "gt" -> at > exp
           [] cond = "lt" -> at < exp

\* expire_fields, for HEXPIRE, HPEXPIRE and the two AT forms.
HExpire(fs, at, cond) ==
    LET expire(h, f) ==
            IF ~ConditionPasses(cond, h.row[f].exp, at) THEN Answer(h, 0)
            ELSE IF at <= now THEN RemoveField(Answer(h, 2), f)
            ELSE Retimed(Answer(h, 1), f, at)
    IN  Through(fs, expire, -2)

HPersist(fs) ==
    LET persist(h, f) == IF Kind(h, f) = "persistent" THEN Answer(h, -1)
                         ELSE Retimed(Answer(h, 1), f, 0)
    IN  Through(fs, persist, -2)

\* hincrby and hincrbyfloat: a field keeps its expiry, one that has run out
\* starts again from 0 without one.
HIncrBy(f) ==
    LET h == Prepared
        kind == Kind(h, f)
        there == kind \in {"persistent", "live"}
        v == 1 + (IF there THEN h.row[f].val ELSE 0)
        m == CASE kind = "missing" -> MissingToPersistent(h.meta)
               [] kind = "expired" -> TTLToPersistent(h.meta)
               [] OTHER -> h.meta
    IN  /\ v <= MaxVal
        /\ Commit(Put(With(h, m), f, v, IF there THEN h.row[f].exp ELSE 0))
        /\ ret' = v

----------------------------------------------------------------------------
(* HLEN counts, and puts the record right on the way.                      *)

Lowest(S) == CHOOSE m \in S : \A x \in S : m <= x
Highest(S) == CHOOSE m \in S : \A x \in S : x <= m

\* scan_and_repair_hash.
Repaired ==
    LET left == {f \in Fields : Kind(Here, f) \in {"persistent", "live"}}
        timed == {row[f].exp : f \in {g \in left : row[g].exp # 0}}
        m == [meta EXCEPT !.size = Cardinality(left),
                          !.persist = Cardinality({f \in left : row[f].exp = 0}),
                          !.lower = IF timed = {} THEN 0 ELSE Lowest(timed),
                          !.upper = IF timed = {} THEN 0 ELSE Highest(timed)]
    IN  [meta |-> m, row |-> [f \in Fields |-> IF f \in left THEN row[f] ELSE Absent]]

\* Mutant: when everything ran out the count is what the record says.
HLenStale ==
    IF ~Live THEN Unchanged(0)
    ELSE IF meta.size = meta.persist \/ (meta.lower # 0 /\ now <= meta.lower)
    THEN Unchanged(meta.size)
    ELSE IF AllGone THEN meta' = Absent /\ UNCHANGED row /\ ret' = 0
    ELSE Commit(Repaired) /\ ret' = Repaired.meta.size

\* hlen.  When everything has run out only the record is removed.
HLen ==
    IF ~Live THEN Unchanged(0)
    ELSE IF meta.persist > meta.size THEN Commit(Repaired) /\ ret' = Repaired.meta.size
    ELSE IF meta.size = meta.persist \/ (meta.lower # 0 /\ now < meta.lower)
    THEN Unchanged(meta.size)
    ELSE IF AllGone THEN meta' = Absent /\ UNCHANGED row /\ ret' = 0
    ELSE Commit(Repaired) /\ ret' = Repaired.meta.size

----------------------------------------------------------------------------
(* Readers.                                                                *)

LiveRow(f) == row[f] # Absent /\ ~Expired(row[f].exp)

\* hget, hmget, hgetall, hscan, hrangebylex: what a reader sees of a field.
Seen(f) == IF Readable /\ LiveRow(f) THEN row[f] ELSE Absent

\* Legitimate or not, what a scan of the rows alone would see.
Held == [f \in Fields |-> IF Live /\ LiveRow(f) THEN row[f] ELSE Absent]

----------------------------------------------------------------------------
(* What others do, and all steps together.                                 *)

\* An expiry of the key passes.
Lapse ==
    /\ Live
    /\ meta' = [meta EXCEPT !.lapsed = TRUE]
    /\ UNCHANGED <<row, ret>>

\* DEL of a live hash, or the sweep of an expired one.
Erase ==
    /\ meta # Absent
    /\ meta' = Absent
    /\ row' = NoRows
    /\ UNCHANGED ret

Moments == 1 .. MaxNow
Conditions == {"none", "nx", "xx", "gt", "lt"}

Call ==
    \/ \E ps \in Pairs :
          \/ asked' = <<"set", ps>> /\ HSet(ps)
          \/ \E cond \in {"none", "nx", "xx"}, action \in {"discard", "keep", "set"}, at \in Moments :
                asked' = <<"setex", ps, cond, action, at>> /\ HSetEx(ps, cond, action, at)
    \/ \E f \in Fields : \/ asked' = <<"setnx", f>> /\ HSetNx(f, 1)
                         \/ asked' = <<"incr", f>> /\ HIncrBy(f)
    \/ \E fs \in Lists :
          \/ asked' = <<"del", fs>> /\ HDel(fs)
          \/ asked' = <<"getdel", fs>> /\ HGetDel(fs)
          \/ asked' = <<"persist", fs>> /\ HPersist(fs)
          \/ \E at \in Moments :
                \/ \E cond \in Conditions : asked' = <<"expire", fs, at, cond>> /\ HExpire(fs, at, cond)
                \/ \E action \in {"discard", "set", "persist"} :
                      asked' = <<"getex", fs, action, at>> /\ HGetEx(fs, action, at)
    \/ asked' = <<"len">> /\ HLen
    \/ asked' = <<"vanish">> /\ (Lapse \/ Erase)

Tick == now < MaxNow /\ now' = now + 1 /\ UNCHANGED <<meta, row, asked, ret>>

Next == (Call /\ UNCHANGED now) \/ Tick

Spec == Init /\ [][Next]_vars

----------------------------------------------------------------------------
(* Properties.                                                             *)

(* The variables have their types.                                         *)
TypeOK ==
    /\ now \in 1 .. MaxNow
    /\ meta \in Metas \cup {Absent}
    /\ \A f \in Fields : row[f] = Absent \/ (row[f].val \in 0 .. MaxVal /\ row[f].exp \in 0 .. MaxNow)

(* The bounds in the record hold every expiry a row has, it counts at      *)
(* least the rows, and just the rows that never expire                     *)
(* (the transitions of HashMeta): no reader may say "all gone", and HLEN   *)
(* may not answer from the record, when a row says otherwise.              *)
BoundsExact ==
    Live =>
        /\ meta.size >= Cardinality({f \in Fields : row[f] # Absent})
        /\ meta.persist = Cardinality({f \in Fields : row[f] # Absent /\ row[f].exp = 0})
        /\ \A f \in Fields : row[f] # Absent /\ row[f].exp # 0 =>
              meta.lower # 0 /\ meta.lower <= row[f].exp /\ row[f].exp <= meta.upper

(* Readers that stop at the bounds see what the rows hold.                 *)
ReadsExact == \A f \in Fields : Seen(f) = Held[f]

Hashes == INSTANCE RedisHashes WITH held <- Held

(* The store implements hashes whose fields come and go with time, with    *)
(* every command's answer: HLEN is the number of live fields although it   *)
(* trusts the record, whatever has run out since and whatever HSETEX       *)
(* counted twice.                                                          *)
ImplementsRedisHashes == Hashes!Init /\ [][Hashes!HashNext]_(Hashes!vars)
=============================================================================
