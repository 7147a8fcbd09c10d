------------------------------ MODULE Keyspace ------------------------------
(***************************************************************************)
(* The life of a key across types, as embed/src/api/key and the handlers   *)
(* of strings, sets and sorted integers keep it.  A key is not one record: *)
(* a raw string in partition data, one metadata record per collection type *)
(* in partition meta, and the members of each collection as subkeys in     *)
(* data, with nothing in a subkey that says which generation it is of.     *)
(* Expiry only hides a record; the bytes stay until a writer or the sweep  *)
(* removes them.  So several records of different types can lie at one     *)
(* key, and the handlers must agree on which of them is the key.           *)
(*                                                                         *)
(* One caller at a time: each action is a whole handler with its one       *)
(* atomic batch.  The clock does not go back.                              *)
(***************************************************************************)
EXTENDS Integers, Sequences, FiniteSets

CONSTANTS
    Keys, Members, Values, Expiries, CopyNx, MaxNow,   \* as in RedisKeys
    Tags,        \* ALL_COMPOSITE_META_TAGS, in its order, of the types modelled
    Absent       \* no record

ASSUME KeyspaceAssumption ==
    /\ Tags \in Seq(STRING)
    /\ "string" \notin {Tags[i] : i \in 1 .. Len(Tags)}
    /\ Expiries \subseteq Nat
    /\ MaxNow \in Nat
    /\ CopyNx \subseteq BOOLEAN
    /\ IsFiniteSet(Keys)
    /\ IsFiniteSet(Members)

Types == {Tags[i] : i \in 1 .. Len(Tags)}

Strings == [val : Values, exp : Nat]
Metas == [size : Nat, exp : Nat]

ASSUME AbsentAssumption == Absent \notin Strings /\ Absent \notin Metas

VARIABLES
    now,         \* current_now_ms()
    str,         \* raw string values in partition data
    meta,        \* metadata records in partition meta
    sub,         \* members stored as subkeys in partition data
    ret          \* what the last call returned

vars == <<now, str, meta, sub, ret>>
store == <<str, meta, sub>>

\* Return values other than counts.
Ok == -1
Nil == -2
WrongType == -3
NoSuchKey == -4

SetModes == {"plain", "nx", "xx", "get", "keepttl"}
ExpireConditions == {"none", "nx", "xx", "gt", "lt"}

TypeOK ==
    /\ now \in 0 .. MaxNow
    /\ str \in [Keys -> Strings \cup {Absent}]
    /\ meta \in [Types \X Keys -> Metas \cup {Absent}]
    /\ sub \in [Types \X Keys -> SUBSET Members]
    /\ ret \in Int

Init ==
    /\ now = 0
    /\ str = [k \in Keys |-> Absent]
    /\ meta = [x \in Types \X Keys |-> Absent]
    /\ sub = [x \in Types \X Keys |-> {}]
    /\ ret = Ok

Tick ==
    /\ now < MaxNow
    /\ now' = now + 1
    /\ UNCHANGED <<store, ret>>

Return(r) == ret' = r /\ UNCHANGED now
Reply(r) == Return(r) /\ UNCHANGED store

----------------------------------------------------------------------------
(* What the records at a key mean.                                         *)

\* is_string_expired: an expiry that is set and not in the future.
Passed(exp) == exp > 0 /\ exp <= now

StrLive(k) == str[k] # Absent /\ ~Passed(str[k].exp)

\* KeyMeta::is_expired: an empty collection counts as expired too.
MetaExpired(m) == m.size = 0 \/ Passed(m.exp)

MetaLive(t, k) == meta[<<t, k>>] # Absent /\ ~MetaExpired(meta[<<t, k>>])

CompositeLive(k) == \E t \in Types : MetaLive(t, k)

\* exists_one.
Exists(k) == StrLive(k) \/ CompositeLive(k)

\* The first of the types T in the order of the table.
First(T) ==
    Tags[CHOOSE i \in 1 .. Len(Tags) : Tags[i] \in T /\ \A j \in 1 .. (i - 1) : Tags[j] \notin T]

\* find_active_composite_meta, when there is one.
ActiveTag(k) == First({t \in Types : MetaLive(t, k)})

\* Mutant: the other collection types are not looked at.
MetaCheckedStringOnly(t, k) ==
    IF StrLive(k) THEN "wrongtype" ELSE IF MetaLive(t, k) THEN "some" ELSE "none"

\* get_meta_checked: a live string masks everything; then the type's own
\* record; then any live record of another type is in the way.
MetaChecked(t, k) ==
    IF StrLive(k) THEN "wrongtype"
    ELSE IF MetaLive(t, k) THEN "some"
    ELSE IF \E u \in Types \ {t} : MetaLive(u, k) THEN "wrongtype"
    ELSE "none"

\* get_string_raw.
StringChecked(k) ==
    IF StrLive(k) THEN "some" ELSE IF CompositeLive(k) THEN "wrongtype" ELSE "none"

----------------------------------------------------------------------------
(* Removing records.                                                       *)

\* The cleanup of tags T at key k: each existing record and its subkeys.
Doomed(k, T) == {x \in T \X {k} : meta[x] # Absent}

\* Mutant: the subkeys of removed records stay.
SubClearedNot(X) == sub

MetaCleared(X) == [x \in Types \X Keys |-> IF x \in X THEN Absent ELSE meta[x]]
SubCleared(X) == [x \in Types \X Keys |-> IF x \in X THEN {} ELSE sub[x]]

Cleanup(X) == meta' = MetaCleared(X) /\ sub' = SubCleared(X)

\* cleanup_all_composite_data: expired records are removed like live ones.
CleanupAll(k) == Cleanup(Doomed(k, Types))

----------------------------------------------------------------------------
(* Strings: set_internal, write_string_val, getdel.                        *)

WriteString(k, x, clean) ==
    /\ str' = [str EXCEPT ![k] = x]
    /\ IF clean THEN CleanupAll(k) ELSE UNCHANGED <<meta, sub>>

SetCondition(mode, old) ==
    CASE mode = "nx" -> old = "none"
      [] mode = "xx" -> old # "none"
      [] OTHER       -> TRUE

\* The fast path overwrites unseen and always cleans; the slow path has read
\* the old value and cleans only when it met another type.
Set(k, v, e, mode) ==
    LET old == StringChecked(k)
        exp == IF mode # "keepttl" THEN e
               ELSE IF old = "some" THEN str[k].exp ELSE 0
    IN  \/ /\ mode = "plain"
           /\ WriteString(k, [val |-> v, exp |-> e], TRUE)
           /\ Return(Ok)
        \/ /\ mode # "plain"
           /\ ~(mode = "get" /\ old = "wrongtype")
           /\ SetCondition(mode, old)
           /\ WriteString(k, [val |-> v, exp |-> exp], old = "wrongtype")
           /\ Return(Ok)
        \/ /\ mode = "get" /\ old = "wrongtype"
           /\ Reply(WrongType)
        \/ /\ ~SetCondition(mode, old)
           /\ Reply(Nil)

GetDel(k) ==
    \/ /\ StringChecked(k) = "some"
       /\ str' = [str EXCEPT ![k] = Absent]
       /\ UNCHANGED <<meta, sub>>
       /\ Return(1)
    \/ /\ StringChecked(k) # "some"
       /\ Reply(IF StringChecked(k) = "wrongtype" THEN WrongType ELSE 0)

----------------------------------------------------------------------------
(* Collections: sadd and srem, si_add and si_rem, of one member.           *)

StoreMember(t, k, m, members, size, exp) ==
    /\ sub' = [sub EXCEPT ![<<t, k>>] = members \cup {m}]
    /\ meta' = [meta EXCEPT ![<<t, k>>] = [size |-> size + 1, exp |-> exp]]
    /\ UNCHANGED str
    /\ Return(1)

\* A collection that is not live starts anew: leftover subkeys are cleared.
Add(t, k, m) ==
    \/ /\ MetaChecked(t, k) = "none"
       /\ StoreMember(t, k, m, {}, 0, 0)
    \/ /\ MetaChecked(t, k) = "some"
       /\ m \notin sub[<<t, k>>]
       /\ StoreMember(t, k, m, sub[<<t, k>>], meta[<<t, k>>].size, meta[<<t, k>>].exp)
    \/ /\ MetaChecked(t, k) = "some"
       /\ m \in sub[<<t, k>>]
       /\ Reply(0)
    \/ /\ MetaChecked(t, k) = "wrongtype"
       /\ Reply(WrongType)

Remove(t, k, m) ==
    \/ /\ MetaChecked(t, k) = "some"
       /\ m \in sub[<<t, k>>]
       /\ sub' = [sub EXCEPT ![<<t, k>>] = @ \ {m}]
       /\ meta' = [meta EXCEPT ![<<t, k>>] =
                     IF @.size = 1 THEN Absent
                     ELSE [size |-> @.size - 1, exp |-> @.exp]]
       /\ UNCHANGED str
       /\ Return(1)
    \/ /\ MetaChecked(t, k) = "some" => m \notin sub[<<t, k>>]
       /\ Reply(IF MetaChecked(t, k) = "wrongtype" THEN WrongType ELSE 0)

----------------------------------------------------------------------------
(* Any key: expire, copy, rename, del, flushdb, sweep.                     *)

\* Mutant: a key without expiry is taken to expire first, not last.
ShouldUpdateZeroFirst(cond, cur, new) ==
    CASE cond = "nx" -> cur = 0
      [] cond = "xx" -> cur > 0
      [] cond = "gt" -> new > cur
      [] cond = "lt" -> new < cur
      [] OTHER       -> TRUE

\* ExpireCondition::should_update.
ShouldUpdate(cond, cur, new) ==
    CASE cond = "nx" -> cur = 0
      [] cond = "xx" -> cur > 0
      [] cond = "gt" -> cur > 0 /\ new > cur
      [] cond = "lt" -> cur = 0 \/ new < cur
      [] OTHER       -> TRUE

Updates(cond, cur, new) == ~(new = 0 /\ cur = 0) /\ ShouldUpdate(cond, cur, new)

\* Mutant: PERSIST stores the -1 that TTL answers for a key without expiry.
ExpireAtMinusOne(k, e, cond) ==
    /\ ~StrLive(k)
    /\ CompositeLive(k)
    /\ Updates(cond, meta[<<ActiveTag(k), k>>].exp, e)
    /\ meta' = [meta EXCEPT ![<<ActiveTag(k), k>>].exp = IF e = 0 THEN -1 ELSE e]
    /\ UNCHANGED <<str, sub>>
    /\ Return(1)

\* set_key_expire_at_impl_with_condition; expiry 0 is PERSIST.
ExpireAt(k, e, cond) ==
    \/ /\ StrLive(k)
       /\ Updates(cond, str[k].exp, e)
       /\ str' = [str EXCEPT ![k].exp = e]
       /\ UNCHANGED <<meta, sub>>
       /\ Return(1)
    \/ /\ ~StrLive(k)
       /\ CompositeLive(k)
       /\ Updates(cond, meta[<<ActiveTag(k), k>>].exp, e)
       /\ meta' = [meta EXCEPT ![<<ActiveTag(k), k>>].exp = e]
       /\ UNCHANGED <<str, sub>>
       /\ Return(1)
    \/ /\ StrLive(k) => ~Updates(cond, str[k].exp, e)
       /\ (~StrLive(k) /\ CompositeLive(k)) => ~Updates(cond, meta[<<ActiveTag(k), k>>].exp, e)
       /\ Reply(0)

\* copy_impl of a live string: unless nx, the destination is cleaned first.
CopyString(s, d, nx, move) ==
    /\ str' = [k \in Keys |-> IF k = d THEN str[s]
                              ELSE IF move /\ k = s THEN Absent ELSE str[k]]
    /\ IF nx THEN UNCHANGED <<meta, sub>> ELSE CleanupAll(d)

\* Mutant: a move leaves the source's metadata record behind.
CopyCompositeKeep(t, s, d, nx, move) ==
    LET doomed == IF nx THEN {} ELSE Doomed(d, Types)
    IN  /\ str' = IF nx THEN str ELSE [str EXCEPT ![d] = Absent]
        /\ meta' = [MetaCleared(doomed) EXCEPT ![<<t, d>>] = meta[<<t, s>>]]
        /\ sub' = [SubCleared(doomed) EXCEPT
                     ![<<t, d>>] = @ \cup sub[<<t, s>>],
                     ![<<t, s>>] = IF move THEN {} ELSE @]

\* copy_impl of the live collection of type t: its record and its subkeys
\* are written over whatever cleaning has left of the destination.
CopyComposite(t, s, d, nx, move) ==
    LET doomed == IF nx THEN {} ELSE Doomed(d, Types)
    IN  /\ str' = IF nx THEN str ELSE [str EXCEPT ![d] = Absent]
        /\ meta' = [MetaCleared(doomed) EXCEPT
                      ![<<t, d>>] = meta[<<t, s>>],
                      ![<<t, s>>] = IF move THEN Absent ELSE @]
        /\ sub' = [SubCleared(doomed) EXCEPT
                     ![<<t, d>>] = @ \cup sub[<<t, s>>],
                     ![<<t, s>>] = IF move THEN {} ELSE @]

\* copy_impl for s # d; what the callers answer is r.
CopyImpl(s, d, nx, move, r) ==
    \/ /\ ~(nx /\ Exists(d))
       /\ StrLive(s)
       /\ CopyString(s, d, nx, move)
       /\ Return(r)
    \/ /\ ~(nx /\ Exists(d))
       /\ ~StrLive(s)
       /\ CompositeLive(s)
       /\ CopyComposite(ActiveTag(s), s, d, nx, move)
       /\ Return(r)

Copy(s, d, nx) ==
    \/ s # d /\ CopyImpl(s, d, nx, FALSE, 1)
    \/ /\ s = d \/ ~Exists(s) \/ (nx /\ Exists(d))
       /\ Reply(IF s = d /\ Exists(s) /\ ~nx THEN 1 ELSE 0)

Rename(s, d) ==
    \/ s # d /\ CopyImpl(s, d, FALSE, TRUE, Ok)
    \/ /\ s = d \/ ~Exists(s)
       /\ Reply(IF Exists(s) THEN Ok ELSE NoSuchKey)

RenameNx(s, d) ==
    \/ s # d /\ CopyImpl(s, d, TRUE, TRUE, 1)
    \/ /\ ~Exists(s) \/ Exists(d)
       /\ Reply(IF Exists(s) THEN 0 ELSE NoSuchKey)

\* The records del_impl removes beside the raw string: none under a live
\* string; else those of the first tag that has a record, live or expired,
\* for the loop over the tags breaks there.
DelDoomed(k) ==
    LET stored == {t \in Types : meta[<<t, k>>] # Absent}
    IN  IF StrLive(k) \/ stored = {} THEN {} ELSE {<<First(stored), k>>}

DelHits(k) == StrLive(k) \/ \E x \in DelDoomed(k) : MetaLive(x[1], x[2])

Del(K) ==
    /\ str' = [k \in Keys |-> IF k \in K THEN Absent ELSE str[k]]
    /\ Cleanup(UNION {DelDoomed(k) : k \in K})
    /\ Return(Cardinality({k \in K : DelHits(k)}))

FlushDb ==
    /\ str' = [k \in Keys |-> Absent]
    /\ meta' = [x \in Types \X Keys |-> Absent]
    /\ sub' = [x \in Types \X Keys |-> {}]
    /\ Return(Ok)

\* sweep_expired with a sample that spans both partitions, alone in them.
Sweep ==
    /\ str' = [k \in Keys |-> IF str[k] # Absent /\ Passed(str[k].exp)
                                THEN Absent ELSE str[k]]
    /\ Cleanup({x \in Types \X Keys : meta[x] # Absent /\ MetaExpired(meta[x])})
    /\ UNCHANGED <<now, ret>>

\* Bound: a caller copies with this nx over records that have expired.
MayCopy(d, nx) == nx \in CopyNx \/ \A t \in Types : meta[<<t, d>>] = Absent \/ MetaLive(t, d)

Next ==
    \/ Tick
    \/ FlushDb
    \/ Sweep
    \/ \E K \in SUBSET Keys \ {{}} : Del(K)
    \/ \E k \in Keys :
          \/ \E v \in Values, e \in Expiries, mode \in SetModes : Set(k, v, e, mode)
          \/ GetDel(k)
          \/ \E t \in Types, m \in Members : Add(t, k, m) \/ Remove(t, k, m)
          \/ \E e \in Expiries, cond \in ExpireConditions : ExpireAt(k, e, cond)
          \/ \E d \in Keys :
                \/ Rename(k, d)
                \/ MayCopy(d, TRUE) /\ RenameNx(k, d)
                \/ \E nx \in BOOLEAN : MayCopy(d, nx) /\ Copy(k, d, nx)

Spec == Init /\ [][Next]_vars

----------------------------------------------------------------------------
(* Properties.                                                             *)

\* The comment in del_impl: a live key belongs to a single type.  At most
\* one record of a key is live, whatever expired records lie beside it.
OneLiveType ==
    \A k \in Keys :
        /\ StrLive(k) => ~CompositeLive(k)
        /\ \A t, u \in Types : MetaLive(t, k) /\ MetaLive(u, k) => t = u

\* Every record's size is the number of its subkeys, never 0, and no subkey
\* lies without a record: nothing stored can be counted twice, missed by the
\* cleanup or taken over by a later collection.
SizeExact ==
    \A x \in Types \X Keys :
        IF meta[x] = Absent THEN sub[x] = {}
        ELSE meta[x].size > 0 /\ meta[x].size = Cardinality(sub[x])

\* What readers see of a key: type, contents and expiry of its live record.
View ==
    [k \in {i \in Keys : Exists(i)} |->
        IF StrLive(k)
          THEN [type |-> "string", val |-> str[k].val, exp |-> str[k].exp]
          ELSE LET t == ActiveTag(k)
               IN  [type |-> t, val |-> sub[<<t, k>>], exp |-> meta[<<t, k>>].exp]]

Redis == INSTANCE RedisKeys WITH obj <- View

\* Every handler does to the visible keys what RedisKeys promises: in
\* particular nothing expired or overwritten is ever visible again, no call
\* touches another key, and the sweep and the clock change nothing else.
ImplementsRedisKeys == Redis!Spec

\* The refinement alone lets a handler do what another call would do.  Call
\* by call: given its own arguments each handler does what RedisKeys says of
\* that operation with those arguments.
CallExact ==
    \A k \in Keys :
        /\ \A v \in Values, e \in Expiries, mode \in SetModes :
              Set(k, v, e, mode) => Redis!Set(k, v, e, mode)
        /\ \A e \in Expiries, cond \in ExpireConditions :
              ExpireAt(k, e, cond) => Redis!ExpireAt(k, e, cond)
        /\ \A t \in Types, m \in Members :
              /\ Add(t, k, m) => Redis!Add(t, k, m)
              /\ Remove(t, k, m) => Redis!Remove(t, k, m)
        /\ GetDel(k) => Redis!GetDel(k)

\* "COPY: copies or moves a key and all its associated subkeys" (copy.rs):
\* after a copy that answers true, destination and source look the same.
CopyExact ==
    [][\A s, d \in Keys, nx \in CopyNx :
         (s # d /\ Copy(s, d, nx) /\ ret' = 1) =>
             d \in DOMAIN View' /\ View'[d] = View[s]]_vars

\* "DEL: deletes one or more keys" (del_impl): afterwards the key is gone.
DelRemoves ==
    [][\A k \in Keys : Del({k}) => k \notin DOMAIN View']_vars
============================================================================
