--------------------------- MODULE KeyspaceProofs ---------------------------
(***************************************************************************)
(* Proofs about Keyspace for any keys, members, expiries, table of tags    *)
(* and clock bound.  OneLiveType holds for every handler, COPY NX and      *)
(* RENAMENX included, and needs only the types beside it: a handler either *)
(* makes fewer records live, or makes one record of one key live after it  *)
(* has seen or made every other record of that key dead.                   *)
(***************************************************************************)
EXTENDS Keyspace, TLAPS, FiniteSetTheorems, WellFoundedInduction

USE DEF Strings, Metas

----------------------------------------------------------------------------
(* The first type of a set.                                                *)

\* First picks a member of any non-empty set of types: the table has a least
\* index that holds one of them.
LEMMA FirstIn ==
    ASSUME NEW T \in SUBSET Types, T # {}
    PROVE  First(T) \in T
<1>. DEFINE I == {i \in 1 .. Len(Tags) : Tags[i] \in T}
            R == OpToRel(<, Nat)
<1>1. Len(Tags) \in Nat
  BY KeyspaceAssumption
<1>2. I \subseteq Nat /\ I # {}
  BY <1>1 DEF Types
<1>3. \E i \in I : \A j \in I : ~ (<<j, i>> \in R)
  BY <1>2, NatLessThanWellFounded, WFMin
<1>4. PICK i \in I : \A j \in I : ~ (<<j, i>> \in R)
  BY <1>3
<1>5. \A j \in I : ~ (j < i)
  BY <1>2, <1>4 DEF OpToRel
<1>6. \A j \in 1 .. (i - 1) : Tags[j] \notin T
  BY <1>1, <1>5
<1>7. \E n \in 1 .. Len(Tags) : Tags[n] \in T /\ \A j \in 1 .. (n - 1) : Tags[j] \notin T
  BY <1>4, <1>6
<1>. QED
  BY <1>7 DEF First

\* The active tag of a key with a live collection is the type of one.
LEMMA ActiveTagLive ==
    ASSUME NEW k \in Keys, CompositeLive(k)
    PROVE  ActiveTag(k) \in Types /\ MetaLive(ActiveTag(k), k)
<1>. DEFINE T == {t \in Types : MetaLive(t, k)}
<1>1. T \in SUBSET Types /\ T # {}
  BY DEF CompositeLive
<1>2. First(T) \in T
  BY <1>1, FirstIn
<1>. QED
  BY <1>2 DEF ActiveTag

----------------------------------------------------------------------------
(* Type correctness.                                                       *)

\* A call that only answers keeps the types.
LEMMA ReplyType ==
    ASSUME TypeOK, NEW r \in Int, Reply(r)
    PROVE  TypeOK'
BY DEF TypeOK, store, Reply, Return

\* Removing a set of records and their subkeys keeps the types of both maps.
LEMMA CleanupType ==
    ASSUME TypeOK, NEW X
    PROVE  /\ MetaCleared(X) \in [Types \X Keys -> Metas \cup {Absent}]
           /\ SubCleared(X) \in [Types \X Keys -> SUBSET Members]
BY DEF TypeOK, MetaCleared, SubCleared

LEMMA WriteStringType ==
    ASSUME TypeOK, NEW k \in Keys, NEW x \in Strings, NEW c \in BOOLEAN,
           NEW r \in Int, WriteString(k, x, c), Return(r)
    PROVE  TypeOK'
BY CleanupType DEF TypeOK, Return, WriteString, CleanupAll, Cleanup

LEMMA CopyCompositeType ==
    ASSUME TypeOK, NEW t \in Types, NEW s \in Keys, NEW d \in Keys, NEW nx, NEW mv,
           CopyComposite(t, s, d, nx, mv)
    PROVE  /\ str' \in [Keys -> Strings \cup {Absent}]
           /\ meta' \in [Types \X Keys -> Metas \cup {Absent}]
           /\ sub' \in [Types \X Keys -> SUBSET Members]
<1>. DEFINE X == IF nx THEN {} ELSE Doomed(d, Types)
<1>1. /\ MetaCleared(X) \in [Types \X Keys -> Metas \cup {Absent}]
      /\ SubCleared(X) \in [Types \X Keys -> SUBSET Members]
  BY CleanupType
<1>. HIDE DEF X
<1>2. /\ str' = (IF nx THEN str ELSE [str EXCEPT ![d] = Absent])
      /\ meta' = [MetaCleared(X) EXCEPT
                    ![<<t, d>>] = meta[<<t, s>>],
                    ![<<t, s>>] = IF mv THEN Absent ELSE @]
      /\ sub' = [SubCleared(X) EXCEPT
                    ![<<t, d>>] = @ \cup sub[<<t, s>>],
                    ![<<t, s>>] = IF mv THEN {} ELSE @]
  BY DEF CopyComposite, X
<1>. QED
  BY <1>1, <1>2 DEF TypeOK

LEMMA CopyImplType ==
    ASSUME TypeOK, NEW s \in Keys, NEW d \in Keys,
           NEW nx \in BOOLEAN, NEW mv \in BOOLEAN, NEW r \in Int,
           CopyImpl(s, d, nx, mv, r)
    PROVE  TypeOK'
<1>1. CASE CopyString(s, d, nx, mv) /\ StrLive(s)
  BY <1>1, CleanupType
     DEF TypeOK, CopyImpl, CopyString, CleanupAll, Cleanup, Return, StrLive
<1>2. CASE CopyComposite(ActiveTag(s), s, d, nx, mv) /\ CompositeLive(s)
  <2>1. ret' = r /\ now' = now
    BY DEF CopyImpl, Return
  <2>2. ActiveTag(s) \in Types
    BY <1>2, ActiveTagLive
  <2>. QED
    BY <1>2, <2>1, <2>2, CopyCompositeType DEF TypeOK
<1>. QED
  BY <1>1, <1>2 DEF CopyImpl

\* Every record keeps its shape: a stored size is never negative, an expiry
\* is a time, and subkeys are members.
THEOREM TypeCorrect == Spec => []TypeOK
<1>. USE KeyspaceAssumption, AbsentAssumption
<1>ints. /\ 0 \in Int /\ 1 \in Int
         /\ Ok \in Int /\ Nil \in Int /\ WrongType \in Int /\ NoSuchKey \in Int
  BY DEF Ok, Nil, WrongType, NoSuchKey
<1>bools. TRUE \in BOOLEAN /\ FALSE \in BOOLEAN
  OBVIOUS
<1>1. Init => TypeOK
  BY <1>ints DEF Init, TypeOK
<1>2. TypeOK /\ [Next]_vars => TypeOK'
  <2> SUFFICES ASSUME TypeOK, [Next]_vars PROVE TypeOK'
    OBVIOUS
  <2>1. CASE Tick
    BY <2>1 DEF TypeOK, Tick, store
  <2>2. CASE FlushDb
    BY <1>ints, <2>2 DEF TypeOK, FlushDb, Return
  <2>3. CASE Sweep
    <3>. DEFINE X == {x \in Types \X Keys : meta[x] # Absent /\ MetaExpired(meta[x])}
    <3>1. meta' = MetaCleared(X) /\ sub' = SubCleared(X)
      BY <2>3 DEF Sweep, Cleanup
    <3>. HIDE DEF X
    <3>2. str' \in [Keys -> Strings \cup {Absent}] /\ UNCHANGED <<now, ret>>
      BY <2>3 DEF Sweep, TypeOK
    <3>. QED
      BY <3>1, <3>2, CleanupType DEF TypeOK
  <2>4. ASSUME NEW K \in SUBSET Keys \ {{}}, Del(K) PROVE TypeOK'
    <3>. DEFINE X == UNION {DelDoomed(k) : k \in K}
                H == {k \in K : DelHits(k)}
    <3>1. meta' = MetaCleared(X) /\ sub' = SubCleared(X)
      BY <2>4 DEF Del, Cleanup
    <3>. HIDE DEF X
    <3>2. str' \in [Keys -> Strings \cup {Absent}] /\ UNCHANGED now
      BY <2>4 DEF Del, Return, TypeOK
    <3>3. ret' = Cardinality(H) /\ IsFiniteSet(H)
      BY <2>4, FS_Subset DEF Del, Return
    <3>4. ret' \in Int
      BY <3>3, FS_CardinalityType
    <3>. QED
      BY <3>1, <3>2, <3>4, CleanupType DEF TypeOK
  <2>5. ASSUME NEW k \in Keys, NEW v \in Values, NEW e \in Expiries,
               NEW mode \in SetModes, Set(k, v, e, mode)
        PROVE  TypeOK'
    <3>. DEFINE old == StringChecked(k)
                exp == IF mode # "keepttl" THEN e
                       ELSE IF old = "some" THEN str[k].exp ELSE 0
    <3>1. old = "some" => str[k].exp \in Nat
      BY DEF StringChecked, StrLive, TypeOK
    <3>2. /\ [val |-> v, exp |-> e] \in Strings
          /\ [val |-> v, exp |-> exp] \in Strings
          /\ (old = "wrongtype") \in BOOLEAN
      BY <3>1
    <3>3. CASE WriteString(k, [val |-> v, exp |-> e], TRUE) /\ Return(Ok)
      BY <1>ints, <1>bools, <3>2, <3>3, WriteStringType, Zenon
    <3>4. CASE WriteString(k, [val |-> v, exp |-> exp], old = "wrongtype") /\ Return(Ok)
      BY <1>ints, <3>2, <3>4, WriteStringType, Zenon
    <3>5. CASE Reply(WrongType) \/ Reply(Nil)
      BY <1>ints, <3>5, ReplyType
    <3>. QED
      BY <2>5, <3>3, <3>4, <3>5, Zenon DEF Set
  <2>6. ASSUME NEW k \in Keys, GetDel(k) PROVE TypeOK'
    BY <1>ints, <2>6 DEF TypeOK, GetDel, Return, Reply, store
  <2>7. ASSUME NEW k \in Keys, NEW t \in Types, NEW m \in Members, Add(t, k, m)
        PROVE  TypeOK'
    <3>1. MetaChecked(t, k) = "some" => meta[<<t, k>>] \in Metas
      BY DEF MetaChecked, MetaLive, TypeOK
    <3>2. ASSUME NEW members \in SUBSET Members, NEW size \in Nat, NEW exp \in Nat,
                 StoreMember(t, k, m, members, size, exp)
          PROVE  TypeOK'
      BY <1>ints, <3>2 DEF TypeOK, StoreMember, Return
    <3>3. sub[<<t, k>>] \in SUBSET Members /\ {} \in SUBSET Members /\ 0 \in Nat
      BY DEF TypeOK
    <3>4. CASE StoreMember(t, k, m, {}, 0, 0)
      BY <3>2, <3>3, <3>4, Zenon
    <3>5. CASE /\ MetaChecked(t, k) = "some"
               /\ StoreMember(t, k, m, sub[<<t, k>>], meta[<<t, k>>].size, meta[<<t, k>>].exp)
      <4>1. meta[<<t, k>>].size \in Nat /\ meta[<<t, k>>].exp \in Nat
        BY <3>1, <3>5
      <4>. QED
        BY <3>2, <3>3, <3>5, <4>1, Zenon
    <3>6. CASE Reply(0) \/ Reply(WrongType)
      BY <1>ints, <3>6, ReplyType
    <3>. QED
      BY <2>7, <3>4, <3>5, <3>6 DEF Add
  <2>8. ASSUME NEW k \in Keys, NEW t \in Types, NEW m \in Members, Remove(t, k, m)
        PROVE  TypeOK'
    <3>1. MetaChecked(t, k) = "some" => meta[<<t, k>>] \in Metas /\ meta[<<t, k>>].size > 0
      BY DEF MetaChecked, MetaLive, MetaExpired, TypeOK
    <3>2. CASE /\ MetaChecked(t, k) = "some"
               /\ sub' = [sub EXCEPT ![<<t, k>>] = @ \ {m}]
               /\ meta' = [meta EXCEPT ![<<t, k>>] =
                             IF @.size = 1 THEN Absent
                             ELSE [size |-> @.size - 1, exp |-> @.exp]]
               /\ UNCHANGED str
               /\ Return(1)
      <4>1. meta[<<t, k>>].size - 1 \in Nat /\ meta[<<t, k>>].exp \in Nat
        BY <3>1, <3>2
      <4>2. meta' \in [Types \X Keys -> Metas \cup {Absent}]
        BY <3>2, <4>1 DEF TypeOK
      <4>3. sub' \in [Types \X Keys -> SUBSET Members]
        BY <3>2 DEF TypeOK
      <4>. QED
        BY <1>ints, <3>2, <4>2, <4>3 DEF TypeOK, Return
    <3>3. CASE \E r \in {WrongType, 0} : Reply(r)
      BY <1>ints, <3>3, ReplyType
    <3>. QED
      BY <2>8, <3>2, <3>3, Zenon DEF Remove
  <2>9. ASSUME NEW k \in Keys, NEW e \in Expiries, NEW cond \in ExpireConditions,
               ExpireAt(k, e, cond)
        PROVE  TypeOK'
    <3>1. CompositeLive(k) => /\ ActiveTag(k) \in Types
                              /\ meta[<<ActiveTag(k), k>>] \in Metas
      BY ActiveTagLive DEF MetaLive, TypeOK
    <3>2. StrLive(k) => str[k] \in Strings
      BY DEF StrLive, TypeOK
    <3>3. CASE Reply(0)
      BY <1>ints, <3>3, ReplyType
    <3>4. CASE StrLive(k) /\ str' = [str EXCEPT ![k].exp = e] /\ UNCHANGED <<meta, sub>> /\ Return(1)
      BY <1>ints, <3>2, <3>4 DEF TypeOK, Return
    <3>5. CASE /\ CompositeLive(k)
               /\ meta' = [meta EXCEPT ![<<ActiveTag(k), k>>].exp = e]
               /\ UNCHANGED <<str, sub>>
               /\ Return(1)
      BY <1>ints, <3>1, <3>5 DEF TypeOK, Return
    <3>. QED
      BY <2>9, <3>3, <3>4, <3>5, Zenon DEF ExpireAt
  <2>10. ASSUME NEW k \in Keys, NEW d \in Keys, Rename(k, d) PROVE TypeOK'
    <3>1. CASE CopyImpl(k, d, FALSE, TRUE, Ok)
      BY <1>ints, <1>bools, <3>1, CopyImplType, Zenon
    <3>2. CASE \E r \in {Ok, NoSuchKey} : Reply(r)
      BY <1>ints, <3>2, ReplyType
    <3>. QED
      BY <2>10, <3>1, <3>2 DEF Rename
  <2>11. ASSUME NEW k \in Keys, NEW d \in Keys, RenameNx(k, d) PROVE TypeOK'
    <3>1. CASE CopyImpl(k, d, TRUE, TRUE, 1)
      BY <1>ints, <1>bools, <3>1, CopyImplType, Zenon
    <3>2. CASE \E r \in {0, NoSuchKey} : Reply(r)
      BY <1>ints, <3>2, ReplyType
    <3>. QED
      BY <2>11, <3>1, <3>2 DEF RenameNx
  <2>12. ASSUME NEW k \in Keys, NEW d \in Keys, NEW nx \in BOOLEAN, Copy(k, d, nx)
         PROVE  TypeOK'
    <3>1. CASE CopyImpl(k, d, nx, FALSE, 1)
      BY <1>ints, <1>bools, <3>1, CopyImplType, Zenon
    <3>2. CASE \E r \in {0, 1} : Reply(r)
      BY <1>ints, <3>2, ReplyType
    <3>. QED
      BY <2>12, <3>1, <3>2 DEF Copy
  <2>13. CASE UNCHANGED vars
    BY <2>13 DEF TypeOK, vars
  <2>. QED
    BY <2>1, <2>2, <2>3, <2>4, <2>5, <2>6, <2>7, <2>8, <2>9, <2>10, <2>11, <2>12, <2>13
       DEF Next
<1>3. QED
  BY <1>1, <1>2, PTL DEF Spec

----------------------------------------------------------------------------
(* One live type.                                                          *)

\* No record of key k is live that was not live before.
NothingNew(k) ==
    /\ StrLive(k)' => StrLive(k)
    /\ \A t \in Types : MetaLive(t, k)' => MetaLive(t, k)

\* Only a string can be live at k, or only the collection of one type.
OnlyString(k) == \A t \in Types : ~MetaLive(t, k)'
OnlyType(k, u) == ~StrLive(k)' /\ \A t \in Types : MetaLive(t, k)' => t = u

\* The three ways in which a key can come out of a step.
LEMMA StepKeepsOneLiveType ==
    ASSUME OneLiveType,
           \A k \in Keys : \/ NothingNew(k)
                           \/ OnlyString(k)
                           \/ \E u \in Types : OnlyType(k, u)
    PROVE  OneLiveType'
BY DEF OneLiveType, CompositeLive, NothingNew, OnlyString, OnlyType

\* A record that stays as it is or goes away does not come to life, however
\* far the clock moves on.
LEMMA UntouchedNothingNew ==
    ASSUME TypeOK, now' \in Nat, now' >= now, NEW k \in Keys,
           str'[k] \in {str[k], Absent},
           \A t \in Types : meta'[<<t, k>>] \in {meta[<<t, k>>], Absent}
    PROVE  NothingNew(k)
<1>1. StrLive(k)' => StrLive(k)
  BY AbsentAssumption DEF TypeOK, StrLive, Passed
<1>2. ASSUME NEW t \in Types, MetaLive(t, k)' PROVE MetaLive(t, k)
  BY <1>2, AbsentAssumption DEF TypeOK, MetaLive, MetaExpired, Passed
<1>. QED
  BY <1>1, <1>2 DEF NothingNew

\* Cleaning a set of records, in terms of single records.
LEMMA ClearedRecord ==
    ASSUME NEW X, NEW x \in Types \X Keys
    PROVE  /\ MetaCleared(X)[x] \in {meta[x], Absent}
           /\ x \in X => MetaCleared(X)[x] = Absent
BY DEF MetaCleared

\* The cleanup of all types at d leaves no record there and every other one.
LEMMA CleanedKey ==
    ASSUME NEW d \in Keys, NEW k \in Keys, NEW t \in Types
    PROVE  MetaCleared(Doomed(d, Types))[<<t, k>>] =
               IF k = d THEN Absent ELSE meta[<<t, k>>]
BY DEF MetaCleared, Doomed

LEMMA WriteStringOneLive ==
    ASSUME TypeOK, OneLiveType, NEW k \in Keys, NEW x \in Strings, NEW c \in BOOLEAN,
           NEW r \in Int, WriteString(k, x, c), Return(r), c \/ ~CompositeLive(k)
    PROVE  OneLiveType'
<1>1. now' \in Nat /\ now' >= now /\ now' = now
  BY KeyspaceAssumption DEF TypeOK, Return
<1>2. ASSUME NEW i \in Keys, NEW t \in Types
      PROVE  meta'[<<t, i>>] = IF c /\ i = k THEN Absent ELSE meta[<<t, i>>]
  BY CleanedKey DEF WriteString, CleanupAll, Cleanup
<1>3. ASSUME NEW i \in Keys, i # k PROVE NothingNew(i)
  BY <1>1, <1>2, <1>3, UntouchedNothingNew DEF WriteString, TypeOK
<1>4. OnlyString(k)
  BY <1>1, <1>2 DEF OnlyString, CompositeLive, MetaLive, MetaExpired, Passed
<1>. QED
  BY <1>3, <1>4, StepKeepsOneLiveType

LEMMA CopyImplOneLive ==
    ASSUME TypeOK, OneLiveType, NEW s \in Keys, NEW d \in Keys, s # d,
           NEW nx \in BOOLEAN, NEW mv \in BOOLEAN, NEW r \in Int,
           CopyImpl(s, d, nx, mv, r)
    PROVE  OneLiveType'
<1>1. now' \in Nat /\ now' >= now /\ now' = now
  BY KeyspaceAssumption DEF TypeOK, CopyImpl, Return
<1>2. nx => ~StrLive(d) /\ \A t \in Types : ~MetaLive(t, d)
  BY DEF CopyImpl, Exists, CompositeLive
<1>3. CASE CopyString(s, d, nx, mv)
  <2>1. ASSUME NEW i \in Keys, NEW t \in Types
        PROVE  meta'[<<t, i>>] = IF ~nx /\ i = d THEN Absent ELSE meta[<<t, i>>]
    BY <1>3, CleanedKey DEF CopyString, CleanupAll, Cleanup
  <2>2. ASSUME NEW i \in Keys, i # d PROVE NothingNew(i)
    <3>1. str'[i] \in {str[i], Absent}
      BY <1>3, <2>2 DEF CopyString
    <3>. QED
      BY <1>1, <2>1, <2>2, <3>1, UntouchedNothingNew
  <2>3. OnlyString(d)
    BY <1>1, <1>2, <2>1 DEF OnlyString, MetaLive, MetaExpired, Passed
  <2>. QED
    BY <2>2, <2>3, StepKeepsOneLiveType
<1>4. ASSUME NEW t \in Types, CopyComposite(t, s, d, nx, mv) PROVE OneLiveType'
  <2>. DEFINE X == IF nx THEN {} ELSE Doomed(d, Types)
  <2>1. ASSUME NEW i \in Keys, NEW u \in Types
        PROVE  MetaCleared(X)[<<u, i>>] = IF ~nx /\ i = d THEN Absent ELSE meta[<<u, i>>]
    BY CleanedKey DEF MetaCleared
  <2>2. MetaCleared(X) \in [Types \X Keys -> Metas \cup {Absent}]
    BY CleanupType
  <2>. HIDE DEF X
  <2>3. /\ str' = (IF nx THEN str ELSE [str EXCEPT ![d] = Absent])
        /\ meta' = [MetaCleared(X) EXCEPT
                      ![<<t, d>>] = meta[<<t, s>>],
                      ![<<t, s>>] = IF mv THEN Absent ELSE @]
    BY <1>4 DEF CopyComposite, X
  <2>4. ASSUME NEW i \in Keys, i # d PROVE NothingNew(i)
    <3>1. str'[i] \in {str[i], Absent}
      BY <2>3, <2>4 DEF TypeOK
    <3>2. ASSUME NEW u \in Types PROVE meta'[<<u, i>>] \in {meta[<<u, i>>], Absent}
      BY <2>1, <2>2, <2>3, <2>4
    <3>. QED
      BY <1>1, <3>1, <3>2, UntouchedNothingNew
  <2>5. OnlyType(d, t)
    <3>1. str'[d] = (IF nx THEN str[d] ELSE Absent)
      BY <2>3 DEF TypeOK
    <3>2. ~StrLive(d)'
      BY <1>1, <1>2, <3>1 DEF StrLive, Passed
    <3>3. ASSUME NEW u \in Types, u # t PROVE ~MetaLive(u, d)'
      <4>1. meta'[<<u, d>>] = (IF nx THEN meta[<<u, d>>] ELSE Absent)
        BY <2>1, <2>2, <2>3, <3>3
      <4>. QED
        BY <1>1, <1>2, <4>1 DEF MetaLive, MetaExpired, Passed
    <3>. QED
      BY <3>2, <3>3 DEF OnlyType
  <2>. QED
    BY <2>4, <2>5, StepKeepsOneLiveType
<1>5. CompositeLive(s) => ActiveTag(s) \in Types
  BY ActiveTagLive
<1>. QED
  BY <1>3, <1>4, <1>5, Zenon DEF CopyImpl

LEMMA OneLiveStep ==
    ASSUME TypeOK, OneLiveType, [Next]_vars
    PROVE  OneLiveType'
<1>. USE KeyspaceAssumption, AbsentAssumption
<1>ints. /\ 0 \in Int /\ 1 \in Int
         /\ Ok \in Int /\ Nil \in Int /\ WrongType \in Int /\ NoSuchKey \in Int
  BY DEF Ok, Nil, WrongType, NoSuchKey
<1>bools. TRUE \in BOOLEAN /\ FALSE \in BOOLEAN
  OBVIOUS
<1>now. now \in Nat
  BY DEF TypeOK
\* A step that leaves records as they are or removes them.
<1>shrink. ASSUME now' \in Nat, now' >= now,
                  \A k \in Keys : str'[k] \in {str[k], Absent},
                  \A k \in Keys, t \in Types : meta'[<<t, k>>] \in {meta[<<t, k>>], Absent}
           PROVE  OneLiveType'
  BY <1>shrink, UntouchedNothingNew, StepKeepsOneLiveType
<1>reply. ASSUME NEW r \in Int, Reply(r) PROVE OneLiveType'
  BY <1>now, <1>reply, <1>shrink DEF Reply, Return, store
<1>1. CASE Tick
  BY <1>now, <1>1, <1>shrink DEF Tick, store
<1>2. CASE FlushDb
  BY <1>now, <1>2, <1>shrink DEF FlushDb, Return
<1>3. CASE Sweep
  BY <1>now, <1>3, <1>shrink, ClearedRecord DEF Sweep, Cleanup
<1>4. ASSUME NEW K \in SUBSET Keys \ {{}}, Del(K) PROVE OneLiveType'
  BY <1>now, <1>4, <1>shrink, ClearedRecord DEF Del, Cleanup, Return
<1>5. ASSUME NEW k \in Keys, NEW v \in Values, NEW e \in Expiries,
             NEW mode \in SetModes, Set(k, v, e, mode)
      PROVE  OneLiveType'
  <2>. DEFINE old == StringChecked(k)
              exp == IF mode # "keepttl" THEN e
                     ELSE IF old = "some" THEN str[k].exp ELSE 0
  <2>1. old = "some" => str[k].exp \in Nat
    BY DEF StringChecked, StrLive, TypeOK
  <2>2. /\ [val |-> v, exp |-> e] \in Strings
        /\ [val |-> v, exp |-> exp] \in Strings
        /\ (old = "wrongtype") \in BOOLEAN
    BY <2>1
  <2>3. old = "wrongtype" \/ ~CompositeLive(k)
    BY DEF StringChecked, OneLiveType
  <2>4. CASE WriteString(k, [val |-> v, exp |-> e], TRUE) /\ Return(Ok)
    BY <1>ints, <1>bools, <2>2, <2>4, WriteStringOneLive, Zenon
  <2>5. CASE WriteString(k, [val |-> v, exp |-> exp], old = "wrongtype") /\ Return(Ok)
    BY <1>ints, <2>2, <2>3, <2>5, WriteStringOneLive, Zenon
  <2>6. CASE Reply(WrongType) \/ Reply(Nil)
    BY <1>ints, <1>reply, <2>6
  <2>. QED
    BY <1>5, <2>4, <2>5, <2>6, Zenon DEF Set
<1>6. ASSUME NEW k \in Keys, GetDel(k) PROVE OneLiveType'
  BY <1>now, <1>6, <1>shrink DEF GetDel, Reply, Return, store, TypeOK
<1>7. ASSUME NEW k \in Keys, NEW t \in Types, NEW m \in Members, Add(t, k, m)
      PROVE  OneLiveType'
  <2>1. CASE \E r \in {0, WrongType} : Reply(r)
    BY <1>ints, <1>reply, <2>1
  <2>2. ASSUME NEW members, NEW size, NEW exp, StoreMember(t, k, m, members, size, exp),
               MetaChecked(t, k) # "wrongtype"
        PROVE  OneLiveType'
    <3>1. /\ ~StrLive(k)
          /\ \A u \in Types \ {t} : ~MetaLive(u, k)
      BY <2>2 DEF MetaChecked, OneLiveType
    <3>2. now' = now /\ str' = str
      BY <2>2 DEF StoreMember, Return
    <3>3. \A i \in Keys, u \in Types :
             <<u, i>> # <<t, k>> => meta'[<<u, i>>] = meta[<<u, i>>]
      BY <2>2 DEF StoreMember, TypeOK
    <3>4. OnlyType(k, t)
      BY <3>1, <3>2, <3>3 DEF OnlyType, StrLive, MetaLive, MetaExpired, Passed
    <3>5. ASSUME NEW i \in Keys, i # k PROVE NothingNew(i)
      BY <1>now, <3>2, <3>3, <3>5, UntouchedNothingNew
    <3>. QED
      BY <3>4, <3>5, StepKeepsOneLiveType
  <2>. QED
    BY <1>7, <2>1, <2>2 DEF Add
<1>8. ASSUME NEW k \in Keys, NEW t \in Types, NEW m \in Members, Remove(t, k, m)
      PROVE  OneLiveType'
  <2>1. CASE \E r \in {0, WrongType} : Reply(r)
    BY <1>ints, <1>reply, <2>1
  <2>2. CASE /\ MetaChecked(t, k) = "some"
             /\ meta' = [meta EXCEPT ![<<t, k>>] =
                           IF @.size = 1 THEN Absent
                           ELSE [size |-> @.size - 1, exp |-> @.exp]]
             /\ UNCHANGED <<now, str>>
    <3>1. ~StrLive(k) /\ MetaLive(t, k)
      BY <2>2 DEF MetaChecked
    <3>2. \A i \in Keys, u \in Types :
             <<u, i>> # <<t, k>> => meta'[<<u, i>>] = meta[<<u, i>>]
      BY <2>2 DEF TypeOK
    <3>3. NothingNew(k)
      BY <2>2, <3>1, <3>2 DEF NothingNew, StrLive, MetaLive, MetaExpired, Passed
    <3>4. ASSUME NEW i \in Keys, i # k PROVE NothingNew(i)
      BY <1>now, <2>2, <3>2, <3>4, UntouchedNothingNew
    <3>. QED
      BY <3>3, <3>4, StepKeepsOneLiveType
  <2>. QED
    BY <1>8, <2>1, <2>2 DEF Remove, Return
<1>9. ASSUME NEW k \in Keys, NEW e \in Expiries, NEW cond \in ExpireConditions,
             ExpireAt(k, e, cond)
      PROVE  OneLiveType'
  <2>1. CASE Reply(0)
    BY <1>ints, <1>reply, <2>1
  <2>2. CASE StrLive(k) /\ str' = [str EXCEPT ![k].exp = e] /\ UNCHANGED <<now, meta>>
    <3>1. ASSUME NEW i \in Keys PROVE NothingNew(i)
      BY <2>2, <3>1 DEF TypeOK, NothingNew, StrLive, MetaLive, MetaExpired, Passed
    <3>. QED
      BY <3>1, StepKeepsOneLiveType
  <2>3. CASE /\ CompositeLive(k)
             /\ meta' = [meta EXCEPT ![<<ActiveTag(k), k>>].exp = e]
             /\ UNCHANGED <<now, str>>
    <3>1. ActiveTag(k) \in Types /\ MetaLive(ActiveTag(k), k)
      BY <2>3, ActiveTagLive
    <3>2. ASSUME NEW i \in Keys PROVE NothingNew(i)
      BY <2>3, <3>1, <3>2 DEF TypeOK, NothingNew, StrLive, MetaLive, MetaExpired, Passed
    <3>. QED
      BY <3>2, StepKeepsOneLiveType
  <2>. QED
    BY <1>9, <2>1, <2>2, <2>3, Zenon DEF ExpireAt, Return
<1>10. ASSUME NEW k \in Keys, NEW d \in Keys, Rename(k, d) PROVE OneLiveType'
  <2>1. CASE k # d /\ CopyImpl(k, d, FALSE, TRUE, Ok)
    BY <1>ints, <1>bools, <2>1, CopyImplOneLive, Zenon
  <2>2. CASE \E r \in {Ok, NoSuchKey} : Reply(r)
    BY <1>ints, <1>reply, <2>2
  <2>. QED
    BY <1>10, <2>1, <2>2 DEF Rename
<1>11. ASSUME NEW k \in Keys, NEW d \in Keys, RenameNx(k, d) PROVE OneLiveType'
  <2>1. CASE k # d /\ CopyImpl(k, d, TRUE, TRUE, 1)
    BY <1>ints, <1>bools, <2>1, CopyImplOneLive, Zenon
  <2>2. CASE \E r \in {0, NoSuchKey} : Reply(r)
    BY <1>ints, <1>reply, <2>2
  <2>. QED
    BY <1>11, <2>1, <2>2 DEF RenameNx
<1>12. ASSUME NEW k \in Keys, NEW d \in Keys, NEW nx \in BOOLEAN, Copy(k, d, nx)
       PROVE  OneLiveType'
  <2>1. CASE k # d /\ CopyImpl(k, d, nx, FALSE, 1)
    BY <1>ints, <1>bools, <2>1, CopyImplOneLive, Zenon
  <2>2. CASE \E r \in {0, 1} : Reply(r)
    BY <1>ints, <1>reply, <2>2
  <2>. QED
    BY <1>12, <2>1, <2>2 DEF Copy
<1>13. CASE UNCHANGED vars
  BY <1>now, <1>13, <1>shrink DEF vars
<1>. QED
  BY <1>1, <1>2, <1>3, <1>4, <1>5, <1>6, <1>7, <1>8, <1>9, <1>10, <1>11, <1>12, <1>13
     DEF Next

\* At most one record of a key is live: the comment in del_impl says so, and
\* find_active_composite_meta and del_impl stop at the first hit because of it.
THEOREM LiveTypeUnique == Spec => []OneLiveType
<1>1. Init => OneLiveType
  BY DEF Init, OneLiveType, CompositeLive, StrLive, MetaLive
<1>. QED
  BY <1>1, OneLiveStep, TypeCorrect, PTL DEF Spec

----------------------------------------------------------------------------
(* Exact sizes.                                                            *)

\* SizeExact of one record m and its subkeys S.
RecordExact(m, S) ==
    IF m = Absent THEN S = {} ELSE m.size > 0 /\ m.size = Cardinality(S)

LEMMA SizeExactRecords ==
    SizeExact <=> \A x \in Types \X Keys : RecordExact(meta[x], sub[x])
BY DEF SizeExact, RecordExact

\* The subkeys of a record are finitely many.
LEMMA SubFinite ==
    ASSUME TypeOK, NEW x \in Types \X Keys
    PROVE  IsFiniteSet(sub[x]) /\ Cardinality(sub[x]) \in Nat
<1>1. sub[x] \in SUBSET Members
  BY DEF TypeOK
<1>. QED
  BY <1>1, KeyspaceAssumption, FS_Subset, FS_CardinalityType

\* A cleanup takes a record with all of its subkeys or leaves both.
LEMMA ClearedExact ==
    ASSUME SizeExact, NEW X, NEW x \in Types \X Keys
    PROVE  RecordExact(MetaCleared(X)[x], SubCleared(X)[x])
BY DEF SizeExact, RecordExact, MetaCleared, SubCleared

\* Cleaning all types of d leaves no subkey of d: where there is no record
\* there was none to begin with.
LEMMA CleanedSub ==
    ASSUME SizeExact, NEW d \in Keys, NEW k \in Keys, NEW t \in Types
    PROVE  SubCleared(Doomed(d, Types))[<<t, k>>] = IF k = d THEN {} ELSE sub[<<t, k>>]
BY DEF SizeExact, SubCleared, Doomed

LEMMA CleanupExact ==
    ASSUME SizeExact, NEW X, Cleanup(X)
    PROVE  SizeExact'
BY ClearedExact DEF Cleanup, SizeExact, RecordExact

\* What a copy of one collection leaves in every record.  What bounds MayCopy
\* in a run is a hypothesis here: nobody copies or renames with NX onto the
\* records of a collection that has expired.
LEMMA CopyCompositeRecords ==
    ASSUME TypeOK, SizeExact, NEW t \in Types, NEW s \in Keys, NEW d \in Keys, s # d,
           NEW nx \in BOOLEAN, NEW mv \in BOOLEAN, CopyComposite(t, s, d, nx, mv),
           nx => \A u \in Types : meta[<<u, d>>] = Absent,
           NEW u \in Types, NEW i \in Keys
    PROVE  /\ meta'[<<u, i>>] = IF i = d THEN IF u = t THEN meta[<<t, s>>] ELSE Absent
                               ELSE IF mv /\ i = s /\ u = t THEN Absent
                               ELSE meta[<<u, i>>]
           /\ sub'[<<u, i>>] = IF i = d THEN IF u = t THEN sub[<<t, s>>] ELSE {}
                              ELSE IF mv /\ i = s /\ u = t THEN {}
                              ELSE sub[<<u, i>>]
<1>. DEFINE X == IF nx THEN {} ELSE Doomed(d, Types)
<1>1. /\ MetaCleared(X) \in [Types \X Keys -> Metas \cup {Absent}]
      /\ SubCleared(X) \in [Types \X Keys -> SUBSET Members]
  BY CleanupType
<1>2. ASSUME NEW w \in Types, NEW j \in Keys
      PROVE  /\ MetaCleared(X)[<<w, j>>] = IF j = d THEN Absent ELSE meta[<<w, j>>]
             /\ SubCleared(X)[<<w, j>>] = IF j = d THEN {} ELSE sub[<<w, j>>]
  <2>1. CASE nx
    BY <2>1 DEF MetaCleared, SubCleared, SizeExact
  <2>2. CASE ~nx
    BY <2>2, CleanedKey, CleanedSub
  <2>. QED
    BY <2>1, <2>2
<1>. HIDE DEF X
<1>3. /\ meta' = [MetaCleared(X) EXCEPT
                    ![<<t, d>>] = meta[<<t, s>>],
                    ![<<t, s>>] = IF mv THEN Absent ELSE @]
      /\ sub' = [SubCleared(X) EXCEPT
                    ![<<t, d>>] = @ \cup sub[<<t, s>>],
                    ![<<t, s>>] = IF mv THEN {} ELSE @]
  BY DEF CopyComposite, X
<1>4. CASE <<u, i>> = <<t, d>>
  BY <1>1, <1>2, <1>3, <1>4
<1>5. CASE <<u, i>> = <<t, s>>
  <2>1. CASE mv
    BY <1>1, <1>2, <1>3, <1>5, <2>1
  <2>2. CASE ~mv
    BY <1>1, <1>2, <1>3, <1>5, <2>2
  <2>. QED
    BY <2>1, <2>2
<1>6. CASE <<u, i>> # <<t, d>> /\ <<u, i>> # <<t, s>>
  <2>1. /\ meta'[<<u, i>>] = MetaCleared(X)[<<u, i>>]
        /\ sub'[<<u, i>>] = SubCleared(X)[<<u, i>>]
    BY <1>1, <1>3, <1>6
  <2>. QED
    BY <1>2, <1>6, <2>1
<1>. QED
  BY <1>4, <1>5, <1>6

LEMMA CopyCompositeExact ==
    ASSUME TypeOK, SizeExact, NEW t \in Types, NEW s \in Keys, NEW d \in Keys, s # d,
           NEW nx \in BOOLEAN, NEW mv \in BOOLEAN, CopyComposite(t, s, d, nx, mv),
           nx => \A u \in Types : meta[<<u, d>>] = Absent
    PROVE  SizeExact'
<1>1. ASSUME NEW u \in Types, NEW i \in Keys PROVE RecordExact(meta'[<<u, i>>], sub'[<<u, i>>])
  <2>1. RecordExact(meta[<<u, i>>], sub[<<u, i>>]) /\ RecordExact(meta[<<t, s>>], sub[<<t, s>>])
    BY SizeExactRecords
  <2>. QED
    BY <2>1, CopyCompositeRecords DEF RecordExact
<1>. QED
  BY <1>1 DEF SizeExact, RecordExact

LEMMA CopyImplExact ==
    ASSUME TypeOK, SizeExact, NEW s \in Keys, NEW d \in Keys, s # d,
           NEW nx \in BOOLEAN, NEW mv \in BOOLEAN, NEW r, CopyImpl(s, d, nx, mv, r),
           nx => MayCopy(d, TRUE), TRUE \notin CopyNx
    PROVE  SizeExact'
<1>1. nx => \A u \in Types : meta[<<u, d>>] = Absent
  BY DEF CopyImpl, Exists, CompositeLive, MayCopy
<1>2. CASE CopyString(s, d, nx, mv)
  <2>1. CASE nx
    BY <1>2, <2>1 DEF CopyString, SizeExact
  <2>2. CASE ~nx
    BY <1>2, <2>2, CleanupExact DEF CopyString, CleanupAll
  <2>. QED
    BY <2>1, <2>2
<1>3. CASE CompositeLive(s) /\ CopyComposite(ActiveTag(s), s, d, nx, mv)
  BY <1>1, <1>3, ActiveTagLive, CopyCompositeExact
<1>. QED
  BY <1>2, <1>3, Zenon DEF CopyImpl

LEMMA AddExact ==
    ASSUME TypeOK, SizeExact, NEW k \in Keys, NEW t \in Types, NEW m \in Members, Add(t, k, m)
    PROVE  SizeExact'
<1>. DEFINE x == <<t, k>>
<1>0. x \in Types \X Keys
  OBVIOUS
<1>1. ASSUME NEW S \in SUBSET Members, NEW n \in Nat, NEW e \in Nat, n = Cardinality(S),
             m \notin S, StoreMember(t, k, m, S, n, e)
      PROVE  SizeExact'
  <2>1. IsFiniteSet(S)
    BY KeyspaceAssumption, FS_Subset
  <2>2. Cardinality(S \cup {m}) = n + 1
    BY <1>1, <2>1, FS_AddElement
  <2>3. /\ meta' = [meta EXCEPT ![x] = [size |-> n + 1, exp |-> e]]
        /\ sub' = [sub EXCEPT ![x] = S \cup {m}]
    BY <1>1 DEF StoreMember
  <2>4. [size |-> n + 1, exp |-> e] # Absent
    BY AbsentAssumption
  <2>. HIDE DEF x
  <2>5. RecordExact(meta'[x], sub'[x])
    BY <1>0, <2>2, <2>3, <2>4 DEF TypeOK, RecordExact
  <2>6. \A y \in Types \X Keys : y # x => meta'[y] = meta[y] /\ sub'[y] = sub[y]
    BY <2>3 DEF TypeOK
  <2>. QED
    BY <2>5, <2>6 DEF SizeExact, RecordExact
<1>2. CASE StoreMember(t, k, m, {}, 0, 0)
  BY <1>1, <1>2, FS_EmptySet
<1>3. CASE /\ MetaChecked(t, k) = "some"
           /\ m \notin sub[x]
           /\ StoreMember(t, k, m, sub[x], meta[x].size, meta[x].exp)
  <2>1. meta[x] # Absent
    BY <1>3 DEF MetaChecked, MetaLive
  <2>2. meta[x].size = Cardinality(sub[x]) /\ meta[x].size \in Nat /\ meta[x].exp \in Nat
    BY <1>0, <2>1 DEF TypeOK, SizeExact
  <2>3. sub[x] \in SUBSET Members
    BY <1>0 DEF TypeOK
  <2>. QED
    BY <1>1, <1>3, <2>2, <2>3
<1>4. CASE \E r \in {0, WrongType} : Reply(r)
  BY <1>4 DEF Reply, store, SizeExact
<1>. QED
  BY <1>2, <1>3, <1>4 DEF Add

LEMMA RemoveExact ==
    ASSUME TypeOK, SizeExact, NEW k \in Keys, NEW t \in Types, NEW m \in Members,
           Remove(t, k, m)
    PROVE  SizeExact'
<1>. DEFINE x == <<t, k>>
            after == IF meta[x].size = 1 THEN Absent
                     ELSE [size |-> meta[x].size - 1, exp |-> meta[x].exp]
<1>0. x \in Types \X Keys
  OBVIOUS
<1>1. CASE /\ MetaChecked(t, k) = "some"
           /\ m \in sub[x]
           /\ sub' = [sub EXCEPT ![x] = sub[x] \ {m}]
           /\ meta' = [meta EXCEPT ![x] = after]
  <2>1. meta[x] # Absent
    BY <1>1 DEF MetaChecked, MetaLive
  <2>2. /\ meta[x].size = Cardinality(sub[x])
        /\ meta[x].size > 0 /\ meta[x].size \in Nat /\ meta[x].exp \in Nat
    BY <1>0, <2>1 DEF TypeOK, SizeExact
  <2>3. /\ IsFiniteSet(sub[x] \ {m})
        /\ Cardinality(sub[x] \ {m}) = meta[x].size - 1
    BY <1>0, <1>1, <2>2, SubFinite, FS_RemoveElement
  <2>4. RecordExact(after, sub[x] \ {m})
    <3>1. CASE meta[x].size = 1
      <4>1. Cardinality(sub[x] \ {m}) = 0
        BY <2>2, <2>3, <3>1
      <4>. QED
        BY <2>3, <3>1, <4>1, FS_EmptySet DEF RecordExact
    <3>2. CASE meta[x].size # 1
      <4>1. meta[x].size - 1 \in Nat /\ meta[x].size - 1 > 0
        BY <2>2, <3>2
      <4>2. after = [size |-> meta[x].size - 1, exp |-> meta[x].exp] /\ after # Absent
        BY <2>2, <3>2, <4>1, AbsentAssumption
      <4>. QED
        BY <2>3, <4>1, <4>2 DEF RecordExact
    <3>. QED
      BY <3>1, <3>2
  <2>. HIDE DEF x, after
  <2>5. meta'[x] = after /\ sub'[x] = sub[x] \ {m}
    BY <1>0, <1>1 DEF TypeOK
  <2>6. \A y \in Types \X Keys : y # x => meta'[y] = meta[y] /\ sub'[y] = sub[y]
    BY <1>1 DEF TypeOK
  <2>. QED
    BY <2>4, <2>5, <2>6 DEF SizeExact, RecordExact
<1>2. CASE \E r \in {0, WrongType} : Reply(r)
  BY <1>2 DEF Reply, store, SizeExact
<1>. QED
  BY <1>1, <1>2 DEF Remove

LEMMA ExpireAtExact ==
    ASSUME TypeOK, SizeExact, NEW k \in Keys, NEW e \in Expiries, NEW cond,
           ExpireAt(k, e, cond)
    PROVE  SizeExact'
<1>1. CASE UNCHANGED <<meta, sub>>
  BY <1>1 DEF SizeExact
<1>2. CASE CompositeLive(k) /\ meta' = [meta EXCEPT ![<<ActiveTag(k), k>>].exp = e] /\ sub' = sub
  <2>. DEFINE x == <<ActiveTag(k), k>>
  <2>1. x \in Types \X Keys /\ meta[x] # Absent
    BY <1>2, ActiveTagLive DEF MetaLive
  <2>2. meta[x] \in Metas /\ e \in Nat
    BY <2>1, KeyspaceAssumption DEF TypeOK
  <2>3. [meta[x] EXCEPT !.exp = e] \in Metas /\ [meta[x] EXCEPT !.exp = e].size = meta[x].size
    BY <2>2
  <2>. HIDE DEF x
  <2>4. meta' = [meta EXCEPT ![x] = [meta[x] EXCEPT !.exp = e]]
    BY <1>2 DEF x
  <2>5. /\ meta'[x] = [meta[x] EXCEPT !.exp = e]
        /\ \A y \in Types \X Keys : y # x => meta'[y] = meta[y]
    BY <2>1, <2>4 DEF TypeOK
  <2>6. meta'[x] # Absent /\ meta'[x].size = meta[x].size
    BY <2>3, <2>5, AbsentAssumption
  <2>7. sub' = sub
    BY <1>2
  <2>. QED
    BY <2>1, <2>5, <2>6, <2>7 DEF SizeExact
<1>. QED
  BY <1>1, <1>2, Zenon DEF ExpireAt, Reply, store

LEMMA SizeExactStep ==
    ASSUME TypeOK, SizeExact, [Next]_vars, TRUE \notin CopyNx
    PROVE  SizeExact'
<1>bools. TRUE \in BOOLEAN /\ FALSE \in BOOLEAN
  OBVIOUS
<1>same. ASSUME UNCHANGED <<meta, sub>> PROVE SizeExact'
  BY <1>same DEF SizeExact
<1>reply. ASSUME NEW r, Reply(r) PROVE SizeExact'
  BY <1>same, <1>reply DEF Reply, store
<1>1. CASE Tick
  BY <1>same, <1>1 DEF Tick, store
<1>2. CASE FlushDb
  BY <1>2 DEF FlushDb, SizeExact
<1>3. CASE Sweep
  BY <1>3, CleanupExact DEF Sweep
<1>4. ASSUME NEW K, Del(K) PROVE SizeExact'
  BY <1>4, CleanupExact DEF Del
<1>5. ASSUME NEW k \in Keys, NEW v, NEW e, NEW mode, Set(k, v, e, mode) PROVE SizeExact'
  <2>1. ASSUME NEW x, NEW clean, WriteString(k, x, clean) PROVE SizeExact'
    BY <1>same, <2>1, CleanupExact DEF WriteString, CleanupAll
  <2>. QED
    BY <1>5, <1>reply, <2>1, Zenon DEF Set
<1>6. ASSUME NEW k \in Keys, GetDel(k) PROVE SizeExact'
  BY <1>6, <1>same DEF GetDel, Reply, store
<1>7. ASSUME NEW k \in Keys, NEW t \in Types, NEW m \in Members, Add(t, k, m) \/ Remove(t, k, m)
      PROVE  SizeExact'
  BY <1>7, AddExact, RemoveExact
<1>8. ASSUME NEW k \in Keys, NEW e \in Expiries, NEW cond, ExpireAt(k, e, cond) PROVE SizeExact'
  BY <1>8, ExpireAtExact
<1>9. ASSUME NEW k \in Keys, NEW d \in Keys, Rename(k, d) PROVE SizeExact'
  BY <1>9, <1>bools, <1>reply, CopyImplExact DEF Rename
<1>10. ASSUME NEW k \in Keys, NEW d \in Keys, MayCopy(d, TRUE), RenameNx(k, d) PROVE SizeExact'
  BY <1>10, <1>bools, <1>reply, CopyImplExact DEF RenameNx
<1>11. ASSUME NEW k \in Keys, NEW d \in Keys, NEW nx \in BOOLEAN, MayCopy(d, nx), Copy(k, d, nx)
       PROVE  SizeExact'
  BY <1>11, <1>bools, <1>reply, CopyImplExact DEF Copy
<1>12. CASE UNCHANGED vars
  BY <1>12, <1>same DEF vars
<1>. QED
  BY <1>1, <1>2, <1>3, <1>4, <1>5, <1>6, <1>7, <1>8, <1>9, <1>10, <1>11, <1>12 DEF Next

\* Every record counts its subkeys, through every handler but one: a copy or
\* rename with NX onto an expired collection takes over what is left of it
\* (keyspace_copy_nx shows that), and is excluded.
THEOREM SizesExact ==
    ASSUME TRUE \notin CopyNx
    PROVE  Spec => []SizeExact
<1>1. Init => SizeExact
  BY DEF Init, SizeExact
<1>. QED
  BY <1>1, SizeExactStep, TypeCorrect, PTL DEF Spec

----------------------------------------------------------------------------
(* Keyspace implements RedisKeys: seen through View, every handler does to *)
(* the map from live keys to objects what RedisKeys says of the same call. *)
(* The steps rest on three invariants.  OneLiveType makes View read the    *)
(* record a handler has just checked.  SizeExact tells Remove the last     *)
(* member and leaves nothing under a key without a record for a copy to    *)
(* take over.  TypeOK makes a size or an expiry a number.                  *)

----------------------------------------------------------------------------
(* What View says of one key.                                              *)

StringObject(k) == Redis!Object("string", str[k].val, str[k].exp)
MetaObject(t, k) == Redis!Object(t, sub[<<t, k>>], meta[<<t, k>>].exp)

KeyViewed(k) ==
    /\ k \in DOMAIN View <=> StrLive(k) \/ \E t \in Types : MetaLive(t, k)
    /\ StrLive(k) => /\ View[k] = StringObject(k)
                     /\ \A t \in Types : ~MetaLive(t, k)
    /\ \A t \in Types : MetaLive(t, k) => View[k] = MetaObject(t, k)
    /\ k \in DOMAIN View => View[k].exp \in Nat /\ View[k].exp \notin 1 .. now

Viewed ==
    /\ View = [k \in DOMAIN View |-> View[k]]
    /\ DOMAIN View \subseteq Keys
    /\ \A k \in Keys : KeyViewed(k)

\* With one live type a key's object is that of whichever record is live, and
\* it has not expired.
LEMMA ViewIsViewed == TypeOK /\ OneLiveType => Viewed
<1>. SUFFICES ASSUME TypeOK, OneLiveType PROVE Viewed
  OBVIOUS
<1>1. View = [k \in DOMAIN View |-> View[k]] /\ DOMAIN View = {k \in Keys : Exists(k)}
  BY DEF View
<1>2. ASSUME NEW k \in Keys PROVE KeyViewed(k)
  <2>1. k \in DOMAIN View <=> StrLive(k) \/ \E t \in Types : MetaLive(t, k)
    BY <1>1 DEF Exists, CompositeLive
  <2>2. ASSUME StrLive(k)
        PROVE  /\ View[k] = StringObject(k)
               /\ \A t \in Types : ~MetaLive(t, k)
               /\ View[k].exp \in Nat /\ View[k].exp \notin 1 .. now
    <3>1. View[k] = StringObject(k)
      BY <1>1, <2>2 DEF View, Exists, StringObject, Redis!Object
    <3>2. \A t \in Types : ~MetaLive(t, k)
      BY <2>2 DEF OneLiveType, CompositeLive
    <3>3. str[k] \in Strings /\ ~Passed(str[k].exp) /\ now \in Nat
      BY <2>2 DEF StrLive, TypeOK
    <3>. QED
      BY <3>1, <3>2, <3>3 DEF StringObject, Redis!Object, Passed, Strings
  <2>3. ASSUME NEW t \in Types, MetaLive(t, k)
        PROVE  /\ View[k] = MetaObject(t, k)
               /\ View[k].exp \in Nat /\ View[k].exp \notin 1 .. now
    <3>1. CompositeLive(k) /\ ~StrLive(k) /\ Exists(k)
      BY <2>3 DEF CompositeLive, OneLiveType, Exists
    <3>2. ActiveTag(k) = t
      BY <2>3, <3>1, ActiveTagLive DEF OneLiveType
    <3>3. View[k] = MetaObject(t, k)
      BY <3>1, <3>2 DEF View, MetaObject, Redis!Object
    <3>4. meta[<<t, k>>] \in Metas /\ ~Passed(meta[<<t, k>>].exp) /\ now \in Nat
      BY <2>3 DEF MetaLive, MetaExpired, TypeOK
    <3>. QED
      BY <3>3, <3>4 DEF MetaObject, Redis!Object, Passed, Metas
  <2>. QED
    BY <2>1, <2>2, <2>3 DEF KeyViewed
<1>. QED
  BY <1>1, <1>2 DEF Viewed

LEMMA ViewedNext ==
    ASSUME TypeOK, TypeOK', OneLiveType, OneLiveType'
    PROVE  Viewed /\ Viewed'
BY ViewIsViewed, PTL

\* The key is seen after the step as it was before it.
Kept(k) ==
    /\ k \in DOMAIN View' <=> k \in DOMAIN View
    /\ k \in DOMAIN View => View'[k] = View[k]

\* A key whose live records a step leaves alone.
LEMMA KeyKept ==
    ASSUME TypeOK, Viewed, Viewed', now' = now, NEW k \in Keys,
           \/ str'[k] = str[k]
           \/ ~StrLive(k) /\ str'[k] = Absent,
           \A t \in Types : \/ meta'[<<t, k>>] = meta[<<t, k>>] /\ sub'[<<t, k>>] = sub[<<t, k>>]
                            \/ ~MetaLive(t, k) /\ meta'[<<t, k>>] = Absent
    PROVE  Kept(k)
<1>1. KeyViewed(k) /\ KeyViewed(k)'
  BY DEF Viewed
<1>2. StrLive(k)' <=> StrLive(k)
  BY DEF StrLive, Passed
<1>3. ASSUME NEW t \in Types
      PROVE  /\ MetaLive(t, k)' <=> MetaLive(t, k)
             /\ MetaLive(t, k) => MetaObject(t, k)' = MetaObject(t, k)
  BY <1>3 DEF MetaLive, MetaExpired, Passed, MetaObject
<1>4. StrLive(k) => StringObject(k)' = StringObject(k)
  BY DEF StrLive, StringObject
<1>. QED
  BY <1>1, <1>2, <1>3, <1>4 DEF KeyViewed, Kept
----------------------------------------------------------------------------
(* The steps of RedisKeys, in terms of single keys.                        *)

LEMMA ViewSame ==
    ASSUME Viewed, Viewed', \A k \in Keys : Kept(k)
    PROVE  View' = View
<1>1. DOMAIN View' = DOMAIN View
  BY DEF Viewed, Kept
<1>2. \A k \in DOMAIN View : View'[k] = View[k]
  BY DEF Viewed, Kept
<1>. QED
  BY <1>1, <1>2 DEF Viewed

LEMMA PutView ==
    ASSUME Viewed, Viewed', NEW k \in Keys, NEW x,
           \A i \in Keys \ {k} : Kept(i),
           x.exp \notin 1 .. now => k \in DOMAIN View' /\ View'[k] = x,
           x.exp \in 1 .. now => k \notin DOMAIN View'
    PROVE  Redis!Put(k, x)
<1>. DEFINE W == Redis!With(View, k, x)
            D == {i \in DOMAIN W : W[i].exp \notin 1 .. now}
<1>1. DOMAIN W = DOMAIN View \cup {k} /\ W[k] = x /\ \A i \in DOMAIN View \ {k} : W[i] = View[i]
  BY DEF Redis!With
<1>2. \A i \in DOMAIN View : View[i].exp \notin 1 .. now
  BY DEF Viewed, KeyViewed
<1>. HIDE DEF W
<1>3. DOMAIN View' = D
  BY <1>1, <1>2 DEF Viewed, Kept
<1>4. \A i \in D : View'[i] = W[i]
  BY <1>1, <1>2 DEF Viewed, Kept
<1>5. View' = [i \in D |-> W[i]]
  BY <1>3, <1>4 DEF Viewed
<1>. QED
  BY <1>5 DEF Redis!Put, Redis!Settled, W

LEMMA WithoutView ==
    ASSUME Viewed, Viewed', NEW R \in SUBSET Keys,
           \A i \in Keys \ R : Kept(i),
           \A i \in R : i \notin DOMAIN View'
    PROVE  View' = Redis!Without(View, R)
<1>1. DOMAIN View' = DOMAIN View \ R
  BY DEF Viewed, Kept
<1>2. \A i \in DOMAIN View \ R : View'[i] = View[i]
  BY DEF Viewed, Kept
<1>. QED
  BY <1>1, <1>2 DEF Viewed, Redis!Without

LEMMA WithView ==
    ASSUME Viewed, Viewed', NEW d \in Keys, NEW x, NEW S \in SUBSET Keys, d \notin S,
           \A i \in Keys \ (S \cup {d}) : Kept(i),
           \A i \in S : i \notin DOMAIN View',
           d \in DOMAIN View', View'[d] = x
    PROVE  View' = Redis!With(Redis!Without(View, S), d, x)
<1>. DEFINE W == Redis!Without(View, S)
<1>1. DOMAIN W = DOMAIN View \ S /\ \A i \in DOMAIN W : W[i] = View[i]
  BY DEF Redis!Without
<1>. HIDE DEF W
<1>2. DOMAIN View' = DOMAIN W \cup {d}
  BY <1>1 DEF Viewed, Kept
<1>3. \A i \in DOMAIN W \cup {d} : View'[i] = IF i = d THEN x ELSE W[i]
  BY <1>1 DEF Viewed, Kept
<1>. QED
  BY <1>2, <1>3 DEF Viewed, Redis!With, W
----------------------------------------------------------------------------
(* Strings.                                                                *)

LEMMA WriteStringPut ==
    ASSUME TypeOK, SizeExact, Viewed, Viewed', now' = now,
           NEW k \in Keys, NEW v \in Values, NEW e \in Nat, NEW clean \in BOOLEAN,
           WriteString(k, [val |-> v, exp |-> e], clean), clean \/ ~CompositeLive(k)
    PROVE  Redis!Put(k, Redis!Object("string", v, e))
<1>1. ASSUME NEW i \in Keys, NEW t \in Types
      PROVE  /\ meta'[<<t, i>>] = IF clean /\ i = k THEN Absent ELSE meta[<<t, i>>]
             /\ sub'[<<t, i>>] = IF clean /\ i = k THEN {} ELSE sub[<<t, i>>]
  BY CleanedKey, CleanedSub DEF WriteString, CleanupAll, Cleanup
<1>2. str'[k] = [val |-> v, exp |-> e] /\ \A i \in Keys \ {k} : str'[i] = str[i]
  BY DEF WriteString, TypeOK
<1>3. \A i \in Keys \ {k} : Kept(i)
  BY <1>1, <1>2, KeyKept
<1>4. \A t \in Types : ~MetaLive(t, k)'
  BY <1>1 DEF CompositeLive, MetaLive, MetaExpired, Passed
<1>5. StrLive(k)' <=> e \notin 1 .. now
  <2>1. [val |-> v, exp |-> e] # Absent /\ now \in Nat
    BY AbsentAssumption DEF Strings, TypeOK
  <2>. QED
    BY <1>2, <2>1 DEF StrLive, Passed
<1>6. StringObject(k)' = Redis!Object("string", v, e)
  BY <1>2 DEF StringObject
<1>7. KeyViewed(k)'
  BY DEF Viewed
<1>8. Redis!Object("string", v, e).exp = e
  BY DEF Redis!Object
<1>9. /\ e \notin 1 .. now => k \in DOMAIN View' /\ View'[k] = Redis!Object("string", v, e)
      /\ e \in 1 .. now => k \notin DOMAIN View'
  BY <1>4, <1>5, <1>6, <1>7 DEF KeyViewed
<1>. QED
  BY <1>3, <1>8, <1>9, PutView

\* What a handler learns of its key from get_string_raw.
LEMMA StringCheckedViewed ==
    ASSUME Viewed, NEW k \in Keys
    PROVE  /\ StringChecked(k) = "some" =>
                 /\ StrLive(k) /\ ~CompositeLive(k)
                 /\ Redis!IsType(k, "string") /\ View[k] = StringObject(k)
           /\ StringChecked(k) = "wrongtype" =>
                 CompositeLive(k) /\ ~StrLive(k) /\ Redis!OtherType(k, "string")
           /\ StringChecked(k) = "none" =>
                 ~CompositeLive(k) /\ ~StrLive(k) /\ ~Redis!Live(k)
           /\ StringChecked(k) \in {"some", "wrongtype", "none"}
<1>1. KeyViewed(k)
  BY DEF Viewed
<1>2. CASE StrLive(k)
  BY <1>1, <1>2 DEF KeyViewed, CompositeLive, StringChecked, StringObject,
                    Redis!Object, Redis!IsType, Redis!OtherType, Redis!Live
<1>3. CASE ~StrLive(k) /\ CompositeLive(k)
  <2>1. PICK t \in Types : MetaLive(t, k)
    BY <1>3 DEF CompositeLive
  <2>2. t # "string"
    BY KeyspaceAssumption DEF Types
  <2>3. k \in DOMAIN View /\ View[k].type = t
    <3>1. k \in DOMAIN View /\ View[k] = MetaObject(t, k)
      BY <1>1, <2>1 DEF KeyViewed
    <3>. QED
      BY <3>1 DEF MetaObject, Redis!Object
  <2>. QED
    BY <1>3, <2>2, <2>3 DEF StringChecked, Redis!OtherType, Redis!Live
<1>4. CASE ~StrLive(k) /\ ~CompositeLive(k)
  BY <1>1, <1>4 DEF KeyViewed, CompositeLive, StringChecked, Redis!Live
<1>. QED
  BY <1>2, <1>3, <1>4

LEMMA ReplyKeeps ==
    ASSUME Viewed, Viewed', TypeOK, NEW r, Reply(r)
    PROVE  Redis!Return(r) /\ Redis!Keep /\ \A k \in Keys : Kept(k)
<1>1. \A k \in Keys : Kept(k)
  BY KeyKept DEF Reply, Return, store
<1>. QED
  BY <1>1, ViewSame DEF Reply, Return, Redis!Return, Redis!Keep

LEMMA SetRefines ==
    ASSUME TypeOK, SizeExact, Viewed, Viewed',
           NEW k \in Keys, NEW v \in Values, NEW e \in Expiries, NEW mode \in SetModes,
           Set(k, v, e, mode)
    PROVE  Redis!Set(k, v, e, mode)
<1>. DEFINE old == StringChecked(k)
            exp == IF mode # "keepttl" THEN e
                   ELSE IF old = "some" THEN str[k].exp ELSE 0
            aexp == IF mode # "keepttl" THEN e
                    ELSE IF Redis!IsType(k, "string") THEN View[k].exp ELSE 0
<1>1. /\ e \in Nat /\ exp \in Nat /\ aexp = exp
      /\ mode = "plain" => exp = e
  <2>1. old = "some" => str[k].exp \in Nat
    BY DEF StringChecked, StrLive, TypeOK, Strings
  <2>2. Redis!IsType(k, "string") <=> old = "some"
    BY StringCheckedViewed DEF Redis!IsType, Redis!OtherType
  <2>3. old = "some" => View[k].exp = str[k].exp
    <3>1. old = "some" => View[k] = StringObject(k)
      BY StringCheckedViewed
    <3>2. StringObject(k).exp = str[k].exp
      BY DEF StringObject, Redis!Object
    <3>. QED
      BY <3>1, <3>2
  <2>4. e \in Nat /\ 0 \in Nat /\ (mode = "plain" => exp = e)
    BY KeyspaceAssumption
  <2>5. exp \in Nat
    BY <2>1, <2>4
  <2>6. aexp = exp
    <3>1. CASE old = "some"
      BY <2>2, <2>3, <3>1
    <3>2. CASE old # "some"
      BY <2>2, <3>2
    <3>. QED
      BY <3>1, <3>2
  <2>. QED
    BY <2>4, <2>5, <2>6
<1>2. Redis!SetMode(mode, k) <=> SetCondition(mode, old) /\ ~(mode = "get" /\ old = "wrongtype")
  BY StringCheckedViewed DEF Redis!SetMode, SetCondition, SetModes,
                             Redis!IsType, Redis!OtherType, Redis!Live
<1>3. CASE /\ mode = "plain"
           /\ WriteString(k, [val |-> v, exp |-> e], TRUE)
           /\ Return(Ok)
  <2>1. Redis!Put(k, Redis!Object("string", v, exp))
    BY <1>1, <1>3, WriteStringPut DEF Return
  <2>2. Redis!SetMode(mode, k)
    BY <1>3 DEF Redis!SetMode
  <2>. QED
    BY <1>1, <1>3, <2>1, <2>2 DEF Redis!Set, Redis!Return, Return, Redis!Ok, Ok
<1>4. CASE /\ mode # "plain"
           /\ ~(mode = "get" /\ old = "wrongtype")
           /\ SetCondition(mode, old)
           /\ WriteString(k, [val |-> v, exp |-> exp], old = "wrongtype")
           /\ Return(Ok)
  <2>1. (old = "wrongtype") \in BOOLEAN /\ (old = "wrongtype" \/ ~CompositeLive(k))
    BY StringCheckedViewed
  <2>2. Redis!Put(k, Redis!Object("string", v, exp))
    <3>. HIDE DEF old, exp
    <3>. QED
      BY <1>1, <1>4, <2>1, WriteStringPut DEF Return
  <2>. QED
    BY <1>1, <1>2, <1>4, <2>2 DEF Redis!Set, Redis!Return, Return, Redis!Ok, Ok
<1>5. CASE /\ mode = "get" /\ old = "wrongtype"
           /\ Reply(WrongType)
  BY <1>2, <1>5, ReplyKeeps DEF Redis!Set, WrongType, Redis!WrongType
<1>6. CASE /\ ~SetCondition(mode, old)
           /\ Reply(Nil)
  <2>1. mode # "get"
    BY <1>6 DEF SetCondition
  <2>. QED
    BY <1>2, <1>6, <2>1, ReplyKeeps DEF Redis!Set, Nil, Redis!Nil
<1>. QED
  BY <1>3, <1>4, <1>5, <1>6, Zenon DEF Set

LEMMA GetDelRefines ==
    ASSUME TypeOK, SizeExact, Viewed, Viewed', NEW k \in Keys, GetDel(k)
    PROVE  Redis!GetDel(k)
<1>1. CASE /\ StringChecked(k) = "some"
           /\ str' = [str EXCEPT ![k] = Absent]
           /\ UNCHANGED <<meta, sub>>
           /\ Return(1)
  <2>1. \A i \in Keys \ {k} : Kept(i)
    BY <1>1, KeyKept DEF Return, TypeOK
  <2>2. str'[k] = Absent /\ KeyViewed(k)'
    BY <1>1 DEF TypeOK, Viewed
  <2>3. \A t \in Types : ~MetaLive(t, k)'
    BY <1>1, StringCheckedViewed DEF CompositeLive, MetaLive, MetaExpired, Passed, Return
  <2>4. k \notin DOMAIN View'
    BY <2>2, <2>3 DEF KeyViewed, StrLive
  <2>5. View' = Redis!Without(View, {k})
    BY <2>1, <2>4, WithoutView
  <2>. QED
    BY <1>1, <2>5, StringCheckedViewed DEF Redis!GetDel, Redis!Return, Return
<1>2. CASE /\ StringChecked(k) # "some"
           /\ Reply(IF StringChecked(k) = "wrongtype" THEN WrongType ELSE 0)
  BY <1>2, StringCheckedViewed, ReplyKeeps
     DEF Redis!GetDel, WrongType, Redis!WrongType, Redis!IsType, Redis!OtherType, Redis!Live
<1>. QED
  BY <1>1, <1>2 DEF GetDel
----------------------------------------------------------------------------
(* Collections.                                                            *)

\* What a handler learns of its key from get_meta_checked.
LEMMA MetaCheckedViewed ==
    ASSUME Viewed, NEW k \in Keys, NEW t \in Types
    PROVE  /\ MetaChecked(t, k) = "some" =>
                 /\ MetaLive(t, k)
                 /\ Redis!Live(k) /\ Redis!IsType(k, t) /\ ~Redis!OtherType(k, t)
                 /\ View[k] = MetaObject(t, k)
           /\ MetaChecked(t, k) = "wrongtype" => Redis!OtherType(k, t) /\ ~Redis!IsType(k, t)
           /\ MetaChecked(t, k) = "none" =>
                 /\ \A u \in Types : ~MetaLive(u, k)
                 /\ ~Redis!Live(k) /\ ~Redis!IsType(k, t) /\ ~Redis!OtherType(k, t)
           /\ MetaChecked(t, k) # "wrongtype" =>
                 ~StrLive(k) /\ \A u \in Types \ {t} : ~MetaLive(u, k)
           /\ MetaChecked(t, k) \in {"some", "wrongtype", "none"}
<1>1. KeyViewed(k)
  BY DEF Viewed
<1>2. t # "string"
  BY KeyspaceAssumption DEF Types
<1>3. StringObject(k).type = "string" /\ \A u \in Types : MetaObject(u, k).type = u
  BY DEF StringObject, MetaObject, Redis!Object
<1>4. CASE StrLive(k)
  BY <1>1, <1>2, <1>3, <1>4 DEF KeyViewed, MetaChecked, Redis!OtherType, Redis!IsType, Redis!Live
<1>5. \A u \in Types : MetaLive(u, k) => k \in DOMAIN View /\ View[k] = MetaObject(u, k)
  BY <1>1 DEF KeyViewed
<1>6. \A u \in Types : MetaLive(t, k) /\ MetaLive(u, k) => u = t
  BY <1>3, <1>5
<1>7. CASE ~StrLive(k) /\ MetaLive(t, k)
  <2>1. MetaChecked(t, k) = "some" /\ View[k].type = t
    BY <1>3, <1>5, <1>7 DEF MetaChecked
  <2>. QED
    BY <1>5, <1>6, <1>7, <2>1 DEF Redis!OtherType, Redis!IsType, Redis!Live
<1>8. CASE ~StrLive(k) /\ ~MetaLive(t, k) /\ \E u \in Types \ {t} : MetaLive(u, k)
  <2>1. PICK u \in Types \ {t} : MetaLive(u, k)
    BY <1>8
  <2>2. MetaChecked(t, k) = "wrongtype" /\ View[k].type = u /\ k \in DOMAIN View
    BY <1>3, <1>5, <1>8, <2>1 DEF MetaChecked
  <2>. QED
    BY <2>1, <2>2 DEF Redis!OtherType, Redis!IsType, Redis!Live
<1>9. CASE ~StrLive(k) /\ ~MetaLive(t, k) /\ \A u \in Types \ {t} : ~MetaLive(u, k)
  <2>1. MetaChecked(t, k) = "none" /\ k \notin DOMAIN View
    BY <1>1, <1>9 DEF MetaChecked, KeyViewed
  <2>. QED
    BY <1>9, <2>1 DEF Redis!OtherType, Redis!IsType, Redis!Live
<1>. QED
  BY <1>4, <1>7, <1>8, <1>9

\* A step that writes one record r and its subkeys S at a key where nothing
\* of another type is live.
LEMMA RecordWritten ==
    ASSUME TypeOK, Viewed, Viewed', now' = now, str' = str,
           NEW k \in Keys, NEW t \in Types, NEW r, NEW S,
           ~StrLive(k), \A u \in Types \ {t} : ~MetaLive(u, k),
           meta' = [meta EXCEPT ![<<t, k>>] = r],
           sub' = [sub EXCEPT ![<<t, k>>] = S]
    PROVE  /\ \A i \in Keys \ {k} : Kept(i)
           /\ r # Absent /\ ~MetaExpired(r) =>
                 k \in DOMAIN View' /\ View'[k] = Redis!Object(t, S, r.exp)
           /\ r = Absent \/ MetaExpired(r) => k \notin DOMAIN View'
<1>1. /\ meta'[<<t, k>>] = r /\ sub'[<<t, k>>] = S
      /\ \A x \in Types \X Keys : x # <<t, k>> => meta'[x] = meta[x] /\ sub'[x] = sub[x]
  BY DEF TypeOK
<1>2. \A i \in Keys \ {k} : Kept(i)
  BY <1>1, KeyKept
<1>3. ~StrLive(k)' /\ \A u \in Types \ {t} : ~MetaLive(u, k)'
  BY <1>1 DEF StrLive, MetaLive, MetaExpired, Passed
<1>4. MetaLive(t, k)' <=> r # Absent /\ ~MetaExpired(r)
  BY <1>1 DEF MetaLive, MetaExpired, Passed
<1>5. MetaObject(t, k)' = Redis!Object(t, S, r.exp)
  BY <1>1 DEF MetaObject
<1>6. KeyViewed(k)'
  BY DEF Viewed
<1>. QED
  BY <1>2, <1>3, <1>4, <1>5, <1>6 DEF KeyViewed

LEMMA AddRefines ==
    ASSUME TypeOK, Viewed, Viewed', NEW k \in Keys, NEW t \in Types, NEW m \in Members,
           Add(t, k, m)
    PROVE  Redis!Add(t, k, m)
<1>. DEFINE x == <<t, k>>
<1>0. x \in Types \X Keys /\ now \in Nat
  BY DEF TypeOK
<1>1. ASSUME NEW S \in SUBSET Members, NEW n \in Nat, NEW e \in Nat, e \notin 1 .. now,
             StoreMember(t, k, m, S, n, e), MetaChecked(t, k) # "wrongtype"
      PROVE  Redis!Put(k, Redis!Object(t, S \cup {m}, e)) /\ Redis!Return(1)
  <2>. DEFINE r == [size |-> n + 1, exp |-> e]
  <2>1. r \in Metas /\ r # Absent /\ ~MetaExpired(r) /\ r.exp = e
    BY <1>0, <1>1, AbsentAssumption DEF Metas, MetaExpired, Passed
  <2>2. /\ meta' = [meta EXCEPT ![<<t, k>>] = r]
        /\ sub' = [sub EXCEPT ![<<t, k>>] = S \cup {m}]
        /\ str' = str /\ now' = now /\ ret' = 1
    BY <1>1 DEF StoreMember, Return
  <2>. HIDE DEF r
  <2>3. /\ \A i \in Keys \ {k} : Kept(i)
        /\ k \in DOMAIN View' /\ View'[k] = Redis!Object(t, S \cup {m}, e)
    <3>1. ~StrLive(k) /\ \A u \in Types \ {t} : ~MetaLive(u, k)
      BY <1>1, MetaCheckedViewed
    <3>2. /\ \A i \in Keys \ {k} : Kept(i)
          /\ r # Absent /\ ~MetaExpired(r) =>
                k \in DOMAIN View' /\ View'[k] = Redis!Object(t, S \cup {m}, r.exp)
      BY <2>2, <3>1, RecordWritten
    <3>. QED
      BY <2>1, <3>2
  <2>4. Redis!Object(t, S \cup {m}, e).exp = e
    BY DEF Redis!Object
  <2>. QED
    BY <1>1, <2>2, <2>3, <2>4, PutView DEF Redis!Return
<1>2. CASE MetaChecked(t, k) = "none" /\ StoreMember(t, k, m, {}, 0, 0)
  <2>1. Redis!Put(k, Redis!Object(t, {} \cup {m}, 0)) /\ Redis!Return(1)
    BY <1>1, <1>2
  <2>2. {} \cup {m} = {m}
    OBVIOUS
  <2>3. Redis!Put(k, Redis!Object(t, {m}, 0))
    BY <2>1, <2>2
  <2>. QED
    BY <1>2, <2>1, <2>3, MetaCheckedViewed DEF Redis!Add
<1>3. CASE /\ MetaChecked(t, k) = "some"
           /\ m \notin sub[x]
           /\ StoreMember(t, k, m, sub[x], meta[x].size, meta[x].exp)
  <2>1. /\ View[k] = MetaObject(t, k) /\ Redis!Live(k) /\ ~Redis!OtherType(k, t)
        /\ MetaLive(t, k)
    BY <1>3, MetaCheckedViewed
  <2>2. /\ sub[x] \in SUBSET Members
        /\ meta[x].size \in Nat /\ meta[x].exp \in Nat /\ meta[x].exp \notin 1 .. now
    BY <1>0, <2>1 DEF TypeOK, MetaLive, MetaExpired, Passed, Metas
  <2>3. Redis!Put(k, Redis!Object(t, sub[x] \cup {m}, meta[x].exp)) /\ Redis!Return(1)
    BY <1>1, <1>3, <2>2
  <2>4. /\ View[k].val = sub[x]
        /\ [View[k] EXCEPT !.val = @ \cup {m}] = Redis!Object(t, sub[x] \cup {m}, meta[x].exp)
    BY <2>1 DEF MetaObject, Redis!Object
  <2>. QED
    BY <1>3, <2>1, <2>3, <2>4 DEF Redis!Add
<1>4. CASE /\ MetaChecked(t, k) = "some"
           /\ m \in sub[x]
           /\ Reply(0)
  <2>1. View[k] = MetaObject(t, k) /\ Redis!Live(k) /\ ~Redis!OtherType(k, t)
    BY <1>4, MetaCheckedViewed
  <2>2. View[k].val = sub[x] /\ [View[k] EXCEPT !.val = @ \cup {m}] = View[k]
    <3>1. sub[x] \cup {m} = sub[x]
      BY <1>4
    <3>. QED
      BY <2>1, <3>1 DEF MetaObject, Redis!Object
  <2>3. Redis!Return(0) /\ \A i \in Keys : Kept(i)
    BY <1>4, ReplyKeeps
  <2>4. k \in DOMAIN View /\ KeyViewed(k)
    BY <2>1 DEF Redis!Live, Viewed
  <2>5. Redis!Put(k, View[k])
    BY <2>3, <2>4, PutView DEF Kept, KeyViewed
  <2>. QED
    BY <1>4, <2>1, <2>2, <2>3, <2>5 DEF Redis!Add
<1>5. CASE MetaChecked(t, k) = "wrongtype" /\ Reply(WrongType)
  BY <1>5, MetaCheckedViewed, ReplyKeeps DEF Redis!Add, WrongType, Redis!WrongType
<1>. QED
  BY <1>2, <1>3, <1>4, <1>5 DEF Add

LEMMA RemoveRefines ==
    ASSUME TypeOK, SizeExact, Viewed, Viewed', NEW k \in Keys, NEW t \in Types, NEW m \in Members,
           Remove(t, k, m)
    PROVE  Redis!Remove(t, k, m)
<1>. DEFINE x == <<t, k>>
            r == IF meta[x].size = 1 THEN Absent
                 ELSE [size |-> meta[x].size - 1, exp |-> meta[x].exp]
<1>0. x \in Types \X Keys /\ now \in Nat
  BY DEF TypeOK
<1>1. CASE /\ MetaChecked(t, k) = "some"
           /\ m \in sub[x]
           /\ sub' = [sub EXCEPT ![x] = sub[x] \ {m}]
           /\ meta' = [meta EXCEPT ![x] = r]
           /\ UNCHANGED str
           /\ Return(1)
  <2>1. /\ View[k] = MetaObject(t, k) /\ Redis!Live(k) /\ Redis!IsType(k, t)
        /\ MetaLive(t, k) /\ ~StrLive(k)
        /\ \A u \in Types \ {t} : ~MetaLive(u, k)
    BY <1>1, MetaCheckedViewed
  <2>2. View[k].val = sub[x] /\ View[k].exp = meta[x].exp /\ View[k].type = t
    BY <2>1 DEF MetaObject, Redis!Object
  <2>3. /\ meta[x] # Absent /\ ~MetaExpired(meta[x]) /\ meta[x] \in Metas
        /\ meta[x].size \in Nat /\ meta[x].exp \in Nat
    BY <1>0, <2>1 DEF TypeOK, MetaLive, Metas
  <2>4. meta[x].size > 0 /\ meta[x].size = Cardinality(sub[x]) /\ IsFiniteSet(sub[x])
    BY <1>0, <2>3, SubFinite DEF SizeExact
  <2>5. meta[x].size = 1 <=> sub[x] = {m}
    <3>1. Cardinality({m}) = 1 /\ (Cardinality(sub[x]) = 1 => \E y : sub[x] = {y})
      BY <2>4, FS_Singleton
    <3>. QED
      BY <1>1, <2>4, <3>1
  <2>. HIDE DEF r
  <2>6. /\ \A i \in Keys \ {k} : Kept(i)
        /\ r # Absent /\ ~MetaExpired(r) =>
              k \in DOMAIN View' /\ View'[k] = Redis!Object(t, sub[x] \ {m}, r.exp)
        /\ r = Absent \/ MetaExpired(r) => k \notin DOMAIN View'
    BY <1>1, <2>1, RecordWritten DEF Return
  <2>7. CASE sub[x] = {m}
    <3>1. r = Absent
      BY <2>5, <2>7 DEF r
    <3>2. View' = Redis!Without(View, {k})
      BY <2>6, <3>1, WithoutView
    <3>. QED
      BY <1>1, <2>1, <2>2, <2>7, <3>2 DEF Redis!Remove, Redis!Return, Return
  <2>8. CASE sub[x] # {m}
    <3>1. r = [size |-> meta[x].size - 1, exp |-> meta[x].exp] /\ meta[x].size - 1 \in Nat \ {0}
      BY <2>3, <2>4, <2>5, <2>8 DEF r
    <3>2. r # Absent /\ ~MetaExpired(r) /\ r.exp = meta[x].exp
      BY <2>3, <3>1, AbsentAssumption DEF MetaExpired, Passed, Metas
    <3>3. k \in DOMAIN View' /\ View'[k] = Redis!Object(t, sub[x] \ {m}, meta[x].exp)
      BY <2>6, <3>2
    <3>4. [View[k] EXCEPT !.val = @ \ {m}] = Redis!Object(t, sub[x] \ {m}, meta[x].exp)
      <4>1. [MetaObject(t, k) EXCEPT !.val = @ \ {m}] =
                Redis!Object(t, sub[x] \ {m}, meta[x].exp)
        BY DEF MetaObject, Redis!Object
      <4>. QED
        BY <2>1, <4>1
    <3>5. View' = [View EXCEPT ![k] = [View[k] EXCEPT !.val = @ \ {m}]]
      <4>1. DOMAIN View' = DOMAIN View
        BY <2>1, <2>6, <3>3 DEF Kept, Viewed, Redis!Live
      <4>2. \A i \in DOMAIN View : i # k => View'[i] = View[i]
        BY <2>6 DEF Kept, Viewed
      <4>. QED
        BY <2>1, <3>3, <3>4, <4>1, <4>2 DEF Viewed
    <3>6. View' = [View EXCEPT ![k].val = @ \ {m}]
      BY <3>5
    <3>. QED
      BY <1>1, <2>1, <2>2, <2>8, <3>6 DEF Redis!Remove, Redis!Return, Return
  <2>. QED
    BY <2>7, <2>8
<1>2. CASE /\ MetaChecked(t, k) = "some" => m \notin sub[x]
           /\ Reply(IF MetaChecked(t, k) = "wrongtype" THEN WrongType ELSE 0)
  <2>1. MetaChecked(t, k) = "some" => View[k].val = sub[x]
    <3>1. MetaChecked(t, k) = "some" => View[k] = MetaObject(t, k)
      BY MetaCheckedViewed
    <3>2. MetaObject(t, k).val = sub[x]
      BY DEF MetaObject, Redis!Object
    <3>. QED
      BY <3>1, <3>2
  <2>2. ~(Redis!IsType(k, t) /\ m \in View[k].val)
    BY <1>2, <2>1, MetaCheckedViewed
  <2>3. Redis!OtherType(k, t) <=> MetaChecked(t, k) = "wrongtype"
    BY MetaCheckedViewed
  <2>4. Redis!Keep /\ Redis!Return(IF MetaChecked(t, k) = "wrongtype" THEN WrongType ELSE 0)
    BY <1>2, ReplyKeeps
  <2>. QED
    BY <2>2, <2>3, <2>4 DEF Redis!Remove, WrongType, Redis!WrongType
<1>. QED
  BY <1>1, <1>2 DEF Remove
----------------------------------------------------------------------------
(* Any key.                                                                *)

LEMMA ExpireAtRefines ==
    ASSUME TypeOK, Viewed, Viewed', NEW k \in Keys, NEW e \in Expiries,
           NEW cond \in ExpireConditions, ExpireAt(k, e, cond)
    PROVE  Redis!ExpireAt(k, e, cond)
<1>. DEFINE a == ActiveTag(k)
            x == <<a, k>>
            applies == /\ Redis!Live(k)
                       /\ ~(e = 0 /\ View[k].exp = 0)
                       /\ Redis!ShouldUpdate(cond, View[k].exp, e)
<1>0. KeyViewed(k) /\ KeyViewed(k)' /\ e \in Nat /\ now \in Nat
  BY KeyspaceAssumption DEF Viewed, TypeOK
<1>1. applies <=> Redis!Live(k) /\ Updates(cond, View[k].exp, e)
  BY DEF Updates, ShouldUpdate, Redis!ShouldUpdate
<1>2. StrLive(k) => /\ Redis!Live(k) /\ View[k] = StringObject(k)
                    /\ View[k].exp = str[k].exp
  <2>1. StringObject(k).exp = str[k].exp
    BY DEF StringObject, Redis!Object
  <2>. QED
    BY <1>0, <2>1 DEF KeyViewed, Redis!Live
<1>3. CompositeLive(k) => /\ a \in Types /\ MetaLive(a, k) /\ ~StrLive(k)
                          /\ Redis!Live(k) /\ View[k] = MetaObject(a, k)
                          /\ View[k].exp = meta[x].exp
  <2>1. MetaObject(a, k).exp = meta[x].exp
    BY DEF MetaObject, Redis!Object
  <2>2. CompositeLive(k) => a \in Types /\ MetaLive(a, k)
    BY ActiveTagLive
  <2>. HIDE DEF a
  <2>. QED
    BY <1>0, <2>1, <2>2 DEF KeyViewed, Redis!Live
<1>4. Redis!Live(k) => StrLive(k) \/ CompositeLive(k)
  BY <1>0 DEF KeyViewed, Redis!Live, CompositeLive
<1>5. CASE /\ StrLive(k)
           /\ Updates(cond, str[k].exp, e)
           /\ str' = [str EXCEPT ![k].exp = e]
           /\ UNCHANGED <<meta, sub>>
           /\ Return(1)
  <2>. DEFINE s == [str[k] EXCEPT !.exp = e]
  <2>1. applies /\ View[k] = StringObject(k)
    BY <1>1, <1>2, <1>5
  <2>2. str[k] \in Strings
    BY <1>5 DEF StrLive, TypeOK
  <2>3. s \in Strings /\ s # Absent /\ s.exp = e /\ s.val = str[k].val
    BY <1>0, <2>2, AbsentAssumption DEF Strings
  <2>4. str'[k] = s /\ \A i \in Keys \ {k} : str'[i] = str[i]
    BY <1>5 DEF TypeOK
  <2>5. \A i \in Keys \ {k} : Kept(i)
    BY <1>5, <2>4, KeyKept DEF Return
  <2>. HIDE DEF s
  <2>6. StrLive(k)' <=> e \notin 1 .. now
    BY <1>0, <1>5, <2>3, <2>4 DEF StrLive, Passed, Return
  <2>7. \A t \in Types : ~MetaLive(t, k)'
    BY <1>0, <1>5 DEF KeyViewed, MetaLive, MetaExpired, Passed, Return
  <2>8. StringObject(k)' = [View[k] EXCEPT !.exp = e]
    <3>1. StringObject(k)' = Redis!Object("string", str[k].val, e)
      BY <2>3, <2>4 DEF StringObject
    <3>2. [StringObject(k) EXCEPT !.exp = e] = Redis!Object("string", str[k].val, e)
      BY DEF StringObject, Redis!Object
    <3>. QED
      BY <2>1, <3>1, <3>2
  <2>9. [View[k] EXCEPT !.exp = e].exp = e
    <3>1. [StringObject(k) EXCEPT !.exp = e].exp = e
      BY DEF StringObject, Redis!Object
    <3>. QED
      BY <2>1, <3>1
  <2>10. /\ e \notin 1 .. now => k \in DOMAIN View' /\ View'[k] = [View[k] EXCEPT !.exp = e]
         /\ e \in 1 .. now => k \notin DOMAIN View'
    BY <1>0, <2>6, <2>7, <2>8 DEF KeyViewed
  <2>11. Redis!Put(k, [View[k] EXCEPT !.exp = e])
    BY <2>5, <2>9, <2>10, PutView
  <2>. QED
    BY <1>5, <2>1, <2>11 DEF Redis!ExpireAt, Redis!Return, Return
<1>6. CASE /\ ~StrLive(k)
           /\ CompositeLive(k)
           /\ Updates(cond, meta[x].exp, e)
           /\ meta' = [meta EXCEPT ![x].exp = e]
           /\ UNCHANGED <<str, sub>>
           /\ Return(1)
  <2>. DEFINE r == [meta[x] EXCEPT !.exp = e]
  <2>1. applies /\ View[k] = MetaObject(a, k) /\ a \in Types /\ MetaLive(a, k)
    BY <1>1, <1>3, <1>6
  <2>2. meta[x] \in Metas /\ meta[x].size # 0
    BY <2>1 DEF MetaLive, MetaExpired, TypeOK
  <2>3. r \in Metas /\ r # Absent /\ r.exp = e /\ r.size = meta[x].size
    BY <1>0, <2>2, AbsentAssumption DEF Metas
  <2>4. meta' = [meta EXCEPT ![<<a, k>>] = r] /\ now' = now /\ str' = str
    BY <1>6 DEF Return
  <2>5. sub' = [sub EXCEPT ![<<a, k>>] = sub[x]]
    BY <1>6 DEF TypeOK
  <2>6. \A u \in Types \ {a} : ~MetaLive(u, k)
    <3>1. \A u \in Types : MetaLive(u, k) => MetaObject(u, k) = MetaObject(a, k)
      BY <1>0, <2>1 DEF KeyViewed
    <3>2. \A u \in Types : MetaObject(u, k).type = u
      BY DEF MetaObject, Redis!Object
    <3>. QED
      BY <2>1, <3>1, <3>2
  <2>. HIDE DEF r, a
  <2>7. /\ \A i \in Keys \ {k} : Kept(i)
        /\ r # Absent /\ ~MetaExpired(r) =>
              k \in DOMAIN View' /\ View'[k] = Redis!Object(a, sub[x], r.exp)
        /\ r = Absent \/ MetaExpired(r) => k \notin DOMAIN View'
    BY <1>6, <2>1, <2>4, <2>5, <2>6, RecordWritten
  <2>8. MetaExpired(r) <=> e \in 1 .. now
    BY <1>0, <2>2, <2>3 DEF MetaExpired, Passed
  <2>9. [View[k] EXCEPT !.exp = e] = Redis!Object(a, sub[x], e)
    <3>1. [MetaObject(a, k) EXCEPT !.exp = e] = Redis!Object(a, sub[x], e)
      BY DEF MetaObject, Redis!Object
    <3>. QED
      BY <2>1, <3>1
  <2>10. Redis!Object(a, sub[x], e).exp = e
    BY DEF Redis!Object
  <2>11. Redis!Put(k, [View[k] EXCEPT !.exp = e])
    BY <2>3, <2>7, <2>8, <2>9, <2>10, PutView
  <2>. QED
    BY <1>6, <2>1, <2>11 DEF Redis!ExpireAt, Redis!Return, Return
<1>7. CASE /\ StrLive(k) => ~Updates(cond, str[k].exp, e)
           /\ (~StrLive(k) /\ CompositeLive(k)) => ~Updates(cond, meta[x].exp, e)
           /\ Reply(0)
  <2>1. ~applies
    <3>. HIDE DEF a
    <3>. QED
      BY <1>1, <1>2, <1>3, <1>4, <1>7
  <2>2. Redis!Keep /\ Redis!Return(0)
    BY <1>7, ReplyKeeps
  <2>. QED
    BY <2>1, <2>2 DEF Redis!ExpireAt
<1>. QED
  BY <1>5, <1>6, <1>7, Zenon DEF ExpireAt

LEMMA ExistsViewed ==
    ASSUME Viewed, NEW k \in Keys
    PROVE  Exists(k) <=> Redis!Live(k)
BY DEF Viewed, KeyViewed, Exists, CompositeLive, Redis!Live

\* copy_impl: the destination is what the source was, and a moved source is
\* gone.
LEMMA CopyImplView ==
    ASSUME TypeOK, SizeExact, Viewed, Viewed', NEW s \in Keys, NEW d \in Keys, s # d,
           NEW nx \in BOOLEAN, NEW mv \in BOOLEAN, NEW r, CopyImpl(s, d, nx, mv, r),
           nx => MayCopy(d, TRUE), TRUE \notin CopyNx
    PROVE  /\ Redis!Live(s) /\ ~(nx /\ Redis!Live(d))
           /\ Redis!Return(r)
           /\ View' = IF mv THEN Redis!Moved(s, d) ELSE Redis!With(View, d, View[s])
<1>. DEFINE S == IF mv THEN {s} ELSE {}
<1>1. now' = now /\ Redis!Return(r)
  BY DEF CopyImpl, Return, Redis!Return
<1>2. ~(nx /\ Exists(d))
  BY DEF CopyImpl
<1>3. KeyViewed(s) /\ KeyViewed(d) /\ KeyViewed(s)' /\ KeyViewed(d)'
  BY DEF Viewed
<1>4. nx => ~StrLive(d) /\ \A u \in Types : ~MetaLive(u, d) /\ meta[<<u, d>>] = Absent
  BY <1>2 DEF Exists, CompositeLive, MayCopy
<1>5. ASSUME StrLive(s), CopyString(s, d, nx, mv)
      PROVE  /\ \A i \in Keys \ (S \cup {d}) : Kept(i)
             /\ \A i \in S : i \notin DOMAIN View'
             /\ d \in DOMAIN View' /\ View'[d] = View[s]
  <2>1. ASSUME NEW i \in Keys, NEW u \in Types
        PROVE  /\ meta'[<<u, i>>] = IF ~nx /\ i = d THEN Absent ELSE meta[<<u, i>>]
               /\ sub'[<<u, i>>] = IF ~nx /\ i = d THEN {} ELSE sub[<<u, i>>]
    BY <1>5, CleanedKey, CleanedSub DEF CopyString, CleanupAll, Cleanup
  <2>2. /\ str'[d] = str[s]
        /\ str'[s] = IF mv THEN Absent ELSE str[s]
        /\ \A i \in Keys \ {s, d} : str'[i] = str[i]
    BY <1>5 DEF CopyString
  <2>3. \A i \in Keys \ (S \cup {d}) : Kept(i)
    BY <1>1, <2>1, <2>2, KeyKept
  <2>4. \A i \in S : i \notin DOMAIN View'
    <3>1. ASSUME mv PROVE s \notin DOMAIN View'
      <4>1. ~StrLive(s)'
        BY <2>2, <3>1 DEF StrLive
      <4>2. \A u \in Types : ~MetaLive(u, s)'
        BY <1>1, <1>3, <1>5, <2>1 DEF KeyViewed, MetaLive, MetaExpired, Passed
      <4>. QED
        BY <1>3, <4>1, <4>2 DEF KeyViewed
    <3>. QED
      BY <3>1
  <2>5. d \in DOMAIN View' /\ View'[d] = View[s]
    <3>1. StrLive(d)'
      BY <1>1, <1>5, <2>2 DEF StrLive, Passed
    <3>2. StringObject(d)' = StringObject(s)
      BY <2>2 DEF StringObject
    <3>. QED
      BY <1>3, <1>5, <3>1, <3>2 DEF KeyViewed
  <2>. QED
    BY <2>3, <2>4, <2>5
<1>6. ASSUME ~StrLive(s), CompositeLive(s), CopyComposite(ActiveTag(s), s, d, nx, mv)
      PROVE  /\ \A i \in Keys \ (S \cup {d}) : Kept(i)
             /\ \A i \in S : i \notin DOMAIN View'
             /\ d \in DOMAIN View' /\ View'[d] = View[s]
  <2>1. PICK t \in Types : MetaLive(t, s) /\ CopyComposite(t, s, d, nx, mv)
    BY <1>6, ActiveTagLive
  <2>2. ASSUME NEW u \in Types, NEW i \in Keys
        PROVE  /\ meta'[<<u, i>>] = IF i = d THEN IF u = t THEN meta[<<t, s>>] ELSE Absent
                                    ELSE IF mv /\ i = s /\ u = t THEN Absent
                                    ELSE meta[<<u, i>>]
               /\ sub'[<<u, i>>] = IF i = d THEN IF u = t THEN sub[<<t, s>>] ELSE {}
                                   ELSE IF mv /\ i = s /\ u = t THEN {}
                                   ELSE sub[<<u, i>>]
    BY <1>4, <2>1, CopyCompositeRecords
  <2>3. str' = IF nx THEN str ELSE [str EXCEPT ![d] = Absent]
    BY <2>1 DEF CopyComposite
  <2>4. /\ \A i \in Keys \ {d} : str'[i] = str[i]
        /\ ~StrLive(d)'
    BY <1>1, <1>4, <2>3 DEF TypeOK, StrLive, Passed
  <2>5. \A i \in Keys \ (S \cup {d}) : Kept(i)
    BY <1>1, <2>2, <2>4, KeyKept
  <2>6. \A i \in S : i \notin DOMAIN View'
    <3>1. ASSUME mv PROVE s \notin DOMAIN View'
      <4>1. ~StrLive(s)'
        BY <1>1, <1>6, <2>4 DEF StrLive, Passed
      <4>2. ASSUME NEW u \in Types PROVE ~MetaLive(u, s)'
        <5>1. CASE u = t
          BY <2>2, <3>1, <5>1 DEF MetaLive
        <5>2. CASE u # t
          <6>1. MetaObject(u, s).type = u /\ MetaObject(t, s).type = t
            BY DEF MetaObject, Redis!Object
          <6>2. ~MetaLive(u, s)
            BY <1>3, <2>1, <5>2, <6>1 DEF KeyViewed
          <6>3. meta'[<<u, s>>] = meta[<<u, s>>]
            BY <2>2, <5>2
          <6>. QED
            BY <1>1, <6>2, <6>3 DEF MetaLive, MetaExpired, Passed
        <5>. QED
          BY <5>1, <5>2
      <4>. QED
        BY <1>3, <4>1, <4>2 DEF KeyViewed
    <3>. QED
      BY <3>1
  <2>7. d \in DOMAIN View' /\ View'[d] = View[s]
    <3>1. meta'[<<t, d>>] = meta[<<t, s>>] /\ sub'[<<t, d>>] = sub[<<t, s>>]
      BY <2>1, <2>2
    <3>2. MetaLive(t, d)'
      BY <1>1, <2>1, <3>1 DEF MetaLive, MetaExpired, Passed
    <3>3. MetaObject(t, d)' = MetaObject(t, s)
      BY <3>1 DEF MetaObject
    <3>. QED
      BY <1>3, <2>1, <3>2, <3>3 DEF KeyViewed
  <2>. QED
    BY <2>5, <2>6, <2>7
<1>7. /\ \A i \in Keys \ (S \cup {d}) : Kept(i)
      /\ \A i \in S : i \notin DOMAIN View'
      /\ d \in DOMAIN View' /\ View'[d] = View[s]
  <2>. HIDE DEF S
  <2>1. CASE StrLive(s) /\ CopyString(s, d, nx, mv)
    BY <1>5, <2>1
  <2>2. CASE ~StrLive(s) /\ CompositeLive(s) /\ CopyComposite(ActiveTag(s), s, d, nx, mv)
    BY <1>6, <2>2
  <2>. QED
    BY <2>1, <2>2, Zenon DEF CopyImpl
<1>8. View' = Redis!With(Redis!Without(View, S), d, View[s])
  BY <1>7, WithView
<1>9. Redis!Without(View, {}) = View
  BY DEF Redis!Without, Viewed
<1>10. Redis!Live(s) /\ ~(nx /\ Redis!Live(d))
  BY <1>2, ExistsViewed DEF CopyImpl, Exists
<1>. QED
  BY <1>1, <1>8, <1>9, <1>10 DEF Redis!Moved

LEMMA CopyRefines ==
    ASSUME TypeOK, SizeExact, Viewed, Viewed', NEW s \in Keys, NEW d \in Keys,
           NEW nx \in BOOLEAN, MayCopy(d, nx), TRUE \notin CopyNx, Copy(s, d, nx)
    PROVE  Redis!Copy(s, d, nx)
<1>1. CASE s # d /\ CopyImpl(s, d, nx, FALSE, 1)
  BY <1>1, CopyImplView DEF Redis!Copy
<1>2. CASE /\ s = d \/ ~Exists(s) \/ (nx /\ Exists(d))
           /\ Reply(IF s = d /\ Exists(s) /\ ~nx THEN 1 ELSE 0)
  BY <1>2, ExistsViewed, ReplyKeeps DEF Redis!Copy
<1>. QED
  BY <1>1, <1>2 DEF Copy

LEMMA RenameRefines ==
    ASSUME TypeOK, SizeExact, Viewed, Viewed', NEW s \in Keys, NEW d \in Keys,
           TRUE \notin CopyNx, Rename(s, d)
    PROVE  Redis!Rename(s, d)
<1>1. CASE s # d /\ CopyImpl(s, d, FALSE, TRUE, Ok)
  BY <1>1, CopyImplView DEF Redis!Rename, Ok, Redis!Ok
<1>2. CASE /\ s = d \/ ~Exists(s)
           /\ Reply(IF Exists(s) THEN Ok ELSE NoSuchKey)
  BY <1>2, ExistsViewed, ReplyKeeps
     DEF Redis!Rename, Redis!Keep, Ok, Redis!Ok, NoSuchKey, Redis!NoSuchKey
<1>. QED
  BY <1>1, <1>2 DEF Rename

LEMMA RenameNxRefines ==
    ASSUME TypeOK, SizeExact, Viewed, Viewed', NEW s \in Keys, NEW d \in Keys,
           MayCopy(d, TRUE), TRUE \notin CopyNx, RenameNx(s, d)
    PROVE  Redis!RenameNx(s, d)
<1>1. CASE s # d /\ CopyImpl(s, d, TRUE, TRUE, 1)
  BY <1>1, CopyImplView DEF Redis!RenameNx
<1>2. CASE /\ ~Exists(s) \/ Exists(d)
           /\ Reply(IF Exists(s) THEN 0 ELSE NoSuchKey)
  BY <1>2, ExistsViewed, ReplyKeeps DEF Redis!RenameNx, NoSuchKey, Redis!NoSuchKey
<1>. QED
  BY <1>1, <1>2 DEF RenameNx

\* DEL counts a key exactly when it takes away the key's live record.
LEMMA DelRefines ==
    ASSUME TypeOK, SizeExact, Viewed, Viewed', NEW K \in SUBSET Keys, Del(K)
    PROVE  Redis!Del(K)
<1>. DEFINE R == {k \in K : DelHits(k)}
            X == UNION {DelDoomed(k) : k \in K}
            stored(k) == {t \in Types : meta[<<t, k>>] # Absent}
<1>1. /\ \A k \in Keys : str'[k] = IF k \in K THEN Absent ELSE str[k]
      /\ meta' = MetaCleared(X) /\ sub' = SubCleared(X)
      /\ now' = now /\ ret' = Cardinality(R)
  BY DEF Del, Cleanup, Return
<1>2. ASSUME NEW k \in Keys
      PROVE  DelDoomed(k) = IF StrLive(k) \/ stored(k) = {} THEN {} ELSE {<<First(stored(k)), k>>}
  BY DEF DelDoomed
<1>3. ASSUME NEW k \in Keys, stored(k) # {} PROVE First(stored(k)) \in stored(k)
  BY <1>3, FirstIn
<1>4. ASSUME NEW k \in Keys, NEW t \in Types
      PROVE  <<t, k>> \in X <=> k \in K /\ <<t, k>> \in DelDoomed(k)
  <2>1. ASSUME NEW i \in Keys, <<t, k>> \in DelDoomed(i) PROVE i = k
    <3>1. DelDoomed(i) = {<<First(stored(i)), i>>}
      BY <1>2, <2>1
    <3>. QED
      BY <2>1, <3>1
  <2>. QED
    BY <2>1
<1>. HIDE DEF X, stored
<1>5. ASSUME NEW k \in Keys, NEW t \in Types
      PROVE  LET gone == k \in K /\ <<t, k>> \in DelDoomed(k)
             IN  /\ meta'[<<t, k>>] = IF gone THEN Absent ELSE meta[<<t, k>>]
                 /\ sub'[<<t, k>>] = IF gone THEN {} ELSE sub[<<t, k>>]
  BY <1>1, <1>4 DEF MetaCleared, SubCleared
<1>6. ASSUME NEW k \in Keys, k \notin R PROVE Kept(k)
  <2>1. CASE k \notin K
    BY <1>1, <1>5, <2>1, KeyKept
  <2>2. CASE k \in K
    <3>1. ~StrLive(k) /\ \A t \in Types : <<t, k>> \in DelDoomed(k) => ~MetaLive(t, k)
      BY <1>6, <2>2 DEF DelHits
    <3>. QED
      BY <1>1, <1>5, <2>2, <3>1, KeyKept
  <2>. QED
    BY <2>1, <2>2
<1>7. ASSUME NEW k \in R PROVE k \in DOMAIN View /\ k \notin DOMAIN View'
  <2>0. k \in Keys /\ k \in K /\ KeyViewed(k) /\ KeyViewed(k)'
    BY DEF Viewed
  <2>1. ~StrLive(k)'
    BY <1>1, <2>0 DEF StrLive
  <2>2. CASE StrLive(k)
    <3>1. \A t \in Types : ~MetaLive(t, k)'
      BY <1>1, <1>2, <1>5, <2>0, <2>2 DEF KeyViewed, MetaLive, MetaExpired, Passed
    <3>. QED
      BY <2>0, <2>1, <2>2, <3>1 DEF KeyViewed
  <2>3. CASE ~StrLive(k)
    <3>. DEFINE t == First(stored(k))
    <3>1. stored(k) # {} /\ DelDoomed(k) = {<<t, k>>}
      BY <1>2, <2>0, <2>3 DEF DelHits
    <3>2. t \in Types /\ MetaLive(t, k)
      BY <1>3, <2>0, <2>3, <3>1 DEF stored, DelHits
    <3>. HIDE DEF t
    <3>3. ASSUME NEW u \in Types PROVE ~MetaLive(u, k)'
      <4>1. CASE u = t
        BY <1>5, <2>0, <3>1, <4>1 DEF MetaLive
      <4>2. CASE u # t
        <5>1. MetaObject(u, k).type = u /\ MetaObject(t, k).type = t
          BY DEF MetaObject, Redis!Object
        <5>2. ~MetaLive(u, k)
          BY <2>0, <3>2, <4>2, <5>1 DEF KeyViewed
        <5>3. meta'[<<u, k>>] = meta[<<u, k>>]
          BY <1>5, <2>0, <3>1, <4>2
        <5>. QED
          BY <1>1, <5>2, <5>3 DEF MetaLive, MetaExpired, Passed
      <4>. QED
        BY <4>1, <4>2
    <3>. QED
      BY <2>0, <2>1, <3>2, <3>3 DEF KeyViewed
  <2>. QED
    BY <2>2, <2>3
<1>8. R \in SUBSET (K \cap DOMAIN View) /\ R \in SUBSET Keys
  BY <1>7
<1>. HIDE DEF R
<1>9. View' = Redis!Without(View, R)
  BY <1>6, <1>7, <1>8, WithoutView
<1>10. Redis!Return(Cardinality(R))
  BY <1>1 DEF Redis!Return, R
<1>11. Cardinality(R) = Redis!Cardinality(R)
  BY Zenon DEF Cardinality, Redis!Cardinality
<1>. QED
  BY <1>8, <1>9, <1>10, <1>11, Zenon DEF Redis!Del
----------------------------------------------------------------------------
(* The clock, FLUSHDB and the sweep.                                       *)

LEMMA TickRefines ==
    ASSUME TypeOK, Viewed, Viewed', Tick
    PROVE  Redis!Tick
<1>. DEFINE D == {i \in DOMAIN View : View[i].exp \notin 1 .. now'}
<1>1. now' = now + 1 /\ now \in Nat /\ UNCHANGED <<str, meta, sub>>
  BY DEF Tick, store, TypeOK
<1>2. ASSUME NEW k \in Keys
      PROVE  /\ k \in DOMAIN View' <=> k \in D
             /\ k \in D => View'[k] = View[k]
  <2>1. KeyViewed(k) /\ KeyViewed(k)'
    BY DEF Viewed
  <2>2. CASE StrLive(k)
    <3>1. View[k] = StringObject(k) /\ k \in DOMAIN View /\ View[k].exp \in Nat
      BY <2>1, <2>2 DEF KeyViewed
    <3>2. View[k].exp = str[k].exp
      BY <3>1 DEF StringObject, Redis!Object
    <3>3. StrLive(k)' <=> k \in D
      BY <1>1, <2>2, <3>1, <3>2 DEF StrLive, Passed
    <3>4. StringObject(k)' = StringObject(k)
      BY <1>1 DEF StringObject
    <3>5. \A t \in Types : ~MetaLive(t, k)'
      <4>1. \A t \in Types : ~MetaLive(t, k)
        BY <2>1, <2>2 DEF KeyViewed
      <4>2. ASSUME NEW t \in Types, MetaLive(t, k)' PROVE MetaLive(t, k)
        BY <1>1, <4>2 DEF TypeOK, Metas, MetaLive, MetaExpired, Passed
      <4>. QED
        BY <4>1, <4>2
    <3>. QED
      BY <2>1, <3>1, <3>3, <3>4, <3>5 DEF KeyViewed
  <2>3. ASSUME NEW t \in Types, MetaLive(t, k)
        PROVE  /\ k \in DOMAIN View' <=> k \in D
               /\ k \in D => View'[k] = View[k]
    <3>1. View[k] = MetaObject(t, k) /\ k \in DOMAIN View /\ View[k].exp \in Nat /\ ~StrLive(k)
      BY <2>1, <2>3 DEF KeyViewed
    <3>2. MetaObject(t, k).exp = meta[<<t, k>>].exp
      BY DEF MetaObject, Redis!Object
    <3>3. MetaLive(t, k)' <=> k \in D
      BY <1>1, <2>3, <3>1, <3>2 DEF MetaLive, MetaExpired, Passed
    <3>4. MetaObject(t, k)' = MetaObject(t, k)
      BY <1>1 DEF MetaObject
    <3>5. ~StrLive(k)'
      BY <1>1, <3>1 DEF TypeOK, Strings, StrLive, Passed
    <3>6. ASSUME NEW u \in Types, u # t PROVE ~MetaLive(u, k)'
      <4>1. MetaObject(u, k).type = u /\ MetaObject(t, k).type = t
        BY DEF MetaObject, Redis!Object
      <4>2. ~MetaLive(u, k)
        BY <2>1, <3>1, <3>6, <4>1 DEF KeyViewed
      <4>. QED
        BY <1>1, <4>2 DEF TypeOK, Metas, MetaLive, MetaExpired, Passed
    <3>. QED
      BY <2>1, <3>1, <3>3, <3>4, <3>5, <3>6 DEF KeyViewed
  <2>4. CASE ~StrLive(k) /\ \A t \in Types : ~MetaLive(t, k)
    <3>1. ~StrLive(k)' /\ \A t \in Types : ~MetaLive(t, k)'
      BY <1>1, <2>4 DEF TypeOK, Strings, Metas, StrLive, MetaLive, MetaExpired, Passed
    <3>. QED
      BY <2>1, <2>4, <3>1 DEF KeyViewed
  <2>. QED
    BY <2>2, <2>3, <2>4
<1>3. DOMAIN View' = D
  BY <1>2 DEF Viewed
<1>4. View' = [i \in D |-> View[i]]
  BY <1>2, <1>3 DEF Viewed
<1>. QED
  BY <1>4 DEF Tick, Redis!Tick, Redis!Settled

LEMMA FlushDbRefines ==
    ASSUME Viewed', FlushDb
    PROVE  Redis!FlushDb
<1>1. \A k \in Keys : k \notin DOMAIN View'
  BY DEF FlushDb, Viewed, KeyViewed, StrLive, MetaLive
<1>2. DOMAIN View' = {}
  BY <1>1 DEF Viewed
<1>3. View' = << >>
  BY <1>2 DEF Viewed
<1>. QED
  BY <1>3 DEF FlushDb, Redis!FlushDb, Return, Redis!Return, Ok, Redis!Ok

\* The sweep takes records that were not seen any more.
LEMMA SweepRefines ==
    ASSUME TypeOK, Viewed, Viewed', Sweep
    PROVE  UNCHANGED Redis!vars
<1>. DEFINE X == {x \in Types \X Keys : meta[x] # Absent /\ MetaExpired(meta[x])}
<1>1. /\ meta' = MetaCleared(X) /\ sub' = SubCleared(X) /\ UNCHANGED <<now, ret>>
      /\ \A k \in Keys : str'[k] = str[k] \/ (~StrLive(k) /\ str'[k] = Absent)
  BY DEF Sweep, Cleanup, StrLive
<1>2. ASSUME NEW k \in Keys, NEW t \in Types
      PROVE  \/ meta'[<<t, k>>] = meta[<<t, k>>] /\ sub'[<<t, k>>] = sub[<<t, k>>]
             \/ ~MetaLive(t, k) /\ meta'[<<t, k>>] = Absent
  BY <1>1 DEF MetaCleared, SubCleared, MetaLive
<1>3. \A k \in Keys : Kept(k)
  BY <1>1, <1>2, KeyKept
<1>. QED
  BY <1>1, <1>3, ViewSame DEF Redis!vars
----------------------------------------------------------------------------
(* The refinement.                                                         *)

KInv == TypeOK /\ OneLiveType /\ SizeExact

LEMMA InitRefines == Init => Redis!Init
<1>. SUFFICES ASSUME Init PROVE Redis!Init
  OBVIOUS
<1>1. \A k \in Keys : ~Exists(k)
  BY DEF Init, Exists, CompositeLive, StrLive, MetaLive
<1>2. View = << >>
  <2>1. DOMAIN View = {} /\ View = [k \in DOMAIN View |-> View[k]]
    BY <1>1 DEF View
  <2>. HIDE DEF View
  <2>. QED
    BY <2>1
<1>. QED
  BY <1>2 DEF Init, Redis!Init, Ok, Redis!Ok

LEMMA StepRefines ==
    ASSUME KInv, KInv', [Next]_vars, TRUE \notin CopyNx
    PROVE  [Redis!Next]_Redis!vars
<1>0. TypeOK /\ SizeExact /\ Viewed /\ Viewed'
  BY ViewedNext DEF KInv
<1>1. CASE Tick
  BY <1>0, <1>1, TickRefines DEF Redis!Next
<1>2. CASE FlushDb
  BY <1>0, <1>2, FlushDbRefines DEF Redis!Next
<1>3. CASE Sweep
  BY <1>0, <1>3, SweepRefines
<1>4. ASSUME NEW K \in SUBSET Keys \ {{}}, Del(K) PROVE Redis!Next
  BY <1>0, <1>4, DelRefines DEF Redis!Next
<1>5. ASSUME NEW k \in Keys, NEW v \in Values, NEW e \in Expiries, NEW mode \in SetModes,
             Set(k, v, e, mode)
      PROVE  Redis!Next
  BY <1>0, <1>5, SetRefines DEF Redis!Next, SetModes, Redis!SetModes
<1>6. ASSUME NEW k \in Keys, GetDel(k) PROVE Redis!Next
  BY <1>0, <1>6, GetDelRefines DEF Redis!Next
<1>7. ASSUME NEW k \in Keys, NEW t \in Types, NEW m \in Members, Add(t, k, m) \/ Remove(t, k, m)
      PROVE  Redis!Next
  BY <1>0, <1>7, AddRefines, RemoveRefines DEF Redis!Next
<1>8. ASSUME NEW k \in Keys, NEW e \in Expiries, NEW cond \in ExpireConditions,
             ExpireAt(k, e, cond)
      PROVE  Redis!Next
  BY <1>0, <1>8, ExpireAtRefines DEF Redis!Next, ExpireConditions, Redis!ExpireConditions
<1>9. ASSUME NEW k \in Keys, NEW d \in Keys, Rename(k, d) PROVE Redis!Next
  BY <1>0, <1>9, RenameRefines DEF Redis!Next
<1>10. ASSUME NEW k \in Keys, NEW d \in Keys, MayCopy(d, TRUE), RenameNx(k, d) PROVE Redis!Next
  BY <1>0, <1>10, RenameNxRefines DEF Redis!Next
<1>11. ASSUME NEW k \in Keys, NEW d \in Keys, NEW nx \in BOOLEAN, MayCopy(d, nx), Copy(k, d, nx)
       PROVE  Redis!Next
  BY <1>0, <1>11, CopyRefines DEF Redis!Next
<1>12. CASE UNCHANGED vars
  <2>1. Redis!Keep /\ UNCHANGED <<now, ret>>
    <3>1. \A k \in Keys : Kept(k)
      BY <1>0, <1>12, KeyKept DEF vars
    <3>. QED
      BY <1>0, <1>12, <3>1, ViewSame DEF vars, Redis!Keep
  <2>. QED
    BY <2>1 DEF Redis!Keep, Redis!vars
<1>. QED
  BY <1>1, <1>2, <1>3, <1>4, <1>5, <1>6, <1>7, <1>8, <1>9, <1>10, <1>11, <1>12 DEF Next

\* The two partitions implement one map from live keys to objects: whatever
\* has expired, been overwritten or been left behind is never seen again, for
\* any keys, types, members and times.  COPY NX and RENAMENX onto the records
\* of an expired collection are excluded, as in SizesExact.
THEOREM StoreImplementsRedisKeys ==
    ASSUME TRUE \notin CopyNx
    PROVE  Spec => ImplementsRedisKeys
<1>1. KInv /\ KInv' /\ [Next]_vars => [Redis!Next]_Redis!vars
  BY StepRefines
<1>2. TypeOK /\ OneLiveType /\ SizeExact => KInv
  BY DEF KInv
<1>. QED
  BY <1>1, <1>2, InitRefines, TypeCorrect, LiveTypeUnique, SizesExact, PTL
     DEF Spec, ImplementsRedisKeys, Redis!Spec

\* Call by call: with its own arguments each handler of strings, collections
\* and expiries (set_internal, getdel, sadd, si_rem, set_key_expire_at and
\* the rest) does what RedisKeys says of that operation with those arguments.
THEOREM EveryCallExact ==
    ASSUME TRUE \notin CopyNx
    PROVE  Spec => [][CallExact]_vars
<1>1. ASSUME KInv, KInv' PROVE CallExact
  <2>0. TypeOK /\ SizeExact /\ Viewed /\ Viewed'
    BY <1>1, ViewedNext DEF KInv
  <2>. SUFFICES ASSUME NEW k \in Keys
                PROVE  /\ \A v \in Values, e \in Expiries, mode \in SetModes :
                              Set(k, v, e, mode) => Redis!Set(k, v, e, mode)
                       /\ \A e \in Expiries, cond \in ExpireConditions :
                              ExpireAt(k, e, cond) => Redis!ExpireAt(k, e, cond)
                       /\ \A t \in Types, m \in Members :
                              /\ Add(t, k, m) => Redis!Add(t, k, m)
                              /\ Remove(t, k, m) => Redis!Remove(t, k, m)
                       /\ GetDel(k) => Redis!GetDel(k)
    BY DEF CallExact
  <2>1. ASSUME NEW v \in Values, NEW e \in Expiries, NEW mode \in SetModes, Set(k, v, e, mode)
        PROVE  Redis!Set(k, v, e, mode)
    BY <2>0, <2>1, SetRefines
  <2>2. ASSUME NEW e \in Expiries, NEW cond \in ExpireConditions, ExpireAt(k, e, cond)
        PROVE  Redis!ExpireAt(k, e, cond)
    BY <2>0, <2>2, ExpireAtRefines
  <2>3. ASSUME NEW t \in Types, NEW m \in Members, Add(t, k, m) PROVE Redis!Add(t, k, m)
    BY <2>0, <2>3, AddRefines
  <2>4. ASSUME NEW t \in Types, NEW m \in Members, Remove(t, k, m) PROVE Redis!Remove(t, k, m)
    BY <2>0, <2>4, RemoveRefines
  <2>5. ASSUME GetDel(k) PROVE Redis!GetDel(k)
    BY <2>0, <2>5, GetDelRefines
  <2>. QED
    BY <2>1, <2>2, <2>3, <2>4, <2>5
<1>2. TypeOK /\ OneLiveType /\ SizeExact => KInv
  BY DEF KInv
<1>3. KInv /\ KInv' /\ [Next]_vars => [CallExact]_vars
  BY <1>1
<1>. QED
  BY <1>2, <1>3, TypeCorrect, LiveTypeUnique, SizesExact, PTL DEF Spec
============================================================================
