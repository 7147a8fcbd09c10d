--------------------------- MODULE CatalogProofs ---------------------------
(***************************************************************************)
(* Theorems about the catalog, for any number of threads, any bounds and   *)
(* any mix of calls, crashes included.                                     *)
(*                                                                         *)
(* That an id is not drawn twice does not follow from the lock alone: a    *)
(* removal resets a counter while another thread is between its read and   *)
(* its write, and a crash sets both the counter and the catalog back.  The *)
(* inductive invariant therefore says three things.  Every id drawn by the *)
(* process or handed out in its store is below its counter.  In the store  *)
(* a restart would find, every id handed out is below its counter, which   *)
(* follows when the store is saved, for what is handed out was drawn       *)
(* before.  And a thread about to store holds the lock with an id above    *)
(* all those drawn or handed out, which a reset, emptying the histories    *)
(* with the counter, cannot spoil.                                         *)
(***************************************************************************)
EXTENDS Catalog, TLAPS

(* The ids that may not be drawn again. *)
NsUsed == nsDrawn \cup disk.nsGiven
DbUsed(n) == dbDrawn[n] \cup disk.dbGiven[n]

(* Every id drawn or handed out is below its counter. *)
UsedBelow ==
    /\ \A i \in NsUsed : i < disk.nsNext
    /\ \A n \in NsIds : \A i \in DbUsed(n) : i < disk.dbNext[n]

(* Every id whose handing out a store holds is below that store's counter. *)
GivenBelow(store) ==
    /\ \A i \in store.nsGiven : i < store.nsNext
    /\ \A n \in NsIds : \A i \in store.dbGiven[n] : i < store.dbNext[n]

(* A thread between the read and the write of an allocator. *)
Drawing(p) ==
    /\ pc[p] = "nsStore" =>
          /\ lock = p
          /\ call[p].cur \in 1 .. NsTop
          /\ \A i \in NsUsed : i < call[p].cur
    /\ pc[p] = "dbStore" =>
          /\ lock = p
          /\ call[p].cur \in 1 .. DbTop
          /\ \A i \in DbUsed(call[p].ns) : i < call[p].cur

IInv ==
    /\ TypeOK
    /\ UsedBelow
    /\ GivenBelow(saved)
    /\ \A p \in Procs : Drawing(p)

-----------------------------------------------------------------------------
(* The id a counter hands out is positive and no smaller than the counter. *)
LEMMA NextIdBound ==
    ASSUME NEW k \in Nat
    PROVE  NextId(k) \in Nat /\ NextId(k) >= 1 /\ NextId(k) >= k
BY DEF NextId

(* Activating a scope changes the catalog of a store and nothing else. *)
LEMMA ActivatedStore ==
    ASSUME NEW s \in Stores, NEW scope \in Scopes
    PROVE  /\ Activated(s, scope) \in Stores
           /\ Activated(s, scope).nsNext = s.nsNext
           /\ Activated(s, scope).dbNext = s.dbNext
           /\ Activated(s, scope).nsGiven = s.nsGiven
           /\ Activated(s, scope).dbGiven = s.dbGiven
           /\ Activated(s, scope).catalog = s.catalog \cup {scope}
           /\ Activated(s, scope).data = s.data
           /\ Activated(s, scope).meta = s.meta
BY DEF Activated, Stores

(* Handing out marks ids that are drawn, and changes nothing but the marks. *)
LEMMA HandedOutStore ==
    ASSUME TypeOK, NEW s \in Stores, NEW c \in Locals
    PROVE  /\ HandedOut(s, c) \in Stores
           /\ HandedOut(s, c).nsNext = s.nsNext
           /\ HandedOut(s, c).dbNext = s.dbNext
           /\ HandedOut(s, c).nsGiven \subseteq s.nsGiven \cup nsDrawn
           /\ \A n \in NsIds : HandedOut(s, c).dbGiven[n] \subseteq s.dbGiven[n] \cup dbDrawn[n]
           /\ HandedOut(s, c).catalog = s.catalog
           /\ HandedOut(s, c).data = s.data
           /\ HandedOut(s, c).meta = s.meta
<1> DEFINE given == s.nsGiven \cup {n \in nsDrawn : c.op = "ns" /\ n = c.ns}
           own == s.dbGiven[c.ns] \cup {d \in dbDrawn[c.ns] : c.op = "db" /\ d = c.db}
           dbs == [s.dbGiven EXCEPT ![c.ns] = own]
<1>1. /\ c.ns \in NsIds /\ nsDrawn \in SUBSET NsIds /\ dbDrawn \in [NsIds -> SUBSET DbIds]
      /\ s.nsGiven \in SUBSET NsIds /\ s.dbGiven \in [NsIds -> SUBSET DbIds]
  BY DEF TypeOK, Locals, Stores
<1>2. given \in SUBSET NsIds /\ given \subseteq s.nsGiven \cup nsDrawn
  BY <1>1
<1>3. own \in SUBSET DbIds /\ own \subseteq s.dbGiven[c.ns] \cup dbDrawn[c.ns]
  BY <1>1
<1>4. HandedOut(s, c) = [s EXCEPT !.nsGiven = given, !.dbGiven = dbs]
  BY <1>1 DEF HandedOut, Stores
<1> HIDE DEF given, own
<1>5. dbs \in [NsIds -> SUBSET DbIds] /\ \A n \in NsIds : dbs[n] \subseteq s.dbGiven[n] \cup dbDrawn[n]
  BY <1>1, <1>3
<1> HIDE DEF dbs
<1> QED BY <1>2, <1>4, <1>5 DEF Stores

(* The scope of a call is one the run reaches. *)
LEMMA ScopeOfCall ==
    ASSUME TypeOK, NEW p \in Procs
    PROVE  <<call[p].ns, call[p].db>> \in Scopes /\ call[p].ns \in NsIds
BY DEF TypeOK, Locals, Scopes

LEMMA ZeroIds == 0 \in NsIds /\ 0 \in DbIds /\ <<0, 0>> \in Scopes
BY CatalogAssumption DEF NsIds, DbIds, Scopes

(* A new engine's store. *)
LEMMA NewStoreType ==
    /\ NewStore \in Stores
    /\ NewStore.nsNext = 0
    /\ NewStore.nsGiven = {}
    /\ NewStore.dbNext = [n \in NsIds |-> 0]
    /\ NewStore.dbGiven = [n \in NsIds |-> {}]
    /\ NewStore.data = {}
    /\ NewStore.meta = {}
<1> DEFINE blank == [nsNext |-> 0, dbNext |-> [n \in NsIds |-> 0],
                     catalog |-> {}, data |-> {}, meta |-> {},
                     nsGiven |-> {}, dbGiven |-> [n \in NsIds |-> {}]]
<1>1. 0 \in 0 .. NsTop + 1 /\ 0 \in 0 .. DbTop + 1
  BY CatalogAssumption
<1>2. blank \in Stores
  BY <1>1 DEF Stores
<1> QED BY <1>2, ZeroIds, ActivatedStore DEF NewStore, Booted

LEMMA IdleType == Idle \in Locals
BY ZeroIds, CatalogAssumption DEF Idle, Locals, CallNames

(* The batch of a removal keeps the namespaces' counter and marks, and those *)
(* of every database counter it does not delete.                             *)
LEMMA RemovedStore ==
    ASSUME NEW s \in Stores, NEW c \in Locals
    PROVE  /\ Removed(s, c) \in Stores
           /\ Removed(s, c).nsNext = s.nsNext /\ Removed(s, c).nsGiven = s.nsGiven
           /\ \A n \in NsIds :
                 \/ /\ Removed(s, c).dbNext[n] = s.dbNext[n]
                    /\ Removed(s, c).dbGiven[n] = s.dbGiven[n]
                 \/ c.op = "nsrm" /\ n = c.ns /\ Removed(s, c).dbGiven[n] = {}
<1> DEFINE t == [s EXCEPT !.data = @ \ c.seenData,
                          !.meta = @ \ c.seenMeta,
                          !.catalog = @ \ c.seenCatalog]
           u == [t EXCEPT !.dbNext[c.ns] = 0, !.dbGiven[c.ns] = {}]
<1>1. t \in Stores /\ t.nsGiven = s.nsGiven /\ t.nsNext = s.nsNext
         /\ t.dbGiven = s.dbGiven /\ t.dbNext = s.dbNext
  BY DEF Stores
<1>2. /\ u \in Stores /\ u.nsGiven = s.nsGiven /\ u.nsNext = s.nsNext
      /\ u.dbNext = [s.dbNext EXCEPT ![c.ns] = 0]
      /\ u.dbGiven = [s.dbGiven EXCEPT ![c.ns] = {}]
  <2>0. c.ns \in NsIds /\ 0 \in 0 .. DbTop + 1
    BY CatalogAssumption DEF Locals
  <2>1. [s.dbNext EXCEPT ![c.ns] = 0] \in [NsIds -> 0 .. DbTop + 1]
    BY <2>0 DEF Stores
  <2>2. [s.dbGiven EXCEPT ![c.ns] = {}] \in [NsIds -> SUBSET DbIds]
    BY <2>0 DEF Stores
  <2>3. u = [t EXCEPT !.dbNext = [s.dbNext EXCEPT ![c.ns] = 0],
                      !.dbGiven = [s.dbGiven EXCEPT ![c.ns] = {}]]
    BY <1>1 DEF Stores
  <2> HIDE DEF t, u
  <2> QED BY <1>1, <2>1, <2>2, <2>3 DEF Stores
<1>3. Removed(s, c) = IF c.op = "nsrm" THEN u ELSE t
  BY DEF Removed
<1> HIDE DEF t, u
<1>4. s.dbNext \in [NsIds -> 0 .. DbTop + 1] /\ s.dbGiven \in [NsIds -> SUBSET DbIds]
  BY DEF Stores
<1>5. c.ns \in NsIds
  BY DEF Locals
<1> QED BY <1>1, <1>2, <1>3, <1>4, <1>5

(* What is handed out is below its counter: so is what a save or a restart finds. *)
LEMMA UsedGiven ==
    ASSUME UsedBelow PROVE GivenBelow(disk)
BY DEF UsedBelow, GivenBelow, NsUsed, DbUsed
-----------------------------------------------------------------------------
LEMMA InitIInv == Init => IInv
<1> SUFFICES ASSUME Init PROVE IInv
  OBVIOUS
<1>1. TypeOK
  BY NewStoreType, IdleType, CatalogAssumption DEF Init, TypeOK, Labels
<1>2. GivenBelow(NewStore) /\ (Init => UsedBelow)
  BY NewStoreType DEF Init, GivenBelow, UsedBelow, NsUsed, DbUsed
<1>3. \A p \in Procs : Drawing(p)
  BY DEF Init, Drawing
<1> QED BY <1>1, <1>2, <1>3 DEF Init, IInv

(* A step that takes no lock, adds no drawn id and moves one thread to a     *)
(* label outside the allocators leaves every other thread's draw good.       *)
LEMMA QuietStep ==
    ASSUME IInv, NEW p \in Procs, NEW label \in Labels \ {"nsStore", "dbStore"},
           pc' = [pc EXCEPT ![p] = label],
           lock' = lock \/ (lock = p /\ lock' = NoProc),
           \A q \in Procs \ {p} : call'[q].cur = call[q].cur /\ call'[q].ns = call[q].ns,
           NsUsed' \subseteq NsUsed \/ lock = p,
           (\A n \in NsIds : DbUsed(n)' \subseteq DbUsed(n)) \/ lock = p
    PROVE  \A q \in Procs : Drawing(q)'
<1> SUFFICES ASSUME NEW q \in Procs PROVE Drawing(q)'
  OBVIOUS
<1>0. pc \in [Procs -> Labels] /\ call[q].ns \in NsIds /\ Drawing(q)
  BY ScopeOfCall DEF IInv, TypeOK
<1>1. CASE q = p
  BY <1>0, <1>1 DEF Drawing
<1>2. CASE q # p
  <2>1. pc'[q] = pc[q] /\ call'[q].cur = call[q].cur /\ call'[q].ns = call[q].ns
    BY <1>0, <1>2
  <2>2. CASE pc[q] \notin {"nsStore", "dbStore"}
    BY <2>1, <2>2 DEF Drawing
  <2>3. CASE pc[q] \in {"nsStore", "dbStore"}
    <3>1. lock = q /\ lock # p /\ lock' = q
      BY <1>0, <1>2, <2>3 DEF Drawing
    <3>2. NsUsed' \subseteq NsUsed /\ \A n \in NsIds : DbUsed(n)' \subseteq DbUsed(n)
      BY <3>1
    <3> QED BY <1>0, <2>1, <2>3, <3>1, <3>2 DEF Drawing, DbUsed
  <2> QED BY <2>2, <2>3
<1> QED BY <1>1, <1>2

(* A step that keeps the counters and uses no more ids keeps them above. *)
LEMMA KeptBelow ==
    ASSUME UsedBelow, GivenBelow(saved), saved' = saved,
           disk'.nsNext = disk.nsNext, disk'.dbNext = disk.dbNext,
           NsUsed' \subseteq NsUsed, \A n \in NsIds : DbUsed(n)' \subseteq DbUsed(n)
    PROVE  UsedBelow' /\ GivenBelow(saved)'
BY DEF UsedBelow, GivenBelow, DbUsed

(* The start of a call. *)
LEMMA BeginStep ==
    ASSUME IInv, NEW p \in Procs, NEW op \in CallNames, NEW n \in NsIds, NEW d \in DbIds,
           NEW label \in Labels \ {"nsStore", "dbStore"}, Begin(p, op, n, d, label)
    PROVE  IInv'
<1>1. [Idle EXCEPT !.op = op, !.ns = n, !.db = d] \in Locals
  BY IdleType DEF Locals
<1>2. TypeOK'
  BY <1>1, CatalogAssumption DEF Begin, IInv, TypeOK, Labels, drawn
<1>3. NsUsed' = NsUsed /\ \A m \in NsIds : DbUsed(m)' = DbUsed(m)
  BY DEF Begin, drawn, NsUsed, DbUsed
<1>4. \A q \in Procs : Drawing(q)'
  <2>1. \A q \in Procs \ {p} : call'[q] = call[q]
    BY DEF Begin, IInv, TypeOK
  <2> QED BY <1>3, <2>1, QuietStep DEF Begin
<1>5. UsedBelow' /\ GivenBelow(saved)'
  BY <1>3, KeptBelow DEF Begin, IInv
<1> QED BY <1>2, <1>4, <1>5 DEF IInv

(* Storing an id drawn for a namespace. *)
LEMMA NsStoreStep ==
    ASSUME IInv, NEW p \in Procs, NsStore(p)
    PROVE  IInv'
<1> DEFINE k == call[p].cur
<1>1. k \in 1 .. NsTop /\ lock = p /\ \A i \in NsUsed : i < k
  BY DEF IInv, Drawing, NsStore
<1>2. k \in NsIds /\ k + 1 \in 0 .. NsTop + 1
  BY <1>1, CatalogAssumption DEF NsIds
<1>3. disk \in Stores /\ call[p] \in Locals
  BY DEF IInv, TypeOK
<1>4. /\ disk' \in Stores
      /\ disk'.nsNext = k + 1 /\ disk'.nsGiven = disk.nsGiven
      /\ disk'.dbNext = disk.dbNext /\ disk'.dbGiven = disk.dbGiven
  BY <1>2, <1>3 DEF NsStore, Stores
<1>5. [call[p] EXCEPT !.ns = k] \in Locals
  BY <1>2, <1>3 DEF Locals
<1>6. call' = [call EXCEPT ![p] = [call[p] EXCEPT !.ns = k]]
  BY DEF NsStore
<1>7. TypeOK'
  <2>1. nsDrawn' \in SUBSET NsIds /\ dbDrawn' = dbDrawn
    BY <1>2 DEF NsStore, IInv, TypeOK
  <2> QED BY <1>4, <1>5, <1>6, <2>1 DEF NsStore, Goto, IInv, TypeOK, Labels
<1>8. UsedBelow'
  <2>1. \A i \in NsUsed : i \in Int
    BY <1>3 DEF Stores, NsIds, NsUsed, IInv, TypeOK
  <2>2. NsUsed' = NsUsed \cup {k}
    BY <1>4 DEF NsStore, NsUsed
  <2>3. \A i \in NsUsed' : i < disk'.nsNext
    BY <1>1, <1>4, <2>1, <2>2
  <2>4. \A n \in NsIds : DbUsed(n)' = DbUsed(n)
    BY <1>4 DEF NsStore, DbUsed
  <2> QED BY <1>4, <2>3, <2>4 DEF IInv, UsedBelow
<1>9. \A q \in Procs : Drawing(q)'
  <2>1. \A q \in Procs \ {p} : call'[q] = call[q]
    BY <1>6 DEF IInv, TypeOK
  <2>2. pc' = [pc EXCEPT ![p] = "activate"] /\ lock' = NoProc
    BY DEF NsStore, Goto
  <2> QED BY <1>1, <1>4, <2>1, <2>2, QuietStep DEF Labels
<1>10. GivenBelow(saved)'
  BY DEF NsStore, IInv, GivenBelow
<1> QED BY <1>7, <1>8, <1>9, <1>10 DEF IInv

(* Storing an id drawn for a database. *)
LEMMA DbStoreStep ==
    ASSUME IInv, NEW p \in Procs, DbStore(p)
    PROVE  IInv'
<1> DEFINE k == call[p].cur
           n == call[p].ns
           next == [disk.dbNext EXCEPT ![n] = k + 1]
<1>1. k \in 1 .. DbTop /\ lock = p /\ \A i \in DbUsed(n) : i < k
  BY DEF IInv, Drawing, DbStore
<1>2. k \in DbIds /\ k + 1 \in 0 .. DbTop + 1
  BY <1>1, CatalogAssumption DEF DbIds
<1>3. /\ disk \in Stores /\ call[p] \in Locals /\ n \in NsIds
      /\ disk.dbNext \in [NsIds -> 0 .. DbTop + 1]
      /\ dbDrawn \in [NsIds -> SUBSET DbIds]
  BY ScopeOfCall DEF IInv, TypeOK, Stores
<1>4. next \in [NsIds -> 0 .. DbTop + 1] /\ dbDrawn' \in [NsIds -> SUBSET DbIds]
  BY <1>2, <1>3 DEF DbStore
<1>5. disk' = [disk EXCEPT !.dbNext = next]
  BY <1>3 DEF DbStore, Stores
<1>6. /\ disk' \in Stores
      /\ disk'.nsNext = disk.nsNext /\ disk'.nsGiven = disk.nsGiven
      /\ disk'.dbNext = next /\ disk'.dbGiven = disk.dbGiven
  <2> HIDE DEF next, k, n
  <2> QED BY <1>3, <1>4, <1>5 DEF Stores
<1>7. [call[p] EXCEPT !.db = k] \in Locals
  BY <1>2, <1>3 DEF Locals
<1>8. call' = [call EXCEPT ![p] = [call[p] EXCEPT !.db = k]]
  BY DEF DbStore
<1>9. TypeOK'
  BY <1>4, <1>6, <1>7, <1>8 DEF DbStore, Goto, IInv, TypeOK, Labels
<1>10. UsedBelow'
  <2>1. \A m \in NsIds : \A i \in DbUsed(m) : i \in Int /\ i < disk.dbNext[m]
    BY <1>3 DEF DbIds, IInv, UsedBelow, DbUsed, Stores
  <2>2. ASSUME NEW m \in NsIds, NEW i \in DbUsed(m)' PROVE i < next[m]
    <3>1. CASE m = n
      <4>1. i \in DbUsed(n) \cup {k}
        BY <1>3, <1>6, <2>2, <3>1 DEF DbStore, DbUsed
      <4> QED BY <1>1, <1>2, <1>3, <2>1, <3>1, <4>1
    <3>2. CASE m # n
      <4>1. i \in DbUsed(m)
        BY <1>3, <1>6, <2>2, <3>2 DEF DbStore, DbUsed
      <4> QED BY <1>3, <2>1, <3>2, <4>1
    <3> QED BY <3>1, <3>2
  <2>3. NsUsed' = NsUsed
    BY <1>6 DEF DbStore, NsUsed
  <2> QED BY <1>6, <2>2, <2>3 DEF IInv, UsedBelow
<1>11. \A q \in Procs : Drawing(q)'
  <2>1. \A q \in Procs \ {p} : call'[q] = call[q]
    BY <1>8 DEF IInv, TypeOK
  <2>2. pc' = [pc EXCEPT ![p] = "activate"] /\ lock' = NoProc
    BY DEF DbStore, Goto
  <2>3. "activate" \in Labels \ {"nsStore", "dbStore"}
    BY DEF Labels
  <2>4. NsUsed' = NsUsed
    BY <1>6 DEF DbStore, NsUsed
  <2> QED BY <1>1, <2>1, <2>2, <2>3, <2>4, QuietStep
<1>12. GivenBelow(saved)'
  BY DEF DbStore, IInv, GivenBelow
<1> QED BY <1>9, <1>10, <1>11, <1>12 DEF IInv

(* Drawing an id for a namespace: nobody else is drawing, for the lock was free. *)
LEMMA NsReadStep ==
    ASSUME IInv, NEW p \in Procs, NsRead(p)
    PROVE  IInv'
<1> DEFINE k == NextId(disk.nsNext)
<1>0. disk \in Stores /\ call[p] \in Locals /\ call[p].ns \in NsIds /\ disk.nsNext \in 0 .. NsTop + 1
  BY ScopeOfCall DEF IInv, TypeOK, Stores
<1>1. k \in 1 .. NsTop /\ k >= disk.nsNext
  BY <1>0, NextIdBound, CatalogAssumption DEF NsRead
<1>2. call' = [call EXCEPT ![p] = [call[p] EXCEPT !.cur = k]]
  BY DEF NsRead
<1>3. [call[p] EXCEPT !.cur = k] \in Locals
  BY <1>0, <1>1, CatalogAssumption DEF Locals
<1>4. TypeOK'
  <2> HIDE DEF k
  <2> QED BY <1>2, <1>3 DEF NsRead, Acquire, Goto, IInv, TypeOK, Labels, drawn
<1>5. \A i \in NsUsed : i < k
  <2>1. \A i \in NsUsed : i \in Int /\ i < disk.nsNext
    BY <1>0 DEF IInv, TypeOK, UsedBelow, NsUsed, DbUsed, Stores, NsIds, DbIds
  <2> QED BY <1>0, <1>1, <2>1
<1>6. ASSUME NEW q \in Procs PROVE Drawing(q)'
  <2>1. CASE q = p
    <3>1. /\ pc'[p] = "nsStore" /\ lock' = p /\ disk' = disk /\ drawn' = drawn
          /\ call'[p].cur = k /\ call'[p].ns = call[p].ns
      BY <1>0, <1>2 DEF NsRead, Acquire, Goto, IInv, TypeOK, Locals
    <3> HIDE DEF k
    <3> QED BY <1>1, <1>5, <2>1, <3>1 DEF Drawing, drawn, NsUsed, DbUsed
  <2>2. CASE q # p
    <3>1. pc[q] \notin {"nsStore", "dbStore"}
      BY CatalogAssumption DEF IInv, Drawing, NsRead, Acquire
    <3>2. pc'[q] = pc[q]
      BY <2>2 DEF NsRead, Goto, IInv, TypeOK
    <3> QED BY <3>1, <3>2 DEF Drawing
  <2> QED BY <2>1, <2>2
<1>7. UsedBelow' /\ GivenBelow(saved)'
  <2>1. NsUsed' = NsUsed /\ \A n \in NsIds : DbUsed(n)' = DbUsed(n)
    BY DEF NsRead, drawn, NsUsed, DbUsed
  <2> QED BY <2>1, KeptBelow DEF NsRead, IInv
<1> QED BY <1>4, <1>6, <1>7 DEF IInv

(* Drawing an id for a database: nobody else is drawing, for the lock was free. *)
LEMMA DbReadStep ==
    ASSUME IInv, NEW p \in Procs, DbRead(p)
    PROVE  IInv'
<1> DEFINE k == NextId(disk.dbNext[call[p].ns])
<1>0. disk \in Stores /\ call[p] \in Locals /\ call[p].ns \in NsIds /\ disk.dbNext[call[p].ns] \in 0 .. DbTop + 1
  BY ScopeOfCall DEF IInv, TypeOK, Stores
<1>1. k \in 1 .. DbTop /\ k >= disk.dbNext[call[p].ns]
  BY <1>0, NextIdBound, CatalogAssumption DEF DbRead
<1>2. call' = [call EXCEPT ![p] = [call[p] EXCEPT !.cur = k]]
  BY DEF DbRead
<1>3. [call[p] EXCEPT !.cur = k] \in Locals
  BY <1>0, <1>1, CatalogAssumption DEF Locals
<1>4. TypeOK'
  <2> HIDE DEF k
  <2> QED BY <1>2, <1>3 DEF DbRead, Acquire, Goto, IInv, TypeOK, Labels, drawn
<1>5. \A i \in DbUsed(call[p].ns) : i < k
  <2>1. \A i \in DbUsed(call[p].ns) : i \in Int /\ i < disk.dbNext[call[p].ns]
    BY <1>0 DEF IInv, TypeOK, UsedBelow, NsUsed, DbUsed, Stores, NsIds, DbIds
  <2> QED BY <1>0, <1>1, <2>1
<1>6. ASSUME NEW q \in Procs PROVE Drawing(q)'
  <2>1. CASE q = p
    <3>1. /\ pc'[p] = "dbStore" /\ lock' = p /\ disk' = disk /\ drawn' = drawn
          /\ call'[p].cur = k /\ call'[p].ns = call[p].ns
      BY <1>0, <1>2 DEF DbRead, Acquire, Goto, IInv, TypeOK, Locals
    <3> HIDE DEF k
    <3> QED BY <1>1, <1>5, <2>1, <3>1 DEF Drawing, drawn, NsUsed, DbUsed
  <2>2. CASE q # p
    <3>1. pc[q] \notin {"nsStore", "dbStore"}
      BY CatalogAssumption DEF IInv, Drawing, DbRead, Acquire
    <3>2. pc'[q] = pc[q]
      BY <2>2 DEF DbRead, Goto, IInv, TypeOK
    <3> QED BY <3>1, <3>2 DEF Drawing
  <2> QED BY <2>1, <2>2
<1>7. UsedBelow' /\ GivenBelow(saved)'
  <2>1. NsUsed' = NsUsed /\ \A n \in NsIds : DbUsed(n)' = DbUsed(n)
    BY DEF DbRead, drawn, NsUsed, DbUsed
  <2> QED BY <2>1, KeptBelow DEF DbRead, IInv
<1> QED BY <1>4, <1>6, <1>7 DEF IInv

(* Writing the catalog entry. *)
LEMMA ActivateStep ==
    ASSUME IInv, NEW p \in Procs, Activate(p)
    PROVE  IInv'
<1>1. <<call[p].ns, call[p].db>> \in Scopes /\ disk \in Stores
  BY ScopeOfCall DEF IInv, TypeOK
<1> DEFINE t == Activated(disk, <<call[p].ns, call[p].db>>)
<1>2. /\ t \in Stores /\ t.nsNext = disk.nsNext /\ t.dbNext = disk.dbNext
      /\ t.nsGiven = disk.nsGiven /\ t.dbGiven = disk.dbGiven
  BY <1>1, ActivatedStore
<1>3. disk' = HandedOut(t, call[p]) /\ call[p] \in Locals
  BY DEF Activate, IInv, TypeOK
<1> HIDE DEF t
<1>4. /\ disk' \in Stores /\ disk'.nsNext = disk.nsNext /\ disk'.dbNext = disk.dbNext
      /\ disk'.nsGiven \subseteq disk.nsGiven \cup nsDrawn
      /\ \A n \in NsIds : disk'.dbGiven[n] \subseteq disk.dbGiven[n] \cup dbDrawn[n]
  BY <1>2, <1>3, HandedOutStore DEF IInv
<1>5. TypeOK'
  BY <1>1, <1>4 DEF Activate, Goto, IInv, TypeOK, Labels, drawn
<1>6. NsUsed' \subseteq NsUsed /\ \A n \in NsIds : DbUsed(n)' \subseteq DbUsed(n)
  BY <1>4 DEF Activate, drawn, NsUsed, DbUsed
<1>7. \A q \in Procs : Drawing(q)'
  BY <1>6, QuietStep DEF Activate, Goto, Labels
<1>8. UsedBelow' /\ GivenBelow(saved)'
  BY <1>4, <1>6, KeptBelow DEF Activate, IInv
<1> QED BY <1>5, <1>7, <1>8 DEF IInv

(* A scan remembers what it saw and changes nothing else. *)
LEMMA ScanStep ==
    ASSUME IInv, NEW p \in Procs, ScanData(p) \/ ScanMeta(p) \/ ScanCatalog(p)
    PROVE  IInv'
<1>0. disk \in Stores /\ call \in [Procs -> Locals] /\ Targets(call[p]) \in SUBSET Scopes
  <2>1. call[p].ns \in NsIds /\ call[p].db \in DbIds
    BY DEF IInv, TypeOK, Locals
  <2> QED BY <2>1 DEF IInv, TypeOK, Targets, Scopes
<1>1. PICK c \in Locals, label \in {"scanMeta", "scanCatalog", "commit"} :
         /\ call' = [call EXCEPT ![p] = c]
         /\ pc' = [pc EXCEPT ![p] = label]
  <2>1. CASE ScanData(p)
    <3>1. [call[p] EXCEPT !.seenData = disk.data \cap Targets(call[p])] \in Locals
      BY <1>0 DEF Locals, Stores
    <3> QED BY <2>1, <3>1 DEF ScanData, Goto
  <2>2. CASE ScanMeta(p)
    <3>1. [call[p] EXCEPT !.seenMeta = disk.meta \cap Targets(call[p]),
                          !.seenCatalog = Targets(call[p])] \in Locals
      BY <1>0 DEF Locals, Stores
    <3> QED BY <2>2, <3>1 DEF ScanMeta, Goto
  <2>3. CASE ScanCatalog(p)
    <3>1. [call[p] EXCEPT !.seenCatalog = disk.catalog \cap Targets(call[p])] \in Locals
      BY <1>0 DEF Locals, Stores
    <3> QED BY <2>3, <3>1 DEF ScanCatalog, Goto
  <2> QED BY <2>1, <2>2, <2>3
<1>2. UNCHANGED <<disk, saved, lock, opened, drawn, started>>
  BY DEF ScanData, ScanMeta, ScanCatalog
<1>3. TypeOK'
  BY <1>1, <1>2 DEF IInv, TypeOK, Labels, drawn
<1>4. NsUsed' = NsUsed /\ \A n \in NsIds : DbUsed(n)' = DbUsed(n)
  BY <1>2 DEF drawn, NsUsed, DbUsed
<1>5. \A q \in Procs : Drawing(q)'
  <2>1. \A q \in Procs \ {p} : call'[q] = call[q]
    BY <1>0, <1>1
  <2> QED BY <1>1, <1>2, <1>4, <2>1, QuietStep DEF Labels
<1>6. UsedBelow' /\ GivenBelow(saved)'
  BY <1>2, <1>4, KeptBelow DEF IInv
<1> QED BY <1>3, <1>5, <1>6 DEF IInv

(* The batch of a removal. *)
LEMMA CommitStep ==
    ASSUME IInv, NEW p \in Procs, Commit(p)
    PROVE  IInv'
<1>1. /\ disk \in Stores /\ call[p] \in Locals /\ call[p].ns \in NsIds
      /\ dbDrawn \in [NsIds -> SUBSET DbIds]
  BY ScopeOfCall DEF IInv, TypeOK
<1>2. /\ disk' \in Stores /\ disk'.nsNext = disk.nsNext /\ disk'.nsGiven = disk.nsGiven
      /\ \A n \in NsIds :
            \/ disk'.dbNext[n] = disk.dbNext[n] /\ disk'.dbGiven[n] = disk.dbGiven[n]
            \/ call[p].op = "nsrm" /\ n = call[p].ns /\ disk'.dbGiven[n] = {}
  BY <1>1, RemovedStore DEF Commit
<1>3. /\ dbDrawn' \in [NsIds -> SUBSET DbIds]
      /\ \A n \in NsIds : IF call[p].op = "nsrm" /\ n = call[p].ns THEN dbDrawn'[n] = {}
                                                               ELSE dbDrawn'[n] = dbDrawn[n]
  BY <1>1 DEF Commit
<1>4. PICK label \in {"activate", "idle"} : pc' = [pc EXCEPT ![p] = label]
  BY DEF Commit, Goto, AfterCommit
<1>5. TypeOK'
  BY <1>2, <1>3, <1>4 DEF Commit, IInv, TypeOK, Labels
<1>6. NsUsed' = NsUsed /\ \A n \in NsIds : DbUsed(n)' \subseteq DbUsed(n)
  BY <1>2, <1>3 DEF Commit, NsUsed, DbUsed
<1>7. UsedBelow'
  <2>1. ASSUME NEW n \in NsIds, NEW i \in DbUsed(n)' PROVE i < disk'.dbNext[n]
    <3>1. i \in DbUsed(n)
      BY <1>6, <2>1
    <3>2. disk'.dbNext[n] = disk.dbNext[n]
      BY <1>2, <1>3, <2>1 DEF DbUsed
    <3> QED BY <3>1, <3>2 DEF IInv, UsedBelow
  <2> QED BY <1>2, <1>6, <2>1 DEF IInv, UsedBelow
<1>8. \A q \in Procs : Drawing(q)'
  BY <1>4, <1>6, QuietStep DEF Commit, Labels
<1>9. GivenBelow(saved)'
  BY DEF Commit, IInv, GivenBelow
<1> QED BY <1>5, <1>7, <1>8, <1>9 DEF IInv

(* The two truncations of WeDb::rm. *)
LEMMA ClearStep ==
    ASSUME IInv, NEW p \in Procs, ClearData(p) \/ ClearMeta(p)
    PROVE  IInv'
<1>1. CASE ClearData(p)
  <2>1. /\ disk' \in Stores
        /\ disk'.nsNext = disk.nsNext /\ disk'.nsGiven = disk.nsGiven
        /\ disk'.dbNext = disk.dbNext /\ disk'.dbGiven = disk.dbGiven
    BY <1>1 DEF ClearData, IInv, TypeOK, Stores
  <2>2. TypeOK'
    BY <1>1, <2>1 DEF ClearData, Goto, IInv, TypeOK, Labels, drawn
  <2>3. NsUsed' = NsUsed /\ \A n \in NsIds : DbUsed(n)' = DbUsed(n)
    BY <1>1, <2>1 DEF ClearData, drawn, NsUsed, DbUsed
  <2>4. \A q \in Procs : Drawing(q)'
    BY <1>1, <2>3, QuietStep DEF ClearData, Goto, Labels
  <2>5. UsedBelow' /\ GivenBelow(saved)'
    BY <1>1, <2>1, <2>3, KeptBelow DEF ClearData, IInv
  <2> QED BY <2>2, <2>4, <2>5 DEF IInv
<1>2. CASE ClearMeta(p)
  <2>1. /\ disk' \in Stores /\ disk'.nsGiven = {}
        /\ disk'.dbGiven = [n \in NsIds |-> {}]
    <3>1. NewStore \in Stores /\ disk.data \in SUBSET Scopes
      BY NewStoreType DEF IInv, TypeOK, Stores
    <3> QED BY <1>2, <3>1, NewStoreType DEF ClearMeta, Stores
  <2>2. TypeOK'
    BY <1>2, <2>1 DEF ClearMeta, Goto, IInv, TypeOK, Labels
  <2>3. NsUsed' = {} /\ \A n \in NsIds : DbUsed(n)' = {}
    BY <1>2, <2>1 DEF ClearMeta, NsUsed, DbUsed
  <2>4. UsedBelow' /\ GivenBelow(saved)'
    BY <1>2, <2>3 DEF ClearMeta, UsedBelow, GivenBelow, IInv
  <2>5. \A q \in Procs : Drawing(q)'
    BY <1>2, <2>3, QuietStep DEF ClearMeta, Goto, Labels
  <2> QED BY <2>2, <2>4, <2>5 DEF IInv
<1> QED BY <1>1, <1>2

(* A command of another component. *)
LEMMA WriteStep ==
    ASSUME IInv, NEW p \in Procs, Write(p)
    PROVE  IInv'
<1>1. PICK scope \in Scopes :
         /\ disk' = [disk EXCEPT !.data = @ \cup {scope}, !.meta = @ \cup {scope}]
         /\ call' = [q \in Procs |-> [call[q] EXCEPT !.written = @ \cup {scope}]]
  BY DEF Write
<1>2. /\ disk' \in Stores
      /\ disk'.nsNext = disk.nsNext /\ disk'.nsGiven = disk.nsGiven
      /\ disk'.dbNext = disk.dbNext /\ disk'.dbGiven = disk.dbGiven
  BY <1>1 DEF IInv, TypeOK, Stores
<1>3. \A q \in Procs : /\ call'[q] \in Locals
                       /\ call'[q].cur = call[q].cur /\ call'[q].ns = call[q].ns
  BY <1>1 DEF IInv, TypeOK, Locals
<1>4. call' \in [Procs -> Locals]
  BY <1>1, <1>3
<1>5. UNCHANGED <<saved, lock, pc, opened, drawn>> /\ started' \in 0 .. MaxCalls
  BY CatalogAssumption DEF Write, IInv, TypeOK
<1>6. NsUsed' = NsUsed /\ \A n \in NsIds : DbUsed(n)' = DbUsed(n)
  BY <1>2, <1>5 DEF drawn, NsUsed, DbUsed
<1>7. \A q \in Procs : Drawing(q)'
  <2> SUFFICES ASSUME NEW q \in Procs PROVE Drawing(q)'
    OBVIOUS
  <2>1. Drawing(q) /\ call[q].ns \in NsIds
    BY ScopeOfCall DEF IInv
  <2> QED BY <1>2, <1>3, <1>5, <1>6, <2>1 DEF Drawing, drawn, DbUsed
<1>8. UsedBelow' /\ GivenBelow(saved)'
  BY <1>2, <1>5, <1>6, KeptBelow DEF IInv
<1>9. TypeOK'
  BY <1>2, <1>4, <1>5 DEF IInv, TypeOK, drawn
<1> QED BY <1>7, <1>8, <1>9 DEF IInv

(* A restart: no thread is drawing, and the store is one saved earlier. *)
LEMMA CrashStep ==
    ASSUME IInv, Crash
    PROVE  IInv'
<1>1. /\ disk' \in Stores
      /\ disk'.nsNext = saved.nsNext /\ disk'.nsGiven = saved.nsGiven
      /\ disk'.dbNext = saved.dbNext /\ disk'.dbGiven = saved.dbGiven
  BY ActivatedStore, ZeroIds DEF Crash, Booted, IInv, TypeOK
<1>2. TypeOK'
  BY <1>1, IdleType, CatalogAssumption DEF Crash, IInv, TypeOK, Labels
<1>3. \A q \in Procs : Drawing(q)'
  BY DEF Crash, Drawing
<1>4. NsUsed' = saved.nsGiven /\ \A n \in NsIds : DbUsed(n)' = saved.dbGiven[n]
  BY <1>1 DEF Crash, NsUsed, DbUsed
<1>5. UsedBelow' /\ GivenBelow(saved)'
  BY <1>1, <1>4 DEF Crash, IInv, UsedBelow, GivenBelow
<1> QED BY <1>2, <1>3, <1>5 DEF IInv

LEMMA PersistStep ==
    ASSUME IInv, Persist
    PROVE  IInv'
<1>1. TypeOK' /\ UsedBelow' /\ \A q \in Procs : Drawing(q)'
  BY DEF Persist, IInv, TypeOK, UsedBelow, Drawing, drawn, NsUsed, DbUsed
<1>2. GivenBelow(saved)'
  BY UsedGiven DEF Persist, IInv, GivenBelow
<1> QED BY <1>1, <1>2 DEF IInv

LEMMA StutterStep ==
    ASSUME IInv, UNCHANGED vars
    PROVE  IInv'
BY DEF vars, drawn, IInv, TypeOK, UsedBelow, GivenBelow, Drawing, NsUsed, DbUsed

LEMMA NextIInv == IInv /\ [Next]_vars => IInv'
<1> SUFFICES ASSUME IInv, Next PROVE IInv'
  BY StutterStep
<1>1. ASSUME NEW p \in Procs, Step(p) PROVE IInv'
  <2>1. CASE CallNs(p) \/ CallRm(p)
    BY <2>1, BeginStep, ZeroIds DEF CallNs, CallRm, Labels, CallNames
  <2>2. CASE CallNewDb(p) \/ CallNsRm(p)
    BY <2>2, BeginStep, ZeroIds DEF CallNewDb, CallNsRm, Labels, CallNames
  <2>3. CASE CallOpenDb(p) \/ CallDbRm(p) \/ CallFlushDb(p)
    BY <2>3, BeginStep DEF CallOpenDb, CallDbRm, CallFlushDb, Labels, CallNames
  <2>4. CASE NsRead(p)
    BY <2>4, NsReadStep
  <2>5. CASE NsStore(p)
    BY <2>5, NsStoreStep
  <2>6. CASE DbRead(p)
    BY <2>6, DbReadStep
  <2>7. CASE DbStore(p)
    BY <2>7, DbStoreStep
  <2>8. CASE Activate(p)
    BY <2>8, ActivateStep
  <2>9. CASE ScanData(p) \/ ScanMeta(p) \/ ScanCatalog(p)
    BY <2>9, ScanStep
  <2>10. CASE Commit(p)
    BY <2>10, CommitStep
  <2>11. CASE ClearData(p) \/ ClearMeta(p)
    BY <2>11, ClearStep
  <2>12. CASE Write(p)
    BY <2>12, WriteStep
  <2> QED BY <1>1, <2>1, <2>2, <2>3, <2>4, <2>5, <2>6, <2>7, <2>8, <2>9, <2>10, <2>11, <2>12
          DEF Step
<1> QED BY <1>1, PersistStep, CrashStep DEF Next
-----------------------------------------------------------------------------
(* The variables keep their types in every execution. *)
THEOREM TypeCorrect == Spec => []TypeOK
<1>1. IInv => TypeOK
  BY DEF IInv
<1> QED BY <1>1, InitIInv, NextIInv, PTL DEF Spec

(* next_namespace_id_impl and next_db_id_impl store no id that this process   *)
(* drew before from a counter not deleted since, and, after any crash, none   *)
(* whose handing out the disk still holds: the counter is on the disk before  *)
(* the catalog entry.  An id whose entry a crash lost may be drawn again.     *)
THEOREM IdsNeverReused == Spec => FreshIds
<1> DEFINE Fresh == \A p \in Procs :
               /\ NsStore(p) => call[p].cur \notin nsDrawn \cup disk.nsGiven
               /\ DbStore(p) => LET n == call[p].ns
                                IN  call[p].cur \notin dbDrawn[n] \cup disk.dbGiven[n]
<1>1. IInv /\ [Next]_vars => [Fresh]_vars
  <2> SUFFICES ASSUME IInv, NEW p \in Procs
               PROVE  /\ NsStore(p) => call[p].cur \notin NsUsed
                      /\ DbStore(p) => call[p].cur \notin DbUsed(call[p].ns)
    BY DEF NsUsed, DbUsed
  <2>1. Drawing(p) /\ call[p].cur \in Int
    BY DEF IInv, TypeOK, Locals
  <2> QED BY <2>1 DEF Drawing, NsStore, DbStore
<1> QED BY <1>1, InitIInv, NextIInv, PTL DEF Spec, FreshIds
-----------------------------------------------------------------------------
(* Only Activate changes the catalog, of the calls that open or allocate; *)
(* none of them touches rows or headers.                                  *)
LEMMA OpeningRows ==
    ASSUME IInv, NEW p \in Procs, NsStore(p) \/ DbStore(p) \/ Activate(p)
    PROVE  /\ disk'.data = disk.data /\ disk'.meta = disk.meta
           /\ disk'.catalog = IF Activate(p) THEN disk.catalog \cup {<<call[p].ns, call[p].db>>}
                                            ELSE disk.catalog
<1>0. disk \in Stores /\ call[p] \in Locals /\ <<call[p].ns, call[p].db>> \in Scopes
  BY ScopeOfCall DEF IInv, TypeOK
<1>1. CASE NsStore(p) \/ DbStore(p)
  BY <1>0, <1>1 DEF NsStore, DbStore, Activate, Stores
<1>2. CASE Activate(p)
  <2> DEFINE t == Activated(disk, <<call[p].ns, call[p].db>>)
  <2>1. /\ t \in Stores /\ t.data = disk.data /\ t.meta = disk.meta
        /\ t.catalog = disk.catalog \cup {<<call[p].ns, call[p].db>>}
    BY <1>0, ActivatedStore
  <2>2. disk' = HandedOut(t, call[p])
    BY <1>2 DEF Activate
  <2> HIDE DEF t
  <2> QED BY <1>0, <1>2, <2>1, <2>2, HandedOutStore DEF IInv
<1> QED BY <1>1, <1>2
-----------------------------------------------------------------------------
(* With one thread a removal's two scans and its batch see one store: what  *)
(* the scans saw is still there, and nothing else is, when they are removed. *)
ScansCurrent(p) ==
    /\ pc[p] \in {"scanMeta", "scanCatalog", "commit"} =>
          call[p].seenData = disk.data \cap Targets(call[p])
    /\ pc[p] \in {"scanCatalog", "commit"} =>
          call[p].seenMeta = disk.meta \cap Targets(call[p])
    /\ pc[p] \in {"clearData", "clearMeta"} => "rm" \in Calls

RowsInv == HeaderHasRows /\ \A p \in Procs : ScansCurrent(p)

(* A removal's batch takes a scope's header with its rows. *)
LEMMA RemovedRows ==
    ASSUME NEW s \in Stores, NEW c \in Locals,
           c.seenData = s.data \cap Targets(c), c.seenMeta = s.meta \cap Targets(c),
           s.meta \subseteq s.data
    PROVE  Removed(s, c).meta \subseteq Removed(s, c).data
<1> DEFINE t == [s EXCEPT !.data = @ \ c.seenData,
                          !.meta = @ \ c.seenMeta,
                          !.catalog = @ \ c.seenCatalog]
           u == [t EXCEPT !.dbNext[c.ns] = 0, !.dbGiven[c.ns] = {}]
<1>1. t.meta = s.meta \ c.seenMeta /\ t.data = s.data \ c.seenData
  BY DEF Stores
<1>2. u.meta = t.meta /\ u.data = t.data
  BY DEF Stores
<1>3. Removed(s, c) = u \/ Removed(s, c) = t
  BY DEF Removed
<1> HIDE DEF t, u
<1> QED BY <1>1, <1>2, <1>3

(* A header never outlives its rows when one thread calls and WeDb::rm is    *)
(* not used, whatever crashes find: rows and header go in one batch.         *)
THEOREM HeadersHaveRows ==
    ASSUME \A p, q \in Procs : p = q, "rm" \notin Calls
    PROVE  Spec => []HeaderHasRows
<1>1. Init => RowsInv
  BY NewStoreType DEF Init, RowsInv, HeaderHasRows, ScansCurrent
<1>2. IInv /\ RowsInv /\ [Next]_vars => RowsInv'
  <2> SUFFICES ASSUME IInv, RowsInv, [Next]_vars PROVE RowsInv'
    OBVIOUS
  <2>0. /\ disk \in Stores /\ saved \in Stores /\ call \in [Procs -> Locals]
        /\ pc \in [Procs -> Labels]
    BY DEF IInv, TypeOK
  <2>1. ASSUME NEW p \in Procs, NEW label \in Labels \ {"scanMeta", "scanCatalog", "commit"},
               pc' = [pc EXCEPT ![p] = label],
               label \in {"clearData", "clearMeta"} => "rm" \in Calls,
               disk'.meta \subseteq disk'.data, UNCHANGED saved
        PROVE  RowsInv'
    <3>1. \A q \in Procs : q = p /\ pc'[q] = label
      BY <2>0, <2>1
    <3> QED BY <2>1, <3>1 DEF RowsInv, HeaderHasRows, ScansCurrent
  <2>2. ASSUME NEW p \in Procs, Step(p) PROVE RowsInv'
    <3>1. ASSUME NEW op \in CallNames, NEW n \in NsIds, NEW d \in DbIds,
                 NEW label \in Labels \ {"scanMeta", "scanCatalog", "commit"},
                 Begin(p, op, n, d, label), label \in {"clearData", "clearMeta"} => op = "rm"
          PROVE  RowsInv'
      BY <2>1, <3>1 DEF Begin, RowsInv, HeaderHasRows
    <3>2. CASE CallNs(p) \/ CallNewDb(p) \/ CallOpenDb(p)
      BY <3>1, <3>2, ZeroIds DEF CallNs, CallNewDb, CallOpenDb, CallNames, Labels
    <3>3. CASE CallDbRm(p) \/ CallFlushDb(p) \/ CallNsRm(p) \/ CallRm(p)
      BY <3>1, <3>3, ZeroIds DEF CallDbRm, CallFlushDb, CallNsRm, CallRm, CallNames, Labels
    <3>4. CASE NsRead(p) \/ DbRead(p)
      BY <2>1, <3>4 DEF NsRead, DbRead, Goto, Labels, RowsInv, HeaderHasRows
    <3>5. CASE NsStore(p) \/ DbStore(p) \/ Activate(p)
      <4>1. disk'.data = disk.data /\ disk'.meta = disk.meta
        BY <3>5, OpeningRows
      <4> QED BY <2>1, <3>5, <4>1 DEF NsStore, DbStore, Activate, Goto, Labels, RowsInv, HeaderHasRows
    <3>6. CASE ScanData(p)
      <4>1. /\ call'[p].seenData = disk.data \cap Targets(call[p])
            /\ call'[p].op = call[p].op /\ call'[p].ns = call[p].ns /\ call'[p].db = call[p].db
        BY <2>0, <3>6 DEF ScanData, Locals
      <4>2. \A q \in Procs : q = p /\ pc'[q] = "scanMeta"
        BY <2>0, <3>6 DEF ScanData, Goto
      <4>4. ScansCurrent(p)'
        BY <3>6, <4>1, <4>2 DEF ScanData, ScansCurrent, Targets
      <4>5. HeaderHasRows'
        BY <3>6 DEF ScanData, RowsInv, HeaderHasRows
      <4> QED BY <4>2, <4>4, <4>5 DEF RowsInv
    <3>7. CASE ScanMeta(p)
      <4>1. /\ call'[p].seenMeta = disk.meta \cap Targets(call[p])
            /\ call'[p].seenData = call[p].seenData
            /\ call'[p].op = call[p].op /\ call'[p].ns = call[p].ns /\ call'[p].db = call[p].db
        BY <2>0, <3>7 DEF ScanMeta, Locals
      <4>2. \A q \in Procs : q = p /\ pc'[q] \in {"scanCatalog", "commit"}
        BY <2>0, <3>7 DEF ScanMeta, Goto
      <4>3. call[p].seenData = disk.data \cap Targets(call[p])
        BY <3>7 DEF ScanMeta, RowsInv, ScansCurrent
      <4>4. ScansCurrent(p)'
        BY <3>7, <4>1, <4>2, <4>3 DEF ScanMeta, ScansCurrent, Targets
      <4>5. HeaderHasRows'
        BY <3>7 DEF ScanMeta, RowsInv, HeaderHasRows
      <4> QED BY <4>2, <4>4, <4>5 DEF RowsInv
    <3>8. CASE ScanCatalog(p)
      <4>1. /\ call'[p].seenMeta = call[p].seenMeta
            /\ call'[p].seenData = call[p].seenData
            /\ call'[p].op = call[p].op /\ call'[p].ns = call[p].ns /\ call'[p].db = call[p].db
        BY <2>0, <3>8 DEF ScanCatalog, Locals
      <4>2. \A q \in Procs : q = p /\ pc'[q] = "commit"
        BY <2>0, <3>8 DEF ScanCatalog, Goto
      <4>3. /\ call[p].seenData = disk.data \cap Targets(call[p])
            /\ call[p].seenMeta = disk.meta \cap Targets(call[p])
        BY <3>8 DEF ScanCatalog, RowsInv, ScansCurrent
      <4>4. ScansCurrent(p)'
        BY <3>8, <4>1, <4>2, <4>3 DEF ScanCatalog, ScansCurrent, Targets
      <4>5. HeaderHasRows'
        BY <3>8 DEF ScanCatalog, RowsInv, HeaderHasRows
      <4> QED BY <4>2, <4>4, <4>5 DEF RowsInv
    <3>9. CASE Commit(p)
      <4>1. disk'.meta \subseteq disk'.data
        BY <2>0, <3>9, RemovedRows DEF Commit, RowsInv, ScansCurrent, HeaderHasRows
      <4>2. PICK label \in {"activate", "idle"} : pc' = [pc EXCEPT ![p] = label]
        BY <3>9 DEF Commit, Goto, AfterCommit
      <4>3. UNCHANGED saved
        BY <3>9 DEF Commit
      <4>4. label \in Labels \ {"scanMeta", "scanCatalog", "commit"} /\ label \notin {"clearData", "clearMeta"}
        BY <4>2 DEF Labels
      <4> QED BY <2>1, <4>1, <4>2, <4>3, <4>4
    <3>10. CASE ClearData(p) \/ ClearMeta(p)
      BY <3>10 DEF ClearData, ClearMeta, RowsInv, ScansCurrent
    <3>11. CASE Write(p)
      <4>1. disk'.meta \subseteq disk'.data
        BY <2>0, <3>11 DEF Write, Stores, RowsInv, HeaderHasRows
      <4>2. \A q \in Procs : q = p /\ pc'[q] = "idle"
        BY <3>11 DEF Write
      <4> QED BY <3>11, <4>1, <4>2 DEF Write, RowsInv, HeaderHasRows, ScansCurrent
    <3> QED BY <2>2, <3>2, <3>3, <3>4, <3>5, <3>6, <3>7, <3>8, <3>9, <3>10, <3>11 DEF Step
  <2>3. CASE Persist
    BY <2>3 DEF Persist, RowsInv, HeaderHasRows, ScansCurrent
  <2>4. CASE Crash
    <3>1. disk'.meta = saved.meta /\ disk'.data = saved.data
      BY <2>0, <2>4, ActivatedStore, ZeroIds DEF Crash, Booted
    <3> QED BY <2>4, <3>1 DEF Crash, RowsInv, HeaderHasRows, ScansCurrent
  <2>5. CASE UNCHANGED vars
    BY <2>5 DEF vars, RowsInv, HeaderHasRows, ScansCurrent
  <2> QED BY <2>2, <2>3, <2>4, <2>5 DEF Next
<1>3. RowsInv => HeaderHasRows
  BY DEF RowsInv
<1> QED BY <1>1, <1>2, <1>3, InitIInv, NextIInv, PTL DEF Spec
-----------------------------------------------------------------------------
(* A database that was opened is listed: the one batch that takes entries   *)
(* out of the catalog takes only entries of its own scopes, which it closes  *)
(* or, for FLUSHDB, is about to write again.                                 *)
RemovesOwn(p) == pc[p] = "commit" => call[p].seenCatalog \subseteq Targets(call[p])

ListInv == OpenedListed /\ \A p \in Procs : RemovesOwn(p)

(* What a call removes depends on its name and arguments alone. *)
SameCall(q) ==
    /\ call'[q].op = call[q].op /\ call'[q].ns = call[q].ns /\ call'[q].db = call[q].db
    /\ call'[q].seenCatalog = call[q].seenCatalog

(* A step that closes scopes or leaves them open, takes nothing from the     *)
(* catalog and moves one thread that is not activating a database.           *)
LEMMA ListedStep ==
    ASSUME IInv, ListInv, NEW p \in Procs, NEW label \in Labels,
           pc' = [pc EXCEPT ![p] = label], pc[p] # "activate",
           \A q \in Procs \ {p} : SameCall(q),
           opened' \subseteq opened, disk.catalog \subseteq disk'.catalog,
           label = "commit" => call'[p].seenCatalog \subseteq Targets(call'[p])
    PROVE  ListInv'
<1>0. pc \in [Procs -> Labels]
  BY DEF IInv, TypeOK
<1>1. OpenedListed'
  <2> SUFFICES ASSUME NEW scope \in opened'
               PROVE  \/ scope \in disk'.catalog
                      \/ \E q \in Procs : /\ pc'[q] = "activate"
                                          /\ <<call'[q].ns, call'[q].db>> = scope
    BY DEF OpenedListed
  <2>1. CASE scope \in disk.catalog
    BY <2>1
  <2>2. ASSUME NEW q \in Procs, pc[q] = "activate", <<call[q].ns, call[q].db>> = scope
        PROVE  pc'[q] = "activate" /\ <<call'[q].ns, call'[q].db>> = scope
    BY <1>0, <2>2 DEF SameCall
  <2> QED BY <2>1, <2>2 DEF ListInv, OpenedListed
<1>2. ASSUME NEW q \in Procs PROVE RemovesOwn(q)'
  <2>1. CASE q = p
    BY <1>0, <2>1 DEF RemovesOwn
  <2>2. CASE q # p
    BY <1>0, <2>2 DEF ListInv, RemovesOwn, SameCall, Targets
  <2> QED BY <2>1, <2>2
<1> QED BY <1>1, <1>2 DEF ListInv

LEMMA ListNext ==
    ASSUME IInv, ListInv, [Next]_vars
    PROVE  ListInv'
<1>0. disk \in Stores /\ call \in [Procs -> Locals] /\ pc \in [Procs -> Labels]
  BY DEF IInv, TypeOK
<1>1. ASSUME NEW p \in Procs, Step(p) PROVE ListInv'
  <2>1. ASSUME NEW op \in CallNames, NEW n \in NsIds, NEW d \in DbIds,
               NEW label \in Labels \ {"commit"}, Begin(p, op, n, d, label)
        PROVE  ListInv'
    <3>1. \A q \in Procs \ {p} : SameCall(q)
      BY <1>0, <2>1 DEF Begin, SameCall
    <3> QED BY <2>1, <3>1, ListedStep DEF Begin
  <2>2. CASE CallNs(p) \/ CallNewDb(p) \/ CallOpenDb(p)
    BY <2>1, <2>2, ZeroIds DEF CallNs, CallNewDb, CallOpenDb, CallNames, Labels
  <2>3. CASE CallDbRm(p) \/ CallFlushDb(p) \/ CallNsRm(p) \/ CallRm(p)
    BY <2>1, <2>3, ZeroIds DEF CallDbRm, CallFlushDb, CallNsRm, CallRm, CallNames, Labels
  <2>4. CASE NsRead(p) \/ DbRead(p)
    <3>1. \A q \in Procs \ {p} : SameCall(q)
      BY <1>0, <2>4 DEF NsRead, DbRead, SameCall
    <3> QED BY <2>4, <3>1, ListedStep DEF NsRead, DbRead, Goto, Labels
  <2>5. CASE NsStore(p) \/ DbStore(p)
    <3>1. \A q \in Procs \ {p} : SameCall(q)
      BY <1>0, <2>5 DEF NsStore, DbStore, SameCall
    <3>2. disk'.catalog = disk.catalog
      BY <2>5, OpeningRows DEF NsStore, DbStore, Activate
    <3> QED BY <2>5, <3>1, <3>2, ListedStep DEF NsStore, DbStore, Goto, Labels
  <2>6. CASE Activate(p)
    <3> DEFINE own == <<call[p].ns, call[p].db>>
    <3>1. disk'.catalog = disk.catalog \cup {own} /\ opened' = opened \cup {own}
      BY <2>6, OpeningRows DEF Activate
    <3>2. pc' = [pc EXCEPT ![p] = "idle"] /\ call' = call
      BY <2>6 DEF Activate, Goto
    <3> HIDE DEF own
    <3>3. \A q \in Procs : <<call[q].ns, call[q].db>> = own \/ (q # p => pc'[q] = pc[q])
      BY <1>0, <3>2
    <3>4. OpenedListed'
      BY <1>0, <3>1, <3>2 DEF ListInv, OpenedListed, own
    <3>5. \A q \in Procs : RemovesOwn(q)'
      BY <1>0, <3>2 DEF ListInv, RemovesOwn
    <3> QED BY <3>4, <3>5 DEF ListInv
  <2>7. CASE ScanData(p)
    <3>1. \A q \in Procs \ {p} : SameCall(q)
      BY <1>0, <2>7 DEF ScanData, SameCall
    <3> QED BY <2>7, <3>1, ListedStep DEF ScanData, Goto, Labels
  <2>8. CASE ScanMeta(p) \/ ScanCatalog(p)
    <3>1. \A q \in Procs \ {p} : SameCall(q)
      BY <1>0, <2>8 DEF ScanMeta, ScanCatalog, SameCall
    <3>2. call'[p].seenCatalog \subseteq Targets(call'[p])
      BY <1>0, <2>8 DEF ScanMeta, ScanCatalog, Locals, Targets
    <3>3. PICK label \in {"scanCatalog", "commit"} : pc' = [pc EXCEPT ![p] = label]
      BY <2>8 DEF ScanMeta, ScanCatalog, Goto
    <3> QED BY <2>8, <3>1, <3>2, <3>3, ListedStep DEF ScanMeta, ScanCatalog, Labels
  <2>9. CASE Commit(p)
    <3> DEFINE own == Targets(call[p])
    <3>1. disk'.catalog = disk.catalog \ call[p].seenCatalog
      <4>1. call[p].ns \in NsIds
        BY <1>0 DEF Locals
      <4> QED BY <1>0, <2>9, <4>1 DEF Commit, Removed, Stores
    <3>2. call[p].seenCatalog \subseteq own /\ call' = call
      BY <2>9 DEF Commit, ListInv, RemovesOwn
    <3>3. PICK label \in {"activate", "idle"} :
             /\ pc' = [pc EXCEPT ![p] = label]
             /\ label = "activate" <=> call[p].op = "flushdb"
      BY <2>9 DEF Commit, Goto, AfterCommit
    <3>4. \A q \in Procs : RemovesOwn(q)'
      BY <1>0, <3>2, <3>3 DEF ListInv, RemovesOwn
    <3>5. ASSUME NEW scope \in opened'
          PROVE  \/ scope \in disk'.catalog
                 \/ \E q \in Procs : /\ pc'[q] = "activate"
                                     /\ <<call[q].ns, call[q].db>> = scope
      <4>1. scope \in opened /\ (scope \in own => call[p].op = "flushdb")
        BY <2>9, <3>5 DEF Commit
      <4>2. CASE scope \in own
        BY <1>0, <3>3, <4>1, <4>2 DEF Targets
      <4>3. CASE scope \notin own
        BY <1>0, <2>9, <3>1, <3>2, <3>3, <4>1, <4>3 DEF Commit, ListInv, OpenedListed
      <4> QED BY <4>2, <4>3
    <3> QED BY <3>2, <3>4, <3>5 DEF ListInv, OpenedListed
  <2>10. CASE ClearData(p)
    <3>1. disk'.catalog = disk.catalog
      BY <1>0, <2>10 DEF ClearData, Stores
    <3> QED BY <2>10, <3>1, ListedStep DEF ClearData, Goto, Labels, SameCall
  <2>11. CASE ClearMeta(p)
    <3>1. opened' = {} /\ call' = call /\ pc' = [pc EXCEPT ![p] = "idle"]
      BY <2>11 DEF ClearMeta, Goto
    <3> QED BY <1>0, <3>1 DEF ListInv, OpenedListed, RemovesOwn
  <2>12. CASE Write(p)
    <3>1. PICK scope \in Scopes :
             /\ disk' = [disk EXCEPT !.data = @ \cup {scope}, !.meta = @ \cup {scope}]
             /\ call' = [q \in Procs |-> [call[q] EXCEPT !.written = @ \cup {scope}]]
             /\ pc' = pc /\ opened' = opened /\ pc[p] = "idle"
      BY <2>12 DEF Write
    <3>2. disk'.catalog = disk.catalog /\ \A q \in Procs : SameCall(q)
      BY <1>0, <3>1 DEF Stores, Locals, SameCall
    <3>3. pc' = [pc EXCEPT ![p] = "idle"]
      BY <1>0, <3>1
    <3> QED BY <3>1, <3>2, <3>3, ListedStep DEF Labels
  <2> QED BY <1>1, <2>2, <2>3, <2>4, <2>5, <2>6, <2>7, <2>8, <2>9, <2>10, <2>11, <2>12 DEF Step
<1>2. CASE Persist \/ UNCHANGED vars
  BY <1>2 DEF Persist, vars, ListInv, OpenedListed, RemovesOwn
<1>3. CASE Crash
  BY <1>3 DEF Crash, ListInv, OpenedListed, RemovesOwn
<1> QED BY <1>1, <1>2, <1>3 DEF Next

(* Whatever the threads do, a database a client holds is found by a walk of  *)
(* the catalog (WeDb::iter, Namespace::iter), FLUSHDB's gap apart.           *)
THEOREM OpenedStaysListed == Spec => []OpenedListed
<1>1. Init => ListInv
  BY DEF Init, ListInv, OpenedListed, RemovesOwn
<1>2. ListInv => OpenedListed
  BY DEF ListInv
<1> QED BY <1>1, <1>2, ListNext, InitIInv, NextIInv, PTL DEF Spec
-----------------------------------------------------------------------------
(* What a removal leaves behind: of its scopes the store holds only what its *)
(* scans saw and what was written after it was called, however many other    *)
(* removals and commands run between its scans and its batch.                *)
SeenOrWritten(p) ==
    /\ pc[p] \in {"scanMeta", "scanCatalog", "commit"} =>
          disk.data \cap Targets(call[p]) \subseteq call[p].seenData \cup call[p].written
    /\ pc[p] \in {"scanCatalog", "commit"} =>
          disk.meta \cap Targets(call[p]) \subseteq call[p].seenMeta \cup call[p].written

ClearInv == \A p \in Procs : SeenOrWritten(p)

(* A step that adds no row and changes the locals of one thread alone. *)
LEMMA ShrinkStep ==
    ASSUME IInv, ClearInv, NEW p \in Procs, NEW label \in Labels,
           pc' = [pc EXCEPT ![p] = label],
           \A q \in Procs \ {p} : call'[q] = call[q],
           disk'.data \subseteq disk.data, disk'.meta \subseteq disk.meta,
           label \in {"scanMeta", "scanCatalog", "commit"} => SeenOrWritten(p)'
    PROVE  ClearInv'
<1>0. pc \in [Procs -> Labels]
  BY DEF IInv, TypeOK
<1>1. ASSUME NEW q \in Procs PROVE SeenOrWritten(q)'
  <2>1. CASE q = p
    BY <1>0, <2>1 DEF SeenOrWritten
  <2>2. CASE q # p
    BY <1>0, <2>2 DEF ClearInv, SeenOrWritten
  <2> QED BY <2>1, <2>2
<1> QED BY <1>1 DEF ClearInv

LEMMA ClearNext ==
    ASSUME IInv, ClearInv, [Next]_vars
    PROVE  ClearInv'
<1>0. disk \in Stores /\ call \in [Procs -> Locals] /\ pc \in [Procs -> Labels]
  BY DEF IInv, TypeOK
<1>1. ASSUME NEW p \in Procs, Step(p) PROVE ClearInv'
  <2>1. ASSUME NEW op \in CallNames, NEW n \in NsIds, NEW d \in DbIds,
               NEW label \in Labels \ {"scanMeta", "scanCatalog", "commit"},
               Begin(p, op, n, d, label)
        PROVE  ClearInv'
    BY <1>0, <2>1, ShrinkStep DEF Begin
  <2>2. CASE CallNs(p) \/ CallNewDb(p) \/ CallOpenDb(p)
    BY <2>1, <2>2, ZeroIds DEF CallNs, CallNewDb, CallOpenDb, CallNames, Labels
  <2>3. CASE CallDbRm(p) \/ CallFlushDb(p) \/ CallNsRm(p) \/ CallRm(p)
    BY <2>1, <2>3, ZeroIds DEF CallDbRm, CallFlushDb, CallNsRm, CallRm, CallNames, Labels
  <2>4. CASE NsRead(p) \/ DbRead(p)
    BY <1>0, <2>4, ShrinkStep DEF NsRead, DbRead, Goto, Labels
  <2>5. CASE NsStore(p) \/ DbStore(p) \/ Activate(p)
    <3>1. disk'.data = disk.data /\ disk'.meta = disk.meta
      BY <2>5, OpeningRows
    <3>2. \A q \in Procs \ {p} : call'[q] = call[q]
      BY <1>0, <2>5 DEF NsStore, DbStore, Activate
    <3> QED BY <2>5, <3>1, <3>2, ShrinkStep DEF NsStore, DbStore, Activate, Goto, Labels
  <2>6. CASE ScanData(p)
    <3>1. /\ call'[p].seenData = disk.data \cap Targets(call[p])
          /\ Targets(call'[p]) = Targets(call[p])
      BY <1>0, <2>6 DEF ScanData, Locals, Targets
    <3>2. \A q \in Procs \ {p} : call'[q] = call[q]
      BY <1>0, <2>6 DEF ScanData
    <3>3. pc' = [pc EXCEPT ![p] = "scanMeta"] /\ disk' = disk
      BY <2>6 DEF ScanData, Goto
    <3>4. SeenOrWritten(p)'
      BY <1>0, <3>1, <3>3 DEF SeenOrWritten
    <3> QED BY <3>2, <3>3, <3>4, ShrinkStep DEF Labels
  <2>7. CASE ScanMeta(p) \/ ScanCatalog(p)
    <3>1. /\ call'[p].seenData = call[p].seenData
          /\ call'[p].seenMeta = IF pc[p] = "scanMeta" THEN disk.meta \cap Targets(call[p])
                                                      ELSE call[p].seenMeta
          /\ call'[p].written = call[p].written
          /\ Targets(call'[p]) = Targets(call[p])
      <4>1. CASE ScanMeta(p)
        BY <1>0, <4>1 DEF ScanMeta, Locals, Targets
      <4>2. CASE ScanCatalog(p)
        BY <1>0, <4>2 DEF ScanCatalog, Locals, Targets
      <4> QED BY <2>7, <4>1, <4>2
    <3>2. \A q \in Procs \ {p} : call'[q] = call[q]
      BY <1>0, <2>7 DEF ScanMeta, ScanCatalog
    <3>3. PICK label \in {"scanCatalog", "commit"} : pc' = [pc EXCEPT ![p] = label]
      BY <2>7 DEF ScanMeta, ScanCatalog, Goto
    <3>4. disk' = disk /\ pc[p] \in {"scanMeta", "scanCatalog"}
      BY <2>7 DEF ScanMeta, ScanCatalog
    <3>5. SeenOrWritten(p)'
      BY <3>1, <3>4 DEF ClearInv, SeenOrWritten
    <3> QED BY <3>2, <3>3, <3>4, <3>5, ShrinkStep DEF Labels
  <2>8. CASE Commit(p)
    <3>1. call[p].ns \in NsIds
      BY <1>0 DEF Locals
    <3>2. /\ disk'.data = disk.data \ call[p].seenData
          /\ disk'.meta = disk.meta \ call[p].seenMeta
      BY <1>0, <2>8, <3>1 DEF Commit, Removed, Stores
    <3>3. PICK label \in {"activate", "idle"} : pc' = [pc EXCEPT ![p] = label]
      BY <2>8 DEF Commit, Goto, AfterCommit
    <3> QED BY <2>8, <3>2, <3>3, ShrinkStep DEF Commit, Labels
  <2>9. CASE ClearData(p) \/ ClearMeta(p)
    <3>1. disk'.data \subseteq disk.data /\ disk'.meta \subseteq disk.meta
      BY <1>0, <2>9, NewStoreType DEF ClearData, ClearMeta, Stores
    <3> QED BY <2>9, <3>1, ShrinkStep DEF ClearData, ClearMeta, Goto, Labels
  <2>10. CASE Write(p)
    <3>1. PICK scope \in Scopes :
             /\ disk' = [disk EXCEPT !.data = @ \cup {scope}, !.meta = @ \cup {scope}]
             /\ call' = [q \in Procs |-> [call[q] EXCEPT !.written = @ \cup {scope}]]
             /\ pc' = pc
      BY <2>10 DEF Write
    <3>2. /\ disk'.data = disk.data \cup {scope}
          /\ disk'.meta = disk.meta \cup {scope}
      BY <1>0, <3>1 DEF Stores
    <3>3. ASSUME NEW q \in Procs
          PROVE  /\ call'[q].written = call[q].written \cup {scope}
                 /\ call'[q].seenData = call[q].seenData
                 /\ call'[q].seenMeta = call[q].seenMeta
                 /\ Targets(call'[q]) = Targets(call[q])
      BY <1>0, <3>1 DEF Locals, Targets
    <3>4. ASSUME NEW q \in Procs PROVE SeenOrWritten(q)'
      <4>1. SeenOrWritten(q)
        BY DEF ClearInv
      <4> QED BY <3>1, <3>2, <3>3, <4>1 DEF SeenOrWritten
    <3> QED BY <3>4 DEF ClearInv
  <2> QED BY <1>1, <2>2, <2>3, <2>4, <2>5, <2>6, <2>7, <2>8, <2>9, <2>10 DEF Step
<1>2. CASE Persist \/ UNCHANGED vars
  BY <1>2 DEF Persist, vars, ClearInv, SeenOrWritten
<1>3. CASE Crash
  BY <1>3 DEF Crash, ClearInv, SeenOrWritten
<1> QED BY <1>1, <1>2, <1>3 DEF Next

(* db_rm_impl and namespace_rm_impl take their scopes' rows and headers in    *)
(* one batch made from two scans at two moments: what lies in their scopes    *)
(* when the batch has committed was written while they ran.                   *)
THEOREM RemovalClears == Spec => RmClears
<1> DEFINE Clears == \A p \in Procs :
              Commit(p) =>
                 (disk'.data \cup disk'.meta) \cap Targets(call[p]) \subseteq call[p].written
<1>1. Init => ClearInv
  BY DEF Init, ClearInv, SeenOrWritten
<1>2. IInv /\ ClearInv /\ [Next]_vars => [Clears]_vars
  <2> SUFFICES ASSUME IInv, ClearInv, NEW p \in Procs, Commit(p)
               PROVE  (disk'.data \cup disk'.meta) \cap Targets(call[p]) \subseteq call[p].written
    OBVIOUS
  <2>1. disk \in Stores /\ call[p] \in Locals /\ call[p].ns \in NsIds
    BY ScopeOfCall DEF IInv, TypeOK
  <2>2. /\ disk'.data = disk.data \ call[p].seenData
        /\ disk'.meta = disk.meta \ call[p].seenMeta
    BY <2>1 DEF Commit, Removed, Stores
  <2>3. SeenOrWritten(p) /\ pc[p] = "commit"
    BY DEF ClearInv, Commit
  <2> QED BY <2>2, <2>3 DEF SeenOrWritten
<1> QED BY <1>1, <1>2, ClearNext, InitIInv, NextIInv, PTL DEF Spec, RmClears
-----------------------------------------------------------------------------
=============================================================================
