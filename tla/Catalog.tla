------------------------------ MODULE Catalog ------------------------------
(***************************************************************************)
(* Namespaces and databases: the catalog directory, the id counters, the   *)
(* cascading removals and what a restart finds of them                     *)
(* (embed/src/wedb/core.rs, namespace.rs, db.rs).                          *)
(*                                                                         *)
(* Every handle of a WeDb shares one store.  A call is a sequence of       *)
(* engine accesses, each an action here; only the two id allocators hold   *)
(* a lock, and they hold it for their read and their write alone.          *)
(*                                                                         *)
(* A scope is a pair <<namespace, database>>.  Of a scope's contents the   *)
(* model keeps one collection: `data` has the scopes whose collection has  *)
(* rows in the data partition, `meta` those with a header in the meta      *)
(* partition.  That is what the removals, which see two partitions at two  *)
(* moments, can tear apart.                                                *)
(***************************************************************************)
EXTENDS Integers, FiniteSets

CONSTANTS
    Procs,      \* threads that hold handles on the WeDb
    NoProc,     \* the holder of a lock nobody holds
    NsTop,      \* bound: the largest namespace id a run reaches
    DbTop,      \* bound: the largest database id a run reaches
    Calls,      \* the calls clients make: a subset of CallNames
    MaxCalls    \* bound: how many calls start

CallNames == {"ns", "open", "db", "dbrm", "flushdb", "nsrm", "rm", "write"}

ASSUME CatalogAssumption ==
    /\ NoProc \notin Procs
    /\ NsTop \in Nat
    /\ DbTop \in Nat
    /\ MaxCalls \in Nat
    /\ Calls \subseteq CallNames

NsIds == 0 .. NsTop
DbIds == 0 .. DbTop
Scopes == NsIds \X DbIds

VARIABLES
    disk,     \* what the engine answers now
    saved,    \* what a restart would find: disk as it was at some earlier moment
    lock,     \* the holder of ns_lock
    pc,       \* what each thread does next
    call,     \* the locals of each thread's call
    opened,   \* history: scopes handed to a client and not removed since
    nsDrawn,  \* history: namespace ids drawn by this process
    dbDrawn,  \* history: database ids drawn by this process, by namespace
    started   \* how many calls started

drawn == <<nsDrawn, dbDrawn>>
vars == <<disk, saved, lock, pc, call, opened, drawn, started>>

-----------------------------------------------------------------------------
(* The store.  A counter whose key is absent is 0.                          *)
(*                                                                          *)
(* Two histories tell which ids were given out.  `nsDrawn` and `dbDrawn`    *)
(* are the process's: an id enters when its allocator stores the counter.   *)
(* They are empty after a crash, and a removal that deletes the counter     *)
(* empties what was drawn from it.  `nsGiven` and `dbGiven` are marks in    *)
(* the store itself, put there with the catalog entry by which a drawn id   *)
(* is handed to the client, which is a later write than the counter's: a    *)
(* restart finds a mark exactly when the entry was written before `saved`.  *)
(* An id whose counter was deleted between its store and its entry is no    *)
(* longer drawn, and gets no mark.                                          *)

Stores ==
    [nsNext : 0 .. NsTop + 1, dbNext : [NsIds -> 0 .. DbTop + 1],
     catalog : SUBSET Scopes, data : SUBSET Scopes, meta : SUBSET Scopes,
     nsGiven : SUBSET NsIds, dbGiven : [NsIds -> SUBSET DbIds]]

Locals ==
    [op : CallNames, ns : NsIds, db : DbIds, cur : 0 .. (NsTop + DbTop + 1),
     seenData : SUBSET Scopes, seenMeta : SUBSET Scopes, seenCatalog : SUBSET Scopes,
     written : SUBSET Scopes]

Labels ==
    {"idle", "nsRead", "nsStore", "dbRead", "dbStore", "activate",
     "scanData", "scanMeta", "scanCatalog", "commit", "clearData", "clearMeta"}

(* Mutant: the entry's key has the database before the namespace. *)
ActivatedSwapped(store, scope) ==
    [store EXCEPT !.catalog = @ \cup {<<scope[2], scope[1]>>}]

(* activate_db_impl: the catalog entry of a scope, written by itself. *)
Activated(store, scope) == [store EXCEPT !.catalog = @ \cup {scope}]

(* Mutant: the namespace counter starts afresh with the process. *)
BootedAnew(store) == [Activated(store, <<0, 0>>) EXCEPT !.nsNext = 0]

(* WeDb::new: whatever the engine holds gets the default database. *)
Booted(store) == Activated(store, <<0, 0>>)

(* An empty engine, opened for the first time. *)
NewStore ==
    Booted([nsNext |-> 0, dbNext |-> [n \in NsIds |-> 0],
            catalog |-> {}, data |-> {}, meta |-> {},
            nsGiven |-> {}, dbGiven |-> [n \in NsIds |-> {}]])

Idle ==
    [op |-> "open", ns |-> 0, db |-> 0, cur |-> 0,
     seenData |-> {}, seenMeta |-> {}, seenCatalog |-> {}, written |-> {}]

Init ==
    /\ disk = NewStore
    /\ saved = NewStore
    /\ lock = NoProc
    /\ pc = [p \in Procs |-> "idle"]
    /\ call = [p \in Procs |-> Idle]
    /\ opened = {}
    /\ nsDrawn = {}
    /\ dbDrawn = [n \in NsIds |-> {}]
    /\ started = 0

(* A call begins: its name and arguments are fixed, its other locals empty. *)
Begin(p, op, n, d, label) ==
    /\ op \in Calls
    /\ pc[p] = "idle"
    /\ started < MaxCalls
    /\ started' = started + 1
    /\ pc' = [pc EXCEPT ![p] = label]
    /\ call' = [call EXCEPT ![p] = [Idle EXCEPT !.op = op, !.ns = n, !.db = d]]
    /\ UNCHANGED <<disk, saved, lock, opened, drawn>>

Goto(p, label) == pc' = [pc EXCEPT ![p] = label]

-----------------------------------------------------------------------------
(* Opening: WeDb::ns and Namespace::db.  A namespace opened by number is   *)
(* only a handle, so opening it is part of the calls made through it.      *)

(* The id an absent or present counter hands out next: ids begin at 1. *)
NextId(counter) == IF counter = 0 THEN 1 ELSE counter

CallNs(p) == Begin(p, "ns", 0, 0, "nsRead")

CallNewDb(p) == \E n \in NsIds : Begin(p, "db", n, 0, "dbRead")

CallOpenDb(p) == \E n \in NsIds, d \in DbIds : Begin(p, "open", n, d, "activate")

(* Mutant: the lock is neither awaited nor taken. *)
LockSkipped(p) ==
    /\ lock' = lock

(* The allocator waits for ns_lock. *)
Acquire(p) ==
    /\ lock = NoProc
    /\ lock' = p

NsRead(p) ==
    /\ pc[p] = "nsRead"
    /\ NextId(disk.nsNext) <= NsTop
    /\ Acquire(p)
    /\ call' = [call EXCEPT ![p].cur = NextId(disk.nsNext)]
    /\ Goto(p, "nsStore")
    /\ UNCHANGED <<disk, saved, opened, drawn, started>>

NsStore(p) ==
    /\ pc[p] = "nsStore"
    /\ disk' = [disk EXCEPT !.nsNext = call[p].cur + 1]
    /\ nsDrawn' = nsDrawn \cup {call[p].cur}
    /\ lock' = NoProc
    /\ call' = [call EXCEPT ![p].ns = call[p].cur]
    /\ Goto(p, "activate")
    /\ UNCHANGED <<saved, opened, dbDrawn, started>>

DbRead(p) ==
    /\ pc[p] = "dbRead"
    /\ NextId(disk.dbNext[call[p].ns]) <= DbTop
    /\ Acquire(p)
    /\ call' = [call EXCEPT ![p].cur = NextId(disk.dbNext[call[p].ns])]
    /\ Goto(p, "dbStore")
    /\ UNCHANGED <<disk, saved, opened, drawn, started>>

DbStore(p) ==
    /\ pc[p] = "dbStore"
    /\ disk' = [disk EXCEPT !.dbNext[call[p].ns] = call[p].cur + 1]
    /\ dbDrawn' = [dbDrawn EXCEPT ![call[p].ns] = @ \cup {call[p].cur}]
    /\ lock' = NoProc
    /\ call' = [call EXCEPT ![p].db = call[p].cur]
    /\ Goto(p, "activate")
    /\ UNCHANGED <<saved, opened, nsDrawn, started>>

(* A call that drew an id hands it out, if the draw still stands. *)
HandedOut(store, c) ==
    [store EXCEPT !.nsGiven = @ \cup {n \in nsDrawn : c.op = "ns" /\ n = c.ns},
                  !.dbGiven[c.ns] = @ \cup {d \in dbDrawn[c.ns] : c.op = "db" /\ d = c.db}]

(* The catalog entry is written outside the lock; then the call returns. *)
Activate(p) ==
    LET scope == <<call[p].ns, call[p].db>>
    IN  /\ pc[p] = "activate"
        /\ disk' = HandedOut(Activated(disk, scope), call[p])
        /\ opened' = opened \cup {scope}
        /\ Goto(p, "idle")
        /\ UNCHANGED <<saved, lock, call, drawn, started>>

-----------------------------------------------------------------------------
(* Removing: Db::rm, Db::flushdb, Namespace::rm share two prefix scans of   *)
(* one batch; WeDb::rm truncates the two partitions one after the other.    *)

CallDbRm(p) == \E n \in NsIds, d \in DbIds : Begin(p, "dbrm", n, d, "scanData")

CallFlushDb(p) == \E n \in NsIds, d \in DbIds : Begin(p, "flushdb", n, d, "scanData")

CallNsRm(p) == \E n \in NsIds : Begin(p, "nsrm", n, 0, "scanData")

CallRm(p) == Begin(p, "rm", 0, 0, "clearData")

(* The scopes under the prefix a removal scans. *)
Targets(c) == IF c.op = "nsrm" THEN {c.ns} \X DbIds ELSE {<<c.ns, c.db>>}

ScanData(p) ==
    /\ pc[p] = "scanData"
    /\ call' = [call EXCEPT ![p].seenData = disk.data \cap Targets(call[p])]
    /\ Goto(p, "scanMeta")
    /\ UNCHANGED <<disk, saved, lock, opened, drawn, started>>

(* db_rm_impl deletes its one catalog entry unseen. *)
ScanMeta(p) ==
    /\ pc[p] = "scanMeta"
    /\ call' = [call EXCEPT ![p].seenMeta = disk.meta \cap Targets(call[p]),
                            ![p].seenCatalog = Targets(call[p])]
    /\ Goto(p, IF call[p].op = "nsrm" THEN "scanCatalog" ELSE "commit")
    /\ UNCHANGED <<disk, saved, lock, opened, drawn, started>>

(* namespace_rm_impl deletes the entries a scan of the catalog finds. *)
ScanCatalog(p) ==
    /\ pc[p] = "scanCatalog"
    /\ call' = [call EXCEPT ![p].seenCatalog = disk.catalog \cap Targets(call[p])]
    /\ Goto(p, "commit")
    /\ UNCHANGED <<disk, saved, lock, opened, drawn, started>>

(* Mutant: the meta partition's rows are not in the batch. *)
RemovedDataOnly(store, c) ==
    [store EXCEPT !.data = @ \ c.seenData,
                  !.catalog = @ \ c.seenCatalog]

(* The batch of a removal; a namespace's also deletes its database counter. *)
Removed(store, c) ==
    LET cleared == [store EXCEPT !.data = @ \ c.seenData,
                                 !.meta = @ \ c.seenMeta,
                                 !.catalog = @ \ c.seenCatalog]
    IN  IF c.op = "nsrm"
        THEN [cleared EXCEPT !.dbNext[c.ns] = 0, !.dbGiven[c.ns] = {}]
        ELSE cleared

(* Mutant: FLUSHDB does not put its database back into the catalog. *)
FlushForgets(op) == "idle"

(* FLUSHDB activates the database again; the other removals are done. *)
AfterCommit(op) == IF op = "flushdb" THEN "activate" ELSE "idle"

Commit(p) ==
    /\ pc[p] = "commit"
    /\ disk' = Removed(disk, call[p])
    /\ opened' = IF call[p].op = "flushdb" THEN opened ELSE opened \ Targets(call[p])
    /\ dbDrawn' = IF call[p].op = "nsrm" THEN [dbDrawn EXCEPT ![call[p].ns] = {}] ELSE dbDrawn
    /\ Goto(p, AfterCommit(call[p].op))
    /\ UNCHANGED <<saved, lock, call, nsDrawn, started>>

ClearData(p) ==
    /\ pc[p] = "clearData"
    /\ disk' = [disk EXCEPT !.data = {}]
    /\ Goto(p, "clearMeta")
    /\ UNCHANGED <<saved, lock, call, opened, drawn, started>>

(* The meta partition holds the catalog and the counters too: they go, and  *)
(* the default database is not activated again.                             *)
ClearMeta(p) ==
    /\ pc[p] = "clearMeta"
    /\ disk' = [NewStore EXCEPT !.catalog = {}, !.data = disk.data]
    /\ opened' = {}
    /\ nsDrawn' = {}
    /\ dbDrawn' = [n \in NsIds |-> {}]
    /\ Goto(p, "idle")
    /\ UNCHANGED <<saved, lock, call, started>>

-----------------------------------------------------------------------------
(* Outside this component. *)

(* A command creates or rewrites the collection of a scope: header and rows *)
(* go in one batch.  Calls under way note it as `written` since they began. *)
Write(p) ==
    \E scope \in Scopes :
        /\ "write" \in Calls
        /\ pc[p] = "idle"
        /\ started < MaxCalls
        /\ started' = started + 1
        /\ disk' = [disk EXCEPT !.data = @ \cup {scope}, !.meta = @ \cup {scope}]
        /\ call' = [q \in Procs |-> [call[q] EXCEPT !.written = @ \cup {scope}]]
        /\ UNCHANGED <<saved, lock, pc, opened, drawn>>

(* The engine's journal reaches the disk: by persist(), or when it likes. *)
Persist ==
    /\ saved # disk
    /\ saved' = disk
    /\ UNCHANGED <<disk, lock, pc, call, opened, drawn, started>>

(* The process dies and opens the engine again; WeDb::new activates the     *)
(* default database.  The handles clients had are gone.                     *)
Crash ==
    /\ disk' = Booted(saved)
    /\ lock' = NoProc
    /\ pc' = [p \in Procs |-> "idle"]
    /\ call' = [p \in Procs |-> Idle]
    /\ opened' = {}
    /\ nsDrawn' = {}
    /\ dbDrawn' = [n \in NsIds |-> {}]
    /\ UNCHANGED <<saved, started>>

Step(p) ==
    \/ CallNs(p) \/ CallNewDb(p) \/ CallOpenDb(p)
    \/ NsRead(p) \/ NsStore(p) \/ DbRead(p) \/ DbStore(p) \/ Activate(p)
    \/ CallDbRm(p) \/ CallFlushDb(p) \/ CallNsRm(p) \/ CallRm(p)
    \/ ScanData(p) \/ ScanMeta(p) \/ ScanCatalog(p) \/ Commit(p)
    \/ ClearData(p) \/ ClearMeta(p)
    \/ Write(p)

Next == (\E p \in Procs : Step(p)) \/ Persist \/ Crash

Spec == Init /\ [][Next]_vars

-----------------------------------------------------------------------------
(* Properties. *)

(* The variables have their types, and whoever is between the read and the  *)
(* write of an allocator holds ns_lock with an id in range.                 *)
TypeOK ==
    /\ disk \in Stores
    /\ saved \in Stores
    /\ lock \in Procs \cup {NoProc}
    /\ pc \in [Procs -> Labels]
    /\ call \in [Procs -> Locals]
    /\ opened \in SUBSET Scopes
    /\ nsDrawn \in SUBSET NsIds
    /\ dbDrawn \in [NsIds -> SUBSET DbIds]
    /\ started \in 0 .. MaxCalls

(* WeDb::ns(None) and Namespace::db(None) draw no id that they drew before  *)
(* in this process, whatever the other threads draw or remove between their *)
(* read and their write, unless a removal deleted the counter since.  After *)
(* a crash they draw no id whose handing out is still on the disk: the      *)
(* counter is stored before the catalog entry, so a restart never finds the *)
(* entry and an older counter.  An id whose entry was lost with the         *)
(* journal's tail may be drawn again, and this does not forbid it.          *)
FreshIds ==
    [][ \A p \in Procs :
          /\ NsStore(p) => call[p].cur \notin nsDrawn \cup disk.nsGiven
          /\ DbStore(p) => LET n == call[p].ns
                           IN  call[p].cur \notin dbDrawn[n] \cup disk.dbGiven[n] ]_vars

(* A database handed to a client stays in the catalog's directory until a   *)
(* removal of it commits, FLUSHDB's short absence apart.                    *)
OpenedListed ==
    \A scope \in opened :
        \/ scope \in disk.catalog
        \/ \E p \in Procs : /\ pc[p] = "activate"
                            /\ <<call[p].ns, call[p].db>> = scope

(* When a removal commits, what is left in its scopes was written after the *)
(* removal was called: nothing older survives in either partition.          *)
RmClears ==
    [][ \A p \in Procs :
          Commit(p) =>
             (disk'.data \cup disk'.meta) \cap Targets(call[p]) \subseteq call[p].written ]_vars

(* A collection's header never outlives its rows, on the disk a restart     *)
(* finds either: a header counts rows that are there.                       *)
HeaderHasRows == disk.meta \subseteq disk.data /\ saved.meta \subseteq saved.data
=============================================================================
