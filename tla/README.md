# A TLA+ model of wedb_embed

`wedb_embed` (`src/embed`) is an embedded Redis-like database: Redis data types
stored as key/value pairs in an LSM engine with two partitions, `data` and
`meta`, and one atomic write batch over both. `src/engine` holds the storage
traits, `src/fastalp` a floating point codec, `src/examples` sample programs.
This directory holds TLA+ modules of its control logic, the TLC configurations
that check them on small instances, and proofs checked by TLAPS.

## 1. Inventory

### 1.1 Records and types

A user key is not one record. `key_composer` maps it to

* `raw(key)` in `data`: a string with a header that carries its expiry;
* `tag(type) + key` in `meta`: one metadata record per collection type, with
  flags, expiry, version and size (`meta.rs`);
* `tag(type) + len(key) + key + sub` in `data`: the subkeys of a collection
  (fields, items, members, scores, chunks). A subkey does not contain the
  version of its generation.

Expiry hides a record (`is_string_expired`, `KeyMeta::is_expired`); its bytes stay
until a writer or `sweep_expired` removes them. An empty collection counts as
expired, except where it may be empty (streams, time series, filters).

No command holds a lock: a handler reads, decides and commits one batch. Only the
id allocators of the catalog, the sweep's cursors and the cached key counts are
locked. The search indexes live in memory, behind `&mut self`.

### 1.2 Components

| Component | State | Operations | Interacts with | Hard behaviours | Correct when |
|---|---|---|---|---|---|
| version generator (`meta.rs`) | two process-wide atomics | `generate_version`, `init_version_counter` | every metadata writer | threads between the atomic accesses, clock steps, counter wrap | versions unique and increasing |
| keyspace (`api/key`) | all records of a key | DEL, EXPIRE, PERSIST, TTL, COPY, RENAME, SCAN, SORT, FLUSHDB | all types | expired records of other types, leftover subkeys | one live type per key, sizes exact, no stale data readable |
| key codec (`key_composer`) | none | varints, scopes, composing, parsing and moving keys, globs | all | scopes that are prefixes of others | injective, ordered by scope |
| strings (`api/string`), LCS | raw records | SET family, CAS/CAD, INCR, APPEND, SETRANGE, MSET | keyspace cleanup | read-modify-write without locks, overflow | as Redis |
| hash (`api/hash`) | meta + fields, field expiry | HSET, HDEL, HINCRBY, HEXPIRE family, HSETEX, HSCAN | keyspace | two expiry levels, size against expired fields | counts and bounds agree with fields |
| list (`api/list`) | meta(head, tail) + items by index | PUSH, POP, LINSERT, LREM, LTRIM, LMOVE | keyspace | wrapping windows, shifting, compaction | a sequence |
| set (`api/set`), sorted integers (`api/sortedint`) | meta + members | add, remove, pop, move, algebra with store, paging | keyspace | store over an operand, pages while members change | size exact, pages complete |
| sorted set (`api/zset`) | meta + member->score + score index | ZADD flags, ZINCRBY, pops, ranges, store | keyspace, geo | two indexes in step, -0.0 and 0.0 | indexes agree, ranks and ranges exact |
| stream (`api/stream`) | meta + entries, groups, consumers, PELs | XADD, XREADGROUP, XACK, XCLAIM, XAUTOCLAIM, XTRIM, XDEL, XSETID | keyspace | entries pending while deleted, bounds kept apart from rows | every entry delivered once, counts exact |
| bitmap (`api/bitmap`) | meta + segments, or a string | SETBIT, BITCOUNT, BITPOS, BITOP, BITFIELD | strings | segment boundaries, overflow modes | one sequence of bits |
| Bloom and Cuckoo filters (`api/bloom`) | meta + blocks or pages | ADD, INSERT, EXISTS, DEL | keyspace | growth and eviction in the middle of a call | no false negatives |
| HyperLogLog (`api/hll`) | registers | PFADD, PFCOUNT, PFMERGE | keyspace | registers across bytes, two encodings | registers are maxima |
| geo (`api/geo`) | a sorted set | GEOADD, GEOSEARCH, GEORADIUS and their stores | sorted set | cells that cover a shape | no member missed |
| JSON (`api/json`) | meta + document | path get, set, delete, array and number operations | keyspace | places inside one another, shifting indices | what the path names and nothing else |
| t-digest (`api/tdigest`) | meta + centroids, buffer | ADD, MERGE, RESET, quantiles, ranks | keyspace | the buffer's flush, merging into a source | weight conserved |
| time series (`api/timeseries`) | meta + chunks + rules + labels | ADD, INCRBY, DEL, RANGE, rules | fastalp | chunk split, 32-bit gaps, rules out of order | samples kept, series fed as the rule says |
| search (`api/search`, HNSW) | schemas, documents, inverted maps, graph; in memory | FT.CREATE, FT.SEARCH, aliases, suggestions | hash, JSON | stale postings, links to deleted nodes | a query finds what it describes |
| catalog (`wedb`) | namespaces, databases, id counters in `meta` | open, create, remove, list, sweep | all | allocation against explicit ids and removal, activation a separate write | fresh ids are fresh |
| engine (`engine`) | Fjall partitions | batch commit, `rm_weak`, persist | all | crash before persist | a batch is atomic |
| fastalp (`fastalp`) | none | compress, decompress floats | time series | bit widths, exceptions | lossless |

The properties that would catch each hard behaviour going wrong are listed with the
line where it bites under "hazards" in `PROJECT.json`.

## 2. What the modules model

A store module is the detailed one; a `Redis...` module says what the commands
promise, on plain mathematical values, and the store implements it: `asked` is the
call with its arguments and `ret` its answer in both, so that each call must do and
answer what the same call promises. Except in `Version`, `Catalog` and `Strings` there
is one caller, and an action is a whole handler with its one atomic batch: several
reads and one commit. "Lapse" is the passing of a key's expiry.

| Module | Models | Promise (abstract) | Runs | Proved in |
|---|---|---|---|---|
| `Version` | `meta.rs`: `generate_version`, `init_version_counter` | | `version` | `VersionProofs` |
| `Keyspace` | `api/key`, with strings, sets and the sweep as its clients | `RedisKeys` | `keyspace`, `keyspace_copy_nx`, `keyspace_del`, `collections` | `KeyspaceProofs` |
| `Catalog` | `wedb/`: namespaces, databases, id counters, removals, crashes | | `catalog`, `catalog_crash` | `CatalogProofs` |
| `KeyCodec`, `KeyScan` | `key_composer`; KEYS, SCAN, DBSIZE, RANDOMKEY, removals and RENAME on its physical rows | | `collections` | |
| `Glob` | `matches_glob_bytes` | | `collections` | |
| `Strings` | `api/string` | `RedisStrings` | `collections`, `strings_cas` | `StringsProofs` |
| `SetStore` | `api/set` | `RedisSets` | `collections` | `SetProofs` |
| `SortedIntStore` | `api/sortedint` | `RedisSets` | `collections` | `SetProofs` |
| `ListStore` | `api/list` | `RedisLists` | `collections` | `ListProofs` |
| `StreamStore` | `api/stream` | | `stores`, `streams_claim` | `StreamProofs` |
| `HashStore` | `api/hash` | `RedisHashes` | `stores` | `StringsProofs` |
| `ZSetStore` | `api/zset` | `RedisZSets` | `stores` | `SetProofs` |
| `Geohash`, `GeoStore` | `api/geo`: codec and commands | `RedisGeo` | `stores` | |
| `TimeSeries` | `api/timeseries` | | `stores`, `ts_gaps` | |
| `BitmapStore` | `api/bitmap` | `RedisBitmaps` | `values` | |
| `BloomStore`, `CuckooStore` | `api/bloom` | | `values` | |
| `HllStore` | `api/hll` | `RedisHlls` | `values` | |
| `JsonValues`, `JsonStore` | `api/json` | `RedisJson` | `values` | |
| `SearchStore` | `api/search`: indexes and the HNSW graph | | `values` | |
| `TDigestStore` | `api/tdigest` | | `values` | |

`MCKeyspace` gives constants a `.cfg` cannot write. `MCCollections`,
`MCStores` and `MCValues` are the composite modules: a variable `type`, chosen by
`Init`, picks one instance of a store for the whole behaviour, and the others'
variables stay at a constant. Their `TypeOK`, `SizeExact`, `ReadsExact` and so on are
the conjunctions, over the kinds, of the property the kind's own module states.
`MCCollections` also holds `Race`, the strings with two threads that `strings_cas` runs.
`Ranks` holds lemmas on ranks in finite sets of numbers, for the four proof modules that
page, trim, put found places in order, or look for the last of several.
`PROJECT.json` maps every definition to its lines.

### 2.1 Version

The two atomics are `last` (`LAST_VERSION`) and `counter`; `pc`, `ts`, `candidate`
and `seen` are the locals of `generate_version`. Every atomic access is an action:
`ReadClock`, `FetchAdd`, `LoadLast`, then `Exchange` or `Retry` of the weak
compare-exchange, which may fail spuriously. `Tick` sets the clock to any value:
it may step back. `issued` is the history of returned versions.

### 2.2 Keyspace

`str`, `meta` and `sub` are the three kinds of record of section 1.1. Expiry is a
comparison with `now`; nothing is removed when it passes. `Tags` is the order in which
the code tries the types, on which DEL and COPY depend. The cleanup of other types, the
removal of an emptied record and the preparation of a new generation are inside the
handlers. The strings and the one-member collections stand for every type: to
`api/key` a type is a tag with subkeys. The clock does not go back here. `View`, the
live record of each key, is the refinement mapping to `RedisKeys`.

### 2.3 Catalog

Handles are shared by threads and only the allocators lock, so a call is several
actions: `NsRead`/`NsStore`, `DbRead`/`DbStore` under `ns_lock`, `Activate` as a
separate write, a removal as `ScanData`, `ScanMeta`, `ScanCatalog` and `Commit`,
and `WeDb::rm` as `ClearData` and `ClearMeta`. A scope's contents are one collection:
is its header there, are its rows there. `saved` is an earlier state of `disk`:
`Persist` copies, `Crash` goes back to it and forgets handles and lock. This is the
engine's promise, batches in order with the last ones lost, which the code relies on.

Which ids were given out is kept as history in two places. `nsDrawn` and `dbDrawn` are what
this process drew; they are gone after a crash. `nsGiven` and `dbGiven` are marks in the
store, written with the catalog entry, which is a later write than the counter: a crash
keeps a prefix of the writes, so it may keep the counter without the mark. `FreshIds` says
that within a process no id is drawn twice, and that after a crash none is drawn whose mark
is on the disk. It does not say that a client's id survives: what a crash loses whole is
drawn again. A removal that deletes a counter ends the claim on what was drawn from it,
the id of a call still on its way to its catalog entry included.

### 2.4 Keys, byte for byte

`KeyCodec` composes and parses physical keys as sequences of bytes: varints, scopes,
tags, lengths, subkeys, the catalog's own keys, and the rewriting of a key for another
scope or another name. `KeyScan` keeps both partitions as functions from such keys and
walks them by prefix in their order, the way the code does: the two phases of SCAN with
their cursors, KEYS, DBSIZE, RANDOMKEY, the listings of the catalog, FLUSHDB and the
removals, DEL and RENAME. `held` is what the calls have stored, a history that
`RowsDecode` and `ReadsExact` compare the rows with. A second client changes the keys
between the pages of a SCAN. Numbers stay below 2^31, and commands act on opened
databases only. `Glob` is a function, checked against what a pattern describes.

### 2.5 Strings

`str` is the row of a key, `other` the header of a value of another type, `batch`
what a thread has decided to write. A call is two steps, as in the code: `Decide`
(read, test, compose a batch) and `Write`. The clock and other threads may move in
between. `Found` are the headers that exist when the batch is composed. Digest
comparisons are value comparisons, digests being taken as injective. `PutOther` and
`DropOther` are what commands of other types do to a key. The refinement mapping to
`RedisStrings` is the store as it will be when the pending batch has landed.

### 2.6 Collections

* `SetStore`, `SortedIntStore`: a record with a size and rows of members; `scan` is a
  client that pages through a key, with what it has met and what was there throughout.
  Sorted integers lie in the order of their ids, and 0 is both an id and the cursor of
  a beginning.
* `ListStore`: a record (`head`, `tail`, `size`) and items by index, with arithmetic that
  wraps at `Width`, 2^64 in the code. `Scan` has both paths: an ordered range, and
  single lookups when the window wraps. `LInsert` shifts the shorter side, `LRem`
  compacts towards the head, `LMove` moves inside one list or across two.
* `StreamStore`: the record with first, last and largest deleted id, the rows, and for
  each group its record, its consumers' and the pending list, each with counts of the
  others. `due` is a history: what a group has yet to be given. Ids are numbers
  `ms * Seqs + seq`; entry fields decide nothing and are left out.
* `HashStore`: rows with a value and an expiry; the record's counts of all rows and of the
  persistent ones and its bounds on the expiries, from which HLEN and the readers
  answer without looking when they can. A handler goes through its list by `Each`, a
  recursive function. `RedisHashes` allows two outcomes where the code has two (section 5).
* `ZSetStore`: both rows of a member. A score is the code that `encode_sortable_f64` gives
  it: -0.0 and 0.0 are -1 and 0, neighbouring rows and equal numbers.
* `GeoStore` stands on what `RedisZSets` promises of the sorted set underneath. `Geohash`
  is the codec: cells, interleaved scores, the letters of GEOHASH, the choice of a step
  for a radius, the nine cells around a place and which of them a search drops. The
  earth is a cylinder of whole units, so parallels do not get shorter towards the
  poles.
* `TimeSeries`: samples in chunk rows under the time of their first, packed or plain; a
  chunk splits when full and moves when a sample comes before all others; retention,
  duplicate policies; rules kept at the source, followed sample by sample into the
  series it feeds.

### 2.7 Values

* `BitmapStore`: a size and a row for each segment written, which may be shorter than the
  segment; or a string in one row, read and written as bits too. Both map to one
  sequence of bits.
* `BloomStore`, `CuckooStore`: chains of sub-filters with capacities, expansion and what a
  call does when one fills up half way; the cuckoo filter with kick-outs and the undo of
  one that ends without a place. Hashes are constants chosen to collide. `held` is what
  the callers were told is in.
* `HllStore`: registers packed across bytes (dense) or encoded as runs (sparse), with the
  splits of runs, promotion and both merges. The promise is one maximum per register.
* `JsonStore` walks a document along a parsed path the way each command does, with its
  fast paths; `RedisJson` says what a command does to the set of places the path leads
  to. Members have no order; answers are compared as bags.
* `SearchStore`: names, aliases, documents and the inverted maps beside them, and every
  kind of query over those maps, against what the query describes of the documents, and the
  page of a search against the rank of each document in the order asked for.
  Its first part is the HNSW graph: insertion with pruning, deletion, search on the layers.
* `TDigestStore`: centroids as exact fractions, the buffer, the merge pass with its scale
  function as a table. `seen` is what was added. `SizeExact` says that the centroids and
  the buffer stand for all of it once, in order; `ReadsExact` that extremes, ranks and
  quantiles are exact while no two values share a centroid.

## 3. The runs

| Run | Question | Bounds |
|---|---|---|
| `version` | are versions unique, increasing, ordered with the calls; does the loop make progress? | 2 threads, 3 calls, counter modulo 2, clock 0..1 |
| `keyspace` | does every handler implement a map of live keys, with one live type per key and exact sizes? | 2 keys, 2 members, strings and 2 types, clock 0..1 |
| `keyspace_copy_nx` | does a copy that succeeds equal its source? No | as `keyspace`, with NX |
| `keyspace_del` | is a deleted key gone? No | 1 key |
| `catalog` | are ids fresh, opened databases listed, removals complete? | 2 threads, 3 calls of every kind, crashes anywhere |
| `catalog_crash` | does a header outlive its rows? | 1 thread, 5 calls, crashes anywhere |
| `collections` | do sets, sorted integers, lists and strings do and answer what the plain types promise; do pages lose nothing; do the physical rows decode to what was stored? | see below |
| `stores` | the same of hashes, sorted sets and geo; are the counts of streams, groups and series their rows; is a fed series what its rule says? | see below |
| `values` | the same of bitmaps, filters, HyperLogLog, JSON, search indexes and t-digests | see below |
| `strings_cas` | does CAS replace only what it expects? No | 2 threads, 1 key |
| `streams_claim` | does a consumer's record count its entries after a claim? No | the kind `groups` of `stores` |
| `ts_gaps` | is a sample kept under its time? No | the kind `one`, gaps of 1 bit for 32 |

The kinds of the composite runs:

| Kind | Instance | Why it is enough |
|---|---|---|
| `set`, `setpair` | 1 set of 3 members read in pages of 1; 2 sets of 2 | a member can leave and come back before, at and behind a cursor; a store over either operand |
| `sortedint` | ids 0..3, pages of 1 | 0 is an id and a cursor; pages can be overtaken |
| `list`, `pair` | 1 list of 5 in 6 indexes; 2 of 2 in 3 | a list of five wraps at every start, and is the least with elements on both sides of an insertion that moves either side |
| `expiry` | 1 key of any type, 4 expiries, clock 0..2 | an expiry before, at and after now for both operands |
| `string`, `stringpair` | strings to 2 bytes, integers -2..1, clock 0..1; 2 keys | a write at the start, at the end and past it; an expiry between a read and its write |
| `rows`, `walk` | 3 databases with numbers of one and two bytes, 2 keys, 2 rows at once; 1 database, 3 keys, pages of 1 and 2 | a scope, key or subkey that begins like another; both phases of SCAN |
| `glob` | patterns to 3 symbols and longer ones after `[` and `*`, texts to 3 | classes, ranges, escapes, two stars |
| `log`, `groups` | 5 additions of ids of 3 ms with 2 numbers; 2 entries, 1 group, 2 consumers | every trim with rows before and behind; an entry that each consumer may hold, be stripped of, or see deleted |
| `hash` | 2 fields, clock 0..3 | one field expires before the other, and before the key |
| `zset`, `zpair` | 2 members, 4 scores with both zeros; 2 sets | equal scores in both orders, a score that crosses another, stores over operands |
| `map`, `geo` | 8 by 8 cells, 1 member in each cell and on the edges, searches of 15 shapes from 56 places; 2 keys, 3 members | shapes across cells, across the date line, at the edges |
| `one`, `fed`, `ruled` | times 0..3 in chunks of 2; a source and its target, 2 aggregations; 3 series and their rules | a split, a sample before all others, a bucket that is reopened, a rule to a removed series |
| `bitmap`, `bitops` | bytes of 2 bits, segments of 2 bytes, 3 segments; 2 bitmaps | ranges and integers that cross bytes and segments, holes |
| `bloom`, `cuckoo`, `crowd` | 4 items, 3 filters; 3 items, 2 filters; 3 items, buckets of 2 | items that look alike, growth and fullness half way, kicks that end without a place |
| `keyed`, `value` | 4 registers of 3 bits in bytes of 4, 2 keys or values | a register over two bytes, runs split and joined, promotion, merging into an operand |
| `docs`, `twodocs` | documents of 4 nodes, 2 names; 2 documents | places inside one another, slices in both directions, filters |
| `manager`, `texts`, `vectors` | 3 names with aliases; documents of 5 field types; 4 points on 2 layers, 5 ids | postings after an update, negation, links to deleted nodes |
| `digest`, `digests` | 6 values in a digest of compression 4 or 6; 2 digests of 3 values | buffer flushed full and half full, centroids shared and not, a digest among its own sources |

What is a bound, by name: `MaxNow`, `MaxClock`, `MaxCalls`, `MaxTime`, `MaxMs`, `MaxAdds`,
`MaxPending`, `MaxRows`, `MaxNodes`, `MaxIds`, `MaxScore`, `MaxSeen`, `MaxVal`, `MaxValue`, `Largest`,
`MaxCapacity`, `MaxFilters`, `NsTop` and `DbTop` end what would go on; `Width`, `ByteBits`,
`SegBytes`, `Word`, `RegBits`, `Slots`, `Step`, `Bits`, `M`, `EfConstruction` and `DefaultLimit` are sizes the
code has, made small. `MaxLen` and `MaxInt` in `Strings` are limits of the code itself, and
refused as the code refuses them. `MayCopy` in `Keyspace` and `Next` of `Strings` leave out,
each by name, what the code gets wrong (section 5).

The constraint `Kept` of `stores` and `values` names the states some property says nothing
of: a stream with ids set by hand or counts put out by a claim (`noted`), a series built over
an expired one or set apart from its rule (`stale`, `odd`), a filter built over an expired
one, a document larger than `MaxNodes`. Such a state is still checked; what follows it is
not searched.

A VIEW hides the last call and its answer: no action reads them, and every step is
still compared with the promised one. Keys and consumers are interchangeable in the
symmetric runs, which have no liveness property. Deadlock is checked in `version`,
`keyspace`, `catalog` and `collections`. Behaviours of `stores` and `values` may stop, where a
kind has used up its ids, samples or moments.

### 3.1 Fairness

Only `version` assumes any. A thread inside `generate_version` is scheduled, and a
weak compare-exchange whose expected value is current does not fail forever. `Retry`
is fair only when the value did change, so that progress does not come from spurious
failures. No other component waits: locks guard a read and a write with no wait
inside, and every other command runs to its end.

### 3.2 What the failing runs show

* `keyspace_del`: `del_impl` stops at the first record, live or expired. A live key
  behind an expired record of an earlier tag survives DEL, which answers 0.
* `keyspace_copy_nx`: COPY NX and RENAMENX onto an expired key do not clear its
  subkeys, which become part of the copy.
* `strings_cas`: CAS and CAD, documented as atomic, compare and write in two engine
  calls; another thread's write in between is lost.
* `streams_claim`: XCLAIM reads the record of the consumer it takes an entry from out of
  the store for each entry anew. Two entries of one consumer take one off its count.
* `ts_gaps`: a packed chunk keeps gaps in 32 bits. A sample more than seven weeks after
  the one before comes back under another time.

## 4. What is proved

All results are for every value of the constants, from the named assumptions of the
modules. Those assumptions say what the code's types say: numbers are naturals, batches
are sequences, a page holds at least one element, and one call names finitely many keys,
members, groups or consumers. `Absent` is told from every record. TLC evaluates each of
them in a passing run.

* **`VersionProofs`** — `TypeCorrect`, `Monotonic`, `CallOrder`. `StrictlyMonotonic` is
  not inductive: it says nothing of `last`. `HistoryInv` adds that nothing issued
  exceeds `last`, `CallInv` that a call started at or below `last` and that its
  candidate is not below the time it read. A successful exchange raises `last`, by
  `BumpedAbove`, and that is what is appended.
* **`KeyspaceProofs`** — `TypeCorrect`, `LiveTypeUnique`. `OneLiveType` is inductive with
  the types: a handler makes fewer records live, or one record live after it has
  seen or made every other record of that key dead. It needs finite `Keys` and
  `Members` and no string tag among `Tags`. It holds with COPY NX too, whose flaw is
  in the subkeys.

  `SizesExact`, `StoreImplementsRedisKeys`, `EveryCallExact`, with `TRUE \notin CopyNx`:
  a copy or rename with NX onto an expired collection keeps what is left of it, and the
  properties are then false (`keyspace_copy_nx`). `SizeExact` is inductive as it stands,
  as it speaks of expired records too: whoever reads no live record clears the subkeys
  before writing some. The refinement rests on three invariants. `OneLiveType` makes
  `View` read the record a handler has checked; `SizeExact` tells `Remove` its last
  member and gives COPY and RENAME nothing but the members to move; the types bound
  the rest. A handler is then one step of `RedisKeys`, the passing of an expiry is
  `Lapse`, and the sweep a stutter. `EveryCallExact` says it call by call with the
  arguments, where the refinement alone would accept another call of the same effect.
* **`CatalogProofs`** — `TypeCorrect`, `IdsNeverReused`, `HeadersHaveRows`,
  `OpenedStaysListed`, `RemovalClears`. For fresh ids,
  `IInv` adds that every id drawn or marked in the store is below its counter, that in what
  a restart would find every marked id is, since what is marked was drawn before, and that a
  thread between an allocator's read and write (`Drawing`) holds the lock with an id above
  all of these, also when a removal has reset the counter. For headers, `RowsInv` adds that a removal's scans are current,
  which holds when there is one thread and no `WeDb::rm`: the two assumptions of the
  theorem. With either dropped the property is false. For listing, `ListInv` adds that a
  batch about to be committed takes out of the catalog nothing but its own scope. For
  clearing, `ClearInv` adds that each row of a scope under removal was seen by its scan or
  written since by another thread (`written`): a commit leaves only the latter.
* **`SetProofs`** — `TypeCorrect`, `SizesExact`, `StoreImplementsRedisSets`,
  `ScansComplete`. `Sound` is types and sizes: as above, inductive because it counts
  expired sets too. A batch with members named twice changes the size by the members it
  really adds or removes, a set difference. The algebra with a
  store reads all operands before it writes, so its destination may be among them. For
  the pages, by member, what a client is due and has not met lies at or after its cursor.
  By position, `PageAfter` skips as many elements as were met: as long as nothing was
  removed the rank of a member never falls, so none moves from behind the
  position to before it.

  The same module proves the sorted integers, as the instance `Ints` on the same records
  and rows: `IntTypeCorrect`, `IntSizesExact`, `IntReadsExact`, `IntScansComplete`,
  `IntsImplementRedisSets`. Both kinds share the lemmas about what a batch writes at a
  key, which assume of members only that they are finitely many numbers
  (`RowAssumption`), as 0 is an id. `NormalizedIs` and `SpanIs` show the cuts of ranks
  and spans to select what the plain definitions say, for any largest id. A page
  downwards is a page upwards of the mirrored ids (`Mirror`), so both directions have one
  argument, with `Before` for their order: a client under way is at its beginning
  with nothing met, or all it met lies no later than its cursor and all that is due
  and no later than it was met (`IntFollows`).

  And the sorted sets, as the instance `Z`: `ZTypeCorrect`, `ZRowsExact`, `ZReadsExact`,
  `ZRanksExact`, `ZStoreImplementsRedisZSets`, for any scores with their opposites and
  any pairs, options, spans, ranks and weights, all from one invariant, `ZSound`. A row in
  order is told by its member (`Entries`), so the two kinds of rows are one function, and a
  handler's batch is sound when it writes a function and its entries. ZADD goes
  through its pairs from the back and skips a member it has seen; `AddsUp` says what its
  view holds after so many pairs: for each member named among them, the score its
  last pair asks for, if the options allow it, and as many added and changed. It also shows
  that the bars on an increment's sign, looked at before the sum, bar nothing that the
  comparison of the sum with the old score would let through. The order of codes
  and that of numbers differ at one place, -0.0 before 0.0 (`NumberOrder`), which is all
  that a cut of a score range (`ScoreRange`), the walk of a rank (`WalksStop`) and the
  aggregates (`ApplyIs`) have to look at. A walk stops where it should only when no other
  member has the zero of the other sign, and the theorem says so, as the property does.
* **`StreamProofs`** — `TypeCorrect`, `RecordsExact`, `OwnersFound`, `CountsExact`,
  `ReadersServed`, `LagBounds`, `ReadsMatch`, all from one invariant, `Inv`. Its parts need
  each other. `RecordInv`: the record says of the rows what it should, and that there
  are no more rows than were ever added. `OwnInv`: a pending entry's consumer has a
  record, and a group without a record has nothing. `CountInv`: the counts of a group are
  those of its pending list. `GiveInv`: a group's place is at or before the last id, and
  what is due lies after it. `LagInv`: entries read and entries that rest do not exceed
  those added. A new id is above the last one, so it is above every row and every place,
  and is due to every group; without `delivered <= last` that would not follow.
  Commands that write entries leave the groups alone and are treated by one lemma,
  `EntriesKeep`; commands of a group leave rows, size and last id alone, and have one
  lemma each. Trimming takes a lower end of the rows: the last entry stays, or none does.
  The sets of names in `noted` are part of each statement, as they are in the
  properties: the calls in them do put these counts out (section 5).
* **`StringsProofs`** — `TypeCorrect`, `OneLiveValue`, `CommandsImplementRedisStrings`, for
  one client (`Procs = {Client}`): a SET and an SADD of two threads do leave two live
  values, and CAS is not atomic (`strings_cas`). `OneLive` has two halves that need each
  other. No two live values lie at a key, and a batch under way cleans every header that is
  alive beside a row it puts (`Good`). Each command comes to an answer or to a good batch: it
  found no live header, or found one and cleans it, or, on the fast path of SET, cleans
  whatever is there. The batch stays good while the clock moves, as the clock revives
  nothing. The refinement looks at the store as it will be when the batch has landed
  (`Held`): a command is one step of `RedisStrings` at its read, the landing is a stutter,
  and the clock kills the same things on both sides because of two things at a key one is dead.
  On the way the decimal numerals are told apart, so that a string is read back as
  one number, the three pieces of SETRANGE are shown to be the overlay, byte by byte, and
  `normalize_range` to select the positions that lie in the range. The theorem
  excludes one decrement, the least integer, which `decrby` cannot negate. The integers
  of the model have one digit (`MaxInt` is at most 8), so numerals of several digits, and
  strings such as `01` that are not their own numeral, are not covered.

  The same module proves the hashes, as the instance `Hash` on the same clock, for any fields,
  lists, conditions and expiries: `HashTypeCorrect`, `HashBoundsExact`, `HashReadsExact`,
  `HashStoreImplementsRedisHashes`, all from one invariant, `HashInv`. What the properties
  say of the record is not enough for HLEN: they let it count rows too many, and HLEN
  answers from the count. `CountsOf` adds when that can be: it counts just the rows, or its
  lower bound is set and has passed, and then HLEN looks. HSETEX over a field that has run
  out counts it twice, and the bound that says so stays until a scan has put the record
  right: bounds are cleared only where the two counts agree, and one too high never does.
  Each transition of `HashMeta` is paired with the change of one row it goes with
  (`Becomes`). A handler over a list is followed field by field: `Fills` says that its view is
  sound and shows the new cell for the fields met and the old one for the others, and that
  is carried over a list that names fields twice because a second turn at a field finds the
  first one's cell and does what the promise says of it (`Settles`). Commands that purge what
  has run out have one lemma, `ThroughFills`, and differ in what they make of a cell and
  what they answer. A reader that stops at the bounds stops when no field is there
  (`AllGoneIs`). Time alone takes fields away on both sides in the same step.
* **`ListProofs`** — `TypeCorrect`, `WindowsExact`, `ReadsMatch`,
  `StoreImplementsRedisLists`, all from one invariant, `Inv`. `WindowExact` says which indexes
  hold an item, nothing of which item: a command that moves items could swap two and
  keep it. `Holds` says that the items are one sequence laid out from `head`, around the end
  of the indexes if need be, and nothing elsewhere; `Good` says it of every key, and
  `WindowExact` and the refinement follow, as `View` is that sequence. Each command has one
  lemma: given a list that holds `s`, the batch it writes holds the sequence that
  `RedisLists` makes of `s`, and its answer is the same. The hard ones are LINSERT, on either
  side of the shorter half, LREM, whose kept items close up towards the head in the order of
  their places, and LTRIM of both ends. Both paths of a scan find the same stretch, since a
  range of offsets is either one range of indexes or wraps once. All of the arithmetic is
  in `AddIs`, `OffIs` and `AddAdd`: adding at most `Width` either way wraps at most
  once. `Width` is any number above `MaxLen`, the longest list; at `Width` itself head and
  tail would agree for the full list and the empty one.
* **`Ranks`** — what the last four need of a finite set of numbers: a least and a greatest
  member, ranks grow with members, and the first `n` are a lower end of
  `n` members or of all.

`collections` and `stores` check the properties of `SetStore`, `SortedIntStore`, `ListStore`,
`ZSetStore`, `HashStore`, `StreamStore` and `Strings` as conjuncts of their own, so the
theorems are stated with the names of those modules.

Only model-checked. Liveness (`LockFree`), which the prover cannot do here. What a recursive
definition over data computes for every input (the JSON walk, globs, the merge pass of
a digest, key codecs), which would need induction theorems with an operator parameter.
Every property of the modules without an entry in the last column of section 2's table.
`CopyExact`, `DelRemoves`, `ClaimsCounted`, `AddedKept` and `CasAtomic` are false.

## 5. What is not modelled

`PROJECT.json` lists every component with what it leaves out, and every hazard with the
properties that cover it or the reason none does.

**Out of reach.** Results in floating point: HyperLogLog estimates, search scores, real
distances, interpolated quantiles between shared centroids, and the codec `fastalp`.
The engine: a batch is atomic, ordered and lost only from the end; weak tombstones are
not told from plain ones, nor is what compaction may bring back. Parsers, tokenizers and
formatting: of JSON, of queries, of command options.

**Left out as plain readers or loops over what is modelled.** LCS, MGET, HSCAN and ZSCAN
(SSCAN and the two phases of SCAN are modelled), labels and TS.MRANGE, SORT without STORE,
hash slots, examples and benches.

**Left out because the code does not do what its command promises.** The models' inputs
avoid these, and a reader of the code should know them:

* Keys: DEL counts a key given twice two times. A SCAN can miss a key whose type changes
  between the two phases. SORT with STORE deletes and pushes in two batches. Cached
  sizes stay after a database is removed. Opening a database by number does not advance the
  counter (`wedb/core.rs:154`). Removing a namespace deletes the counter without the lock
  (`wedb/core.rs:236`): an id drawn at that moment can be handed out twice.
* The sweep: it reads any row of `data` as a string (`wedb/core.rs:524`), and commits
  removals decided earlier (`wedb/core.rs:560`).
* Versions: `LAST_VERSION` is in memory (`meta.rs:91`); a clock set back revives an expired
  record (`meta.rs:124`).
* Strings: increments by two threads can be lost; DECRBY of the least integer wraps;
  SET and SADD of two threads can both succeed.
* Hashes: HSETEX counts an expired field anew; of a field named twice in HSET a new hash
  keeps the first value, an old one the last. `RedisHashes` allows two answers there.
* Streams: XSETID and XGROUP CREATE MKSTREAM over an expired stream keep its rows; XTRIM
  without a strategy removes all.
* Bitmaps: BITCOUNT misjudges the ends of a range of bits inside one byte (`Misjudged`);
  BITFIELD over an expired bitmap keeps its segments; BITOP can leave a bitmap beside a
  string.
* Filters: BF.ADD and CF.INSERT over an expired filter find the old blocks. The dense
  `set_register` of HyperLogLog can lower a register.
* Geo: the greatest longitude and latitude have no cell of their own (`OnGrid`); near a pole
  the bounding box is wrong; a store deletes and adds in two batches.
* JSON: GET of `$..[0,1]` and `$..["a","b"]` finds nothing where SET and NUMINCRBY change
  something; SET `$..a` to a value that contains `a` does not end; DEL and ARRPOP over
  `$..[i]` shift what they have yet to visit; DEL of the empty path answers without
  deleting; MERGE at a missing path keeps null members; NUMINCRBY of `$[0,0]` counts twice;
  MSET writes one batch per key; the filter `[?(@ > 1)]` never matches.
* Search: a range whose least exceeds its greatest panics; the comparison of SORTBY is not
  total where a number lies behind a text that is none (the inputs avoid it:
  `SearchAssumption`); FT.AGGREGATE sees the first ten documents; `num_terms` counts words no document
  has; deleting a node can cut the graph apart; an alias may be an index's name and
  shadows it; a phrase with slop is matched greedily and can miss; a vector of another
  dimension is kept but not in the graph; a prefix is cut at any byte.
* t-digest: MERGE writes beside a live value of another type; a reader that flushes the
  buffer clears the expiry, and an ADD of another thread in between is lost; with one
  centroid `cdf` is always one half.

## 6. Plan

Every component but the codec of floats is modelled. Next, in order of importance:

1. Lemmas about codecs, as functions without recursion: a cell and the cells around it in
   `Geohash`; scopes of `KeyCodec` are no prefixes of one another.
2. The sweep as a module of its own, with its cursors, beside writers.
3. `fastalp` over exact fractions: lossless through cached parameters, exceptions and the
   repeat and dictionary schemes.
