------------------------------ MODULE KeyScan -------------------------------
(***************************************************************************)
(* The commands that walk the two partitions by prefix, over the physical  *)
(* keys of KeyCodec: KEYS, SCAN, DBSIZE and RANDOMKEY of one database, the *)
(* removal of a database or a namespace, the listings of the catalog, and  *)
(* RENAME and DEL, which move or drop all rows under a key.  Strings are   *)
(* raw rows of the data partition; a list or a set is a record of the meta *)
(* partition and rows of the data partition.  Another client changes the   *)
(* keys between the pages of a SCAN.                                       *)
(*                                                                         *)
(* `held` is what the calls have stored: a history the properties compare  *)
(* the rows with.                                                          *)
(***************************************************************************)
EXTENDS KeyCodec, FiniteSets

LOCAL INSTANCE SequencesExt

CONSTANTS
    Scopes,      \* the databases, as <<ns_id, db>>
    Composite,   \* the collections there are, of "list" and "set"
    UserKeys, Subs,      \* byte strings: user keys, and what follows them in a row
    Limits,      \* the COUNTs of a SCAN
    Marks,       \* {"unset"}, or {"unset", "ahead"} when keys may expire
    MaxRows,     \* bound on the rows of both partitions, the catalog's aside
    Absent       \* no key

KeyScanAssumption ==
    /\ Scopes \subseteq Nat \X Nat /\ IsFiniteSet(Scopes)
    /\ Composite \subseteq {"list", "set"}
    /\ UserKeys \cup Subs \subseteq Seq(Byte)
    /\ Limits \subseteq Nat \ {0}

VARIABLES
    data, meta,  \* physical key |-> whether its expiry is "unset", "ahead" or "passed"
    held,        \* what each user key holds
    opened,      \* the databases that were opened and not removed since
    page         \* where the paging client is

vars == <<data, meta, held, opened, page>>

Types == {"string"} \cup Composite
MetaTag == [list |-> ListMeta, set |-> SetMeta]
DataTag == [list |-> ListData, set |-> SetData]

\* The keys and prefixes of this instance.
ScopeBytes == [s \in Scopes |-> ScopePrefix(s)]
RawKeys == [x \in Scopes \X UserKeys |-> MetaKey(x[1], RawString, x[2])]
HeaderKeys == [x \in Scopes \X Composite \X UserKeys |-> MetaKey(x[1], MetaTag[x[2]], x[3])]
RowPrefixes == [x \in Scopes \X Composite \X UserKeys |-> DataPrefix(x[1], DataTag[x[2]], x[3])]

Raw(s, key) == RawKeys[<<s, key>>]
Header(s, t, key) == HeaderKeys[<<s, t, key>>]
RowPrefix(s, t, key) == RowPrefixes[<<s, t, key>>]

System == {k \in DOMAIN meta : k[1] = 255}
Counters == {NsNextIdKey} \cup {DbNextIdKey(s[1]) : s \in Scopes}

\* No SCAN under way.
NoPage == [scope |-> Absent, filter |-> "any", at |-> <<>>, due |-> {}]

Init ==
    /\ data = <<>>
    /\ meta = [k \in Counters \cup {CatalogDbKey(s) : s \in Scopes} |-> "unset"]
    /\ held = [x \in Scopes \X UserKeys |-> Absent]
    /\ opened = Scopes
    /\ page = NoPage

----------------------------------------------------------------------------
(* The partitions.                                                         *)

Under(rows, prefix) == {k \in DOMAIN rows : StartsWith(k, prefix)}
Without(rows, X) == [k \in DOMAIN rows \ X |-> rows[k]]
With(rows, X, mark) == [k \in DOMAIN rows \cup X |-> IF k \in X THEN mark ELSE rows[k]]

Live(rows, k) == k \in DOMAIN rows /\ rows[k] # "passed"

StringLive(s, key) == Live(data, Raw(s, key))
HeaderLive(s, t, key) == Live(meta, Header(s, t, key))

\* The rows of a list or a set, by the prefix of its key.
RowsOf(s, t, key) == Under(data, RowPrefix(s, t, key))

\* cleanup_all_composite_data: the records there are, with their rows.
Headed(s, key) == {t \in Composite : Header(s, t, key) \in DOMAIN meta}
Headers(s, T, key) == {Header(s, t, key) : t \in T}
AllRows(s, T, key) == UNION {RowsOf(s, t, key) : t \in T}

\* One page of a client's SCAN lives on while the keys change.  A key is due
\* while it has been held, with one type, ever since the SCAN began.
Hold(h) ==
    /\ held' = h
    /\ page' = [page EXCEPT !.due =
                   {d \in @ : h[<<page.scope, d.key>>] # Absent /\ h[<<page.scope, d.key>>].type = d.type}]

Small == Cardinality(DOMAIN data') + Cardinality(DOMAIN meta' \ System) <= MaxRows

----------------------------------------------------------------------------
(* Commands that write.                                                    *)

\* write_string_val of a plain SET: every record at the key makes way.
SetString(s, key, mark) ==
    LET T == Headed(s, key)
    IN  /\ data' = With(Without(data, AllRows(s, T, key)), {Raw(s, key)}, mark)
        /\ meta' = Without(meta, Headers(s, T, key))
        /\ Hold([held EXCEPT ![<<s, key>>] = [type |-> "string", subs |-> {}, timed |-> mark = "ahead"]])
        /\ UNCHANGED opened

\* get_meta_checked says that nothing else is in the way; a record that is not
\* live is written anew, over the rows that one cleared.
AddSub(s, t, key, sub) ==
    LET live == HeaderLive(s, t, key)
        old == IF live THEN held[<<s, key>>] ELSE [type |-> t, subs |-> {}, timed |-> FALSE]
        kept == IF live THEN data ELSE Without(data, RowsOf(s, t, key))
    IN  /\ ~StringLive(s, key)
        /\ \A u \in Composite \ {t} : ~HeaderLive(s, u, key)
        /\ data' = With(kept, {SubKey(s, DataTag[t], key, sub)}, "unset")
        /\ meta' = IF live THEN meta ELSE With(meta, {Header(s, t, key)}, "unset")
        /\ Hold([held EXCEPT ![<<s, key>>] = [old EXCEPT !.subs = @ \cup {sub}]])
        /\ UNCHANGED opened

\* set_key_expire_at_impl: the live value of the key gets an expiry.
ExpireKey(s, key) ==
    /\ "ahead" \in Marks
    /\ held[<<s, key>>] # Absent
    /\ IF StringLive(s, key)
       THEN data' = [data EXCEPT ![Raw(s, key)] = "ahead"] /\ UNCHANGED meta
       ELSE /\ meta' = [k \in DOMAIN meta |->
                 IF k \in Headers(s, Composite, key) /\ meta[k] # "passed" THEN "ahead" ELSE meta[k]]
            /\ UNCHANGED data
    /\ Hold([held EXCEPT ![<<s, key>>].timed = TRUE])
    /\ UNCHANGED opened

\* Time passes: an expiry that lay ahead has come.
Lapse(s, key) ==
    /\ held[<<s, key>>] # Absent /\ held[<<s, key>>].timed
    /\ data' = [k \in DOMAIN data |->
                   IF k = Raw(s, key) /\ data[k] = "ahead" THEN "passed" ELSE data[k]]
    /\ meta' = [k \in DOMAIN meta |->
                   IF k \in Headers(s, Composite, key) /\ meta[k] = "ahead" THEN "passed" ELSE meta[k]]
    /\ Hold([held EXCEPT ![<<s, key>>] = Absent])
    /\ UNCHANGED opened

\* del_impl: the raw row, live or not; without a live one also the first
\* record at the key, in the order of the tags, and its rows.
Del(s, key) ==
    LET T == Headed(s, key)
        first == IF StringLive(s, key) THEN {}
                 ELSE IF "list" \in T THEN {"list"} ELSE T
    IN  /\ \/ Raw(s, key) \in DOMAIN data
           \/ T # {}
        /\ data' = Without(data, {Raw(s, key)} \cup AllRows(s, first, key))
        /\ meta' = Without(meta, Headers(s, first, key))
        /\ Hold([held EXCEPT ![<<s, key>>] =
              IF @ # Absent /\ @.type \in Composite \ first THEN @ ELSE Absent])
        /\ UNCHANGED opened

\* The rows of a collection under another key: what follows the prefix stays.
Moved(s, t, key, to, rows) ==
    {RowPrefix(s, t, to) \o After(k, Len(RowPrefix(s, t, key))) : k \in rows}

\* copy_impl of RENAME: the destination loses all it holds, the source's rows
\* are written under the destination's prefix and dropped under their own.
Rename(s, key, to) ==
    LET T == Headed(s, to)
        cleared == Without(data, {Raw(s, to)} \cup AllRows(s, T, to))
        heads == Without(meta, Headers(s, T, to))
        t == held[<<s, key>>].type
        rows == RowsOf(s, t, key)
    IN  /\ key # to /\ held[<<s, key>>] # Absent
        /\ \/ /\ StringLive(s, key)
              /\ data' = With(Without(cleared, {Raw(s, key)}), {Raw(s, to)}, data[Raw(s, key)])
              /\ meta' = heads
           \/ /\ ~StringLive(s, key)
              /\ data' = With(Without(cleared, rows), Moved(s, t, key, to, rows), "unset")
              /\ meta' = With(Without(heads, {Header(s, t, key)}), {Header(s, t, to)},
                              meta[Header(s, t, key)])
        /\ Hold([held EXCEPT ![<<s, to>>] = held[<<s, key>>], ![<<s, key>>] = Absent])
        /\ UNCHANGED opened

----------------------------------------------------------------------------
(* Commands about databases.                                               *)

\* activate_db_impl: the catalog lists an opened database.
Open(s) ==
    /\ s \notin opened
    /\ meta' = With(meta, {CatalogDbKey(s)}, "unset")
    /\ opened' = opened \cup {s}
    /\ UNCHANGED <<data, held, page>>

\* Mutant: a namespace goes with every number that begins like its own.
UnderNsShort(rows, ns) == Under(rows, <<0>>)

\* clear_ks_prefix of a namespace.
UnderNs(rows, ns) == Under(rows, NsPrefix(ns))

Forget(S) ==
    /\ Hold([x \in DOMAIN held |-> IF x[1] \in S THEN Absent ELSE held[x]])
    /\ opened' = opened \ S

\* db_rm_impl.
RemoveDb(s) ==
    /\ data' = Without(data, Under(data, ScopeBytes[s]))
    /\ meta' = Without(meta, Under(meta, ScopeBytes[s]) \cup {CatalogDbKey(s)})
    /\ Forget({s})

\* namespace_rm_impl.
RemoveNs(ns) ==
    /\ data' = Without(data, UnderNs(data, ns))
    /\ meta' = Without(meta, UnderNs(meta, ns) \cup Under(meta, CatalogNsPrefix(ns))
                                \cup {DbNextIdKey(ns)})
    /\ Forget({s \in Scopes : s[1] = ns})

\* Namespaces and Dbs: the catalog from a number on.
From(begin, prefix, start) ==
    {k \in DOMAIN meta : StartsWith(k, prefix) /\ (begin = 0 \/ ~Before(k, start))}
NamespacesFrom(begin) ==
    {Decode(After(k, 2))[1] : k \in From(begin, CatalogPrefix, CatalogNsPrefix(begin))}
DbsFrom(ns, begin) ==
    {Decode(After(k, Len(CatalogNsPrefix(ns))))[1] :
        k \in From(begin, CatalogNsPrefix(ns), CatalogDbKey(<<ns, begin>>))}

----------------------------------------------------------------------------
(* Commands that walk a database.                                          *)

\* The rows K in the order of their partition.
Ordered(K) ==
    [i \in 1 .. Cardinality(K) |->
        CHOOSE k \in K : Cardinality({j \in K : Before(j, k)}) = i - 1]

\* keys_impl, dbsize_scan_impl: the raw rows, then the records of meta.
StringRows(s) == {k \in Under(data, TagPrefix(s, RawString)) : Live(data, k)}
HeaderRows(s) ==
    {k \in Under(meta, ScopeBytes[s]) :
        LET rest == After(k, Len(ScopeBytes[s]))
        IN  rest # <<>> /\ IsTag(rest[1]) /\ rest[1] \in MetaTags /\ Live(meta, k)}

StringName(s, k) == After(k, Len(TagPrefix(s, RawString)))
HeaderName(s, k) == After(k, Len(ScopeBytes[s]) + 1)

AllKeys(s) == {StringName(s, k) : k \in StringRows(s)} \cup {HeaderName(s, k) : k \in HeaderRows(s)}
Size(s) == Cardinality(StringRows(s)) + Cardinality(HeaderRows(s))
Expires(s) == Cardinality({k \in StringRows(s) : data[k] = "ahead"})
                + Cardinality({k \in HeaderRows(s) : meta[k] = "ahead"})

\* Mutant: the next page begins with the row the cursor names.
RestAgain(K, prefix, cursor, phase) ==
    IF cursor = <<>> \/ cursor[1] # phase THEN K
    ELSE {k \in K : ~Before(k, prefix \o cursor[2])}

\* The rows a cursor of the same phase leaves: those after the one it names.
Rest(K, prefix, cursor, phase) ==
    IF cursor = <<>> \/ cursor[1] # phase THEN K
    ELSE {k \in K : Before(prefix \o cursor[2], k)}

Step(name, phase, at) == [name |-> name, next |-> <<phase, at>>]

\* scan_impl: the raw rows, unless the cursor is past them, then the records;
\* with each row the cursor that goes on after it.
Found(s, cursor, filter) ==
    LET strings ==
            IF filter \in Composite \/ (cursor # <<>> /\ cursor[1] = "m") THEN <<>>
            ELSE Ordered(Rest(StringRows(s), TagPrefix(s, RawString), cursor, "s"))
        heads ==
            IF filter = "string" THEN <<>>
            ELSE Ordered({k \in Rest(HeaderRows(s), ScopeBytes[s], cursor, "m") :
                             filter = "any" \/ StartsWith(k, TagPrefix(s, MetaTag[filter]))})
    IN  [i \in 1 .. Len(strings) |->
            Step(StringName(s, strings[i]), "s", StringName(s, strings[i]))]
        \o [i \in 1 .. Len(heads) |->
            Step(HeaderName(s, heads[i]), "m", After(heads[i], Len(ScopeBytes[s])))]

\* A page ends the moment it is full, even when nothing follows.
NextPage(s, cursor, filter, limit) ==
    LET found == Found(s, cursor, filter)
        n == IF Len(found) >= limit THEN limit ELSE Len(found)
    IN  [keys |-> [i \in 1 .. n |-> found[i].name],
         next |-> IF n = limit THEN found[n].next ELSE <<>>]

\* The keys a SCAN that begins now will have to return.
Due(s, filter) ==
    LET mine == {key \in UserKeys : held[<<s, key>>] # Absent}
    IN  {[key |-> key, type |-> held[<<s, key>>].type, times |-> 0] :
            key \in {k \in mine : filter \in {"any", held[<<s, k>>].type}}}

Times(keys, key) == Cardinality({i \in 1 .. Len(keys) : keys[i] = key})

\* A client begins a SCAN, goes on, and is done when the cursor is "0".
Scan(s, filter, limit, begun) ==
    LET got == NextPage(s, begun.at, filter, limit)
    IN  /\ page' = [begun EXCEPT
               !.at = got.next,
               !.due = {[d EXCEPT !.times = @ + Times(got.keys, d.key)] : d \in @}]
        /\ UNCHANGED <<data, meta, held, opened>>

StartScan(s, filter, limit) ==
    /\ page = NoPage
    /\ Scan(s, filter, limit,
            [NoPage EXCEPT !.scope = s, !.filter = filter, !.due = Due(s, filter)])

ContinueScan(limit) ==
    /\ page # NoPage /\ page.at # <<>>
    /\ Scan(page.scope, page.filter, limit, page)

EndScan ==
    /\ page # NoPage /\ page.at = <<>>
    /\ page' = NoPage
    /\ UNCHANGED <<data, meta, held, opened>>

\* randomkey_impl picks one of the first sixty.
RandomKeys(s) == ToSet(NextPage(s, <<>>, "any", 60).keys)

----------------------------------------------------------------------------
Write(s, key) ==
    \/ \E mark \in Marks : SetString(s, key, mark)
    \/ \E t \in Composite, sub \in Subs : AddSub(s, t, key, sub)
    \/ ExpireKey(s, key)
    \/ Lapse(s, key)
    \/ Del(s, key)
    \/ \E to \in UserKeys : Rename(s, key, to)

\* Commands reach a database through a handle; here one that is not removed.
Next ==
    /\ \/ \E s \in opened, key \in UserKeys : Write(s, key)
       \/ \E s \in Scopes : Open(s) \/ RemoveDb(s)
       \/ \E s \in Scopes : RemoveNs(s[1])
       \/ \E s \in opened, filter \in Types \cup {"any"}, limit \in Limits : StartScan(s, filter, limit)
       \/ \E limit \in Limits : ContinueScan(limit)
       \/ EndScan
    /\ Small

Spec == Init /\ [][Next]_vars

----------------------------------------------------------------------------
(* Properties.                                                             *)

\* Rows are marked, a key holds a value of one type, and a page is under way
\* in a scope or not at all.
TypeOK ==
    /\ \A rows \in {data, meta} : \A k \in DOMAIN rows : rows[k] \in {"unset", "ahead", "passed"}
    /\ held \in [Scopes \X UserKeys ->
                    {Absent} \cup [type : Types, subs : SUBSET Subs, timed : BOOLEAN]]
    /\ opened \subseteq Scopes
    /\ page.scope \in Scopes \cup {Absent}
    /\ page.due \subseteq [key : UserKeys, type : Types, times : Nat]

\* Where a row belongs, as its bytes tell.
PlaceIn(scope, found) == [scope |-> scope, tag |-> found[1], key |-> found[2]]
Place(k) == PlaceIn(ParseScope(k)[1], UserKey(ParseScope(k)[1], k))

\* The bytes of a key lose nothing: parse_scoped_prefix and extract_user_key
\* find in every row the database and the user key it was written for, what a
\* key holds has just the rows the calls stored, the range up to
\* prefix_upper_bound is the rows of the prefix, a row carried over to another
\* scope by transform_key_to_target_bytes is the row of that scope, and the
\* catalog's keys read back as the opened databases.
RowsDecode ==
    LET users == DOMAIN data \cup (DOMAIN meta \ System)
        place == [k \in users |-> Place(k)]
    IN  /\ \A k \in users :
              /\ place[k].scope \in Scopes /\ place[k].key \in UserKeys
              /\ \A s \in Scopes :
                    /\ InScope(s, k) <=> s = place[k].scope
                    /\ LET moved == Transform(place[k].scope, k, s)
                       IN  UserKey(s, moved) = <<place[k].tag, place[k].key>>
        /\ \A s \in Scopes, key \in UserKeys :
              LET h == held[<<s, key>>]
                  mine == {k \in users : place[k].scope = s /\ place[k].key = key}
              IN  h # Absent =>
                      IF h.type = "string" THEN Raw(s, key) \in mine
                      ELSE /\ Header(s, h.type, key) \in mine
                           /\ {k \in mine : place[k].tag = DataTag[h.type]}
                                 = {SubKey(s, DataTag[h.type], key, sub) : sub \in h.subs}
        /\ \A s \in Scopes, key \in UserKeys, t \in Composite :
              LET prefix == RowPrefix(s, t, key)
              IN  RowsOf(s, t, key) =
                      {k \in DOMAIN data : ~Before(k, prefix) /\ Before(k, UpperBound(prefix))}
        /\ System \ Counters = {CatalogDbKey(s) : s \in opened}

\* KEYS, DBSIZE and RANDOMKEY of a database know its live keys, each once, and
\* no other's; the listings give the opened databases from a
\* number on.
ReadsExact ==
    /\ \A s \in Scopes :
          LET mine == {key \in UserKeys : held[<<s, key>>] # Absent}
          IN  /\ AllKeys(s) = mine
              /\ Size(s) = Cardinality(mine)
              /\ Expires(s) = Cardinality({key \in mine : held[<<s, key>>].timed})
              /\ RandomKeys(s) = mine
    /\ \A x \in Scopes :
          /\ NamespacesFrom(x[1]) = {s[1] : s \in {o \in opened : o[1] >= x[1]}}
          /\ DbsFrom(x[1], x[2]) = {s[2] : s \in {o \in opened : o[1] = x[1] /\ o[2] >= x[2]}}

\* A SCAN that has come to its end has returned every key that was there all
\* the time, with one type, and returned it once, however the other keys
\* changed between its pages.
ScanComplete ==
    page # NoPage /\ page.at = <<>> => \A d \in page.due : d.times = 1
=============================================================================
