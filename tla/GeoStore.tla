------------------------------- MODULE GeoStore -------------------------------
(***************************************************************************)
(* The geo commands of embed/src/api/geo over a sorted set: a member's     *)
(* score is the cell of its place, and a search reads the ranges of scores *)
(* that make up the cells around its shape.                                *)
(*                                                                         *)
(* One caller at a time; the sorted set underneath is what RedisZSets      *)
(* promises, and a key may hold a value of another type instead.  A        *)
(* command that stores is one step here: in the code DEL and ZADD of the   *)
(* destination are batches of their own.  Units are left out.              *)
(***************************************************************************)
EXTENDS Integers, Sequences, FiniteSets

LOCAL INSTANCE SequencesExt

CONSTANTS
    Step, LonMax, LatMax, PoleMax, HighLats, Digits, DigitBits,   \* as in Geohash
    Keys, Members, Additions, Options, Searches, Destinations,    \* as in RedisGeo
    Places, Shapes,    \* where the properties search from, and what for
    Absent

VARIABLES
    row,         \* the score of each member of each key
    other,       \* the keys that hold a value of another type
    asked, ret   \* the last call and its answer

vars == <<row, other, asked, ret>>

G == INSTANCE Geohash

GeoAssumption ==
    /\ G!GeohashAssumption
    /\ Members \subseteq Nat
    /\ \A items \in Additions : \A i, j \in DOMAIN items : items[i].member = items[j].member => i = j
    /\ Destinations \subseteq Keys \cup {Absent}

NoRows == [m \in Members |-> Absent]

Init ==
    /\ row = [k \in Keys |-> NoRows]
    /\ other = {}
    /\ asked = <<>>
    /\ ret = 0

In(k) == {m \in Members : row[k][m] # Absent}
Unchanged(r) == UNCHANGED <<row, other>> /\ ret' = r

----------------------------------------------------------------------------
(* Places and reading them.                                                *)

\* geoadd, geoadd_one: every place is checked before ZADD gets the scores.
GeoAdd(k, items, o) ==
    LET new == [i \in DOMAIN items |->
                   [member |-> items[i].member, score |-> G!Score(items[i].place)]]
        written == {i \in DOMAIN items : /\ "nx" \in o => new[i].member \notin In(k)
                                         /\ "xx" \in o => new[i].member \in In(k)
                                         /\ row[k][new[i].member] # new[i].score}
        added == {i \in written : new[i].member \notin In(k)}
        place(f, i) == IF i \in written THEN [f EXCEPT ![new[i].member] = new[i].score] ELSE f
    IN  IF k \in other \/ \E i \in DOMAIN items : ~G!Valid(items[i].place) THEN Unchanged("error")
        ELSE /\ row' = [row EXCEPT ![k] = FoldLeft(place, row[k], [i \in DOMAIN items |-> i])]
             /\ UNCHANGED other
             /\ ret' = Cardinality(IF "ch" \in o THEN written ELSE added)

\* geopos: where a member is, as far as its score tells.
GeoPos(k, m) == G!Coord(row[k][m])

\* geohash, geohash_one.
GeohashString(k, m) == G!GeohashOf(GeoPos(k, m))

----------------------------------------------------------------------------
(* Searching.                                                              *)

ByScore(f, a, b) == f[a] < f[b] \/ (f[a] = f[b] /\ a < b)

\* Mutant: the bound of a box belongs to it.
ScannedPast(f, h) ==
    SetToSortSeq({m \in Members : f[m] # Absent /\ G!LeastScore(h) <= f[m]
                                               /\ f[m] <= G!ScoreBound(h)},
                 LAMBDA a, b : ByScore(f, a, b))

\* ziter_range_byscore over the scores of a cell.
Scanned(f, h) ==
    SetToSortSeq({m \in Members : f[m] # Absent /\ G!LeastScore(h) <= f[m]
                                               /\ f[m] < G!ScoreBound(h)},
                 LAMBDA a, b : ByScore(f, a, b))

\* search_shape_internal without a limit: what the cells hold, one after the
\* other, of what lies in the shape.
Found(f, p, s, cells) ==
    FoldLeft(LAMBDA points, h : points \o SelectSeq(Scanned(f, h),
                                    LAMBDA m : G!ContainsPoint(p, s, G!Coord(f[m]))),
             <<>>, cells)

\* ANY ends the walk as soon as there are enough; at the first, when none is
\* asked for.
Walked(points, q) ==
    IF q.any /\ q.count # Absent /\ q.count < Len(points)
    THEN SubSeq(points, 1, IF q.count = 0 THEN 1 ELSE q.count) ELSE points

\* Mutant: a limit by itself takes the first found.
SortedUnasked(points, far, q) ==
    LET n == IF q.count = Absent \/ q.count > Len(points) THEN Len(points) ELSE q.count
    IN  {SubSeq(points, 1, n)}

\* sort_and_truncate_points: any order of equal distances, by unstable sorts.
Sorted(points, far, q) ==
    LET n == IF q.count = Absent \/ q.count > Len(points) THEN Len(points) ELSE q.count
        order == IF q.count # Absent /\ ~q.any /\ q.sort = "none" THEN "asc" ELSE q.sort
        first(i, j) == IF order = "asc" THEN far[points[i]] <= far[points[j]]
                       ELSE far[points[i]] >= far[points[j]]
        sorted == {t \in SetToSeqs(DOMAIN points) :
                      \A a, b \in DOMAIN t : a < b => first(t[a], t[b])}
    IN  IF order = "none" THEN {SubSeq(points, 1, n)}
        ELSE {[a \in 1 .. n |-> points[t[a]]] : t \in sorted}

\* OriginPoint, georadiusbymember.
Origin(k, q) ==
    IF q.member = Absent THEN q.place
    ELSE IF q.member \in In(k) THEN GeoPos(k, q.member) ELSE Absent

Distances(k, p) == [m \in Members |-> IF m \in In(k) THEN G!Distance(p, GeoPos(k, m)) ELSE Absent]

\* The answers of georadius, geosearch and geosearchstore.
Points(k, p, q) ==
    Sorted(Walked(Found(row[k], p, q.shape, G!Cells(p, q.shape)), q), Distances(k, p), q)

\* Mutant: the destination keeps what it held.
StoreInto(f, points, scores) ==
    [m \in Members |-> IF m \in ToSet(points) THEN scores[m] ELSE f[m]]

\* DEL of a destination, and ZADD of the points unless there are none.
Store(f, points, scores) ==
    [m \in Members |-> IF m \in ToSet(points) THEN scores[m] ELSE Absent]

\* STORE first, STOREDIST after it.
StoreBoth(k, points, far, d, dist) ==
    /\ row' = [x \in Keys |-> IF x = dist THEN Store(row[x], points, far)
                              ELSE IF x = d THEN Store(row[x], points, row[k])
                              ELSE row[x]]
    /\ other' = other \ {d, dist}

\* georadius, georadiusbymember, and geosearch, which stores nowhere.
GeoRadius(k, q, d, dist) ==
    IF k \in other THEN Unchanged("error")
    ELSE IF In(k) = {} THEN StoreBoth(k, <<>>, row[k], d, dist) /\ ret' = <<>>
    ELSE IF Origin(k, q) = Absent THEN Unchanged("error")
    ELSE \E points \in Points(k, Origin(k, q), q) :
            /\ StoreBoth(k, points, Distances(k, Origin(k, q)), d, dist)
            /\ ret' = points

\* geosearchstore: one destination, and how many it holds.
GeoSearchStore(k, q, d, far) ==
    IF k \in other THEN Unchanged("error")
    ELSE IF In(k) = {}
    THEN /\ row' = [row EXCEPT ![d] = NoRows]
         /\ other' = other \ {d}
         /\ ret' = 0
    ELSE IF Origin(k, q) = Absent THEN Unchanged("error")
    ELSE \E points \in Points(k, Origin(k, q), q) :
            /\ row' = [row EXCEPT ![d] = Store(@, points, IF far THEN Distances(k, Origin(k, q))
                                                          ELSE row[k])]
            /\ other' = other \ {d}
            /\ ret' = Len(points)

----------------------------------------------------------------------------
(* What else clients do, and all steps together.                           *)

\* ZREM of a member.
Leave(k, m) ==
    /\ m \in In(k)
    /\ row' = [row EXCEPT ![k][m] = Absent]
    /\ UNCHANGED <<other, ret>>

\* DEL or expiry; SET.
Vanish(k) == row' = [row EXCEPT ![k] = NoRows] /\ other' = other \ {k} /\ UNCHANGED ret
Overwritten(k) == row' = [row EXCEPT ![k] = NoRows] /\ other' = other \cup {k} /\ UNCHANGED ret

Call(k) ==
    \/ \E items \in Additions, o \in Options : asked' = <<"add", k, items, o>> /\ GeoAdd(k, items, o)
    \/ \E q \in Searches, d, dist \in Destinations :
          asked' = <<"search", k, q, d, dist>> /\ GeoRadius(k, q, d, dist)
    \/ \E q \in Searches, d \in Keys, far \in BOOLEAN :
          asked' = <<"searchstore", k, q, d, far>> /\ GeoSearchStore(k, q, d, far)
    \/ \E m \in Members : asked' = <<"rem", k, m>> /\ Leave(k, m)
    \/ asked' = <<"vanish", k>> /\ Vanish(k)
    \/ asked' = <<"other", k>> /\ Overwritten(k)

Next == \E k \in Keys : Call(k)

Spec == Init /\ [][Next]_vars

----------------------------------------------------------------------------
(* Properties.                                                             *)

(* The variables have their types.                                         *)
TypeOK ==
    /\ row \in [Keys -> [Members -> Nat \cup {Absent}]]
    /\ other \subseteq Keys

\* At the greatest longitude or latitude a place has a cell beyond the last.
OnGrid(p) == p.lon < LonMax /\ p.lat < LatMax

(* The cells a search reads hold every member in its shape, once, whatever *)
(* the steps, the neighbours left out and the edges of the map it goes     *)
(* around (get_areas_by_shape_wgs84) -- but for what lies at the greatest  *)
(* longitude or latitude.                                                  *)
SearchExact ==
    \A p \in Places, s \in Shapes :
        OnGrid(p) =>
            LET cells == G!Cells(p, s)
            IN  \A k \in Keys :
                    LET found == Found(row[k], p, s, cells)
                    IN  /\ Cardinality(ToSet(found)) = Len(found)
                        /\ \A m \in {x \in In(k) : OnGrid(GeoPos(k, x))} :
                              G!ContainsPoint(p, s, GeoPos(k, m)) => m \in ToSet(found)

(* What a member's score says of its place is its place for good: coded    *)
(* anew it is the same score, and its geohash, which leaves two bits away, *)
(* leads back to the same cell, a bit coarser (base32_to_coords).          *)
PlacesExact ==
    \A k \in Keys : \A m \in In(k) :
        row[k][m] < 4^Step =>
            LET p == GeoPos(k, m)
                cell(x) == G!Encoded(x, PoleMax, Step - 1)
            IN  /\ G!Score(p) = row[k][m]
                /\ cell(G!PlaceOf(GeohashString(k, m))) = cell(p)

Geos == INSTANCE RedisGeo WITH
    held <- row, Valid <- G!Valid, Score <- G!Score, Coord <- G!Coord, Distance <- G!Distance,
    ContainsPoint <- G!ContainsPoint

(* Searches answer, and store, what lies in their shape: the nearest or    *)
(* farthest so many, over whatever the destination held, which may be the  *)
(* source itself (sort_and_truncate_points, georadius, geosearchstore).    *)
ImplementsRedisGeo == [][Geos!GNext]_(Geos!vars)
=============================================================================
