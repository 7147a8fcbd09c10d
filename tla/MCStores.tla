------------------------------ MODULE MCStores ------------------------------
(* Streams, hashes, sorted sets, places and time series, one kind at a     *)
(* time: a behaviour is about values of one type, in the instance chosen   *)
(* at the start.                                                           *)
EXTENDS Integers, Sequences, FiniteSets, TLC

CONSTANTS
    Types,            \* the instances a run chooses from
    GapBits,          \* the width of a packed gap, 32 in the code
    c1, c2, Absent

VARIABLES
    type, now, meta, row, index, group, consumer, pel, due, noted,
    chunk, rule, stale, odd, asked, ret

clock == <<now>>
order == <<index>>
groups == <<group, consumer, pel, due, noted>>
series == <<chunk, rule, stale, odd>>
vars == <<type, clock, meta, row, order, groups, series, asked, ret>>

\* Calls and answers tell no two states apart; consumers are alike.
View == <<type, clock, meta, row, order, groups, series>>
Symmetry == Permutations({c1, c2})

----------------------------------------------------------------------------
\* A stream on its own: every way to give an id and to trim, ids of three
\* milliseconds with two numbers each.
Trim(by, n, limit) == [by |-> by, n |-> n, limit |-> limit]
Log == INSTANCE StreamStore WITH
    rows <- row, Groups <- {}, Consumers <- {}, Seqs <- 2, MaxMs <- 2, MaxNow <- 2, MaxAdds <- 5,
    Strategies <- {[by |-> "auto"], [by |-> "seq", n |-> 1], [by |-> "ms", n |-> 1],
                   [by |-> "ms", n |-> 2], [by |-> "id", n |-> 3]},
    Trims <- {Trim("none", 0, Absent), Trim("none", 0, 1), Trim("maxlen", 1, Absent),
              Trim("maxlen", 0, Absent), Trim("minid", 2, Absent), Trim("maxlen", 1, 1)},
    Counts <- {1, 9}, Positions <- {}, LastIds <- {0, 1, 2, 4}, MaxPending <- 0

\* Two entries, a group and two consumers.
Groups == INSTANCE StreamStore WITH
    rows <- row, Groups <- {"g"}, Consumers <- {c1, c2}, Seqs <- 2, MaxMs <- 1, MaxNow <- 1,
    MaxAdds <- 2, Strategies <- {[by |-> "auto"]}, Trims <- {Trim("none", 0, Absent)},
    Counts <- {1, 9}, Positions <- {0, 2}, LastIds <- {}, MaxPending <- 2

\* Two fields and moments enough for one to expire before the other.
Pair(f, v) == [field |-> f, val |-> v]
Hash == INSTANCE HashStore WITH
    Fields <- {"a", "b"}, MaxVal <- 2, MaxNow <- 3, MaxSize <- 3,
    Pairs <- {<<Pair("a", 1)>>, <<Pair("a", 1), Pair("a", 2)>>, <<Pair("b", 1), Pair("a", 2)>>},
    Lists <- {<<"a">>, <<"b">>, <<"a", "b">>, <<"b", "a", "b">>}

\* One sorted set; the scores -1 and 0 stand for the two zeros.
Entry(s, m) == [score |-> s, member |-> m]
Span(min, minex, max, maxex) == [min |-> min, max |-> max, minex |-> minex, maxex |-> maxex]
Source(k, w) == [key |-> k, weight |-> w]
ZSet == INSTANCE ZSetStore WITH
    Keys <- {"x"}, Members <- {1, 2}, Scores <- -2 .. 1,
    Additions <- {<<Entry(-1, 1)>>, <<Entry(0, 1)>>, <<Entry(0, 2)>>, <<Entry(-2, 2)>>,
                  <<Entry(1, 1), Entry(0, 2)>>, <<Entry(1, 1), Entry(-1, 1)>>},
    Options <- {{}, {"nx"}, {"xx", "ch"}, {"gt"}, {"lt", "ch"}, {"incr"}, {"incr", "gt"}},
    Removals <- {<<1>>, <<2, 1>>}, Steps <- {1, -2}, Counts <- {1, 2},
    Ranks <- {<<0, 0>>, <<-1, -1>>, <<0, -1>>, <<1, 5>>},
    Spans <- {Span(0, FALSE, 1, FALSE), Span(-2, TRUE, 0, FALSE), Span(0, TRUE, 2, FALSE)},
    Sources <- {<<Source("x", -1)>>}

\* Two, and what is made of both.
ZPair == INSTANCE ZSetStore WITH
    Keys <- {"x", "y"}, Members <- {1, 2}, Scores <- -2 .. 1,
    Additions <- {<<Entry(-2, 1)>>, <<Entry(0, 1)>>, <<Entry(1, 2)>>}, Options <- {{}},
    Removals <- {<<1>>}, Steps <- {}, Counts <- {1}, Ranks <- {}, Spans <- {},
    Sources <- {<<Source("x", 1)>>, <<Source("x", -1), Source("y", 1)>>}

\* A map of eight by eight cells, one member anywhere on it and on its far
\* edges, looked for from everywhere.  A cell is 12 units wide and 4 high.
At(lon, lat) == [lon |-> lon, lat |-> lat]
Placed(m, p) == [member |-> m, place |-> p]
Round(r) == [radius |-> r, width |-> 2 * r, height |-> 2 * r]
Rect(w, h) == [radius |-> Absent, width |-> w, height |-> h]
Map == INSTANCE GeoStore WITH
    other <- index, Step <- 3, LonMax <- 48, LatMax <- 16, PoleMax <- 24, HighLats <- <<12, 15>>,
    Digits <- 2, DigitBits <- 2, Keys <- {"x"}, Members <- {1},
    Additions <- {<<Placed(1, p)>> : p \in {At(48, 0), At(3, 16)} \cup
                                            {At(12 * x - 42, 4 * y - 14) : x, y \in 0 .. 7}},
    Options <- {{}}, Searches <- {}, Destinations <- {},
    Places <- {At(lon, lat) : lon \in {-48, -44, -1, 0, 5, 17, 40, 47},
                              lat \in {-16, -13, -1, 0, 6, 13, 15}},
    Shapes <- {Round(r) : r \in {0, 1, 3, 5, 9, 11, 12, 20, 23, 30}} \cup
              {Rect(6, 8), Rect(8, 6), Rect(24, 10), Rect(24, 32), Rect(40, 2)}

\* Two sets of places, searched and stored.
Seek(p, m, s, count, any, sort) ==
    [place |-> p, member |-> m, shape |-> s, count |-> count, any |-> any, sort |-> sort]
Geo == INSTANCE GeoStore WITH
    other <- index, Step <- 3, LonMax <- 48, LatMax <- 16, PoleMax <- 24, HighLats <- <<12, 15>>,
    Digits <- 2, DigitBits <- 2, Keys <- {"x", "y"}, Members <- {1, 2, 3},
    Additions <- {<<Placed(1, At(1, 1))>>, <<Placed(2, At(-38, -3)), Placed(3, At(12, 5))>>,
                  <<Placed(1, At(0, 0)), Placed(2, At(0, 17))>>, <<Placed(1, At(12, 5))>>},
    Options <- {{}, {"nx"}, {"xx", "ch"}}, Destinations <- {"x", "y", Absent},
    Searches <- {Seek(At(-1, 3), Absent, Round(46), 1, FALSE, "none"),
                 Seek(At(47, 0), Absent, Round(48), 2, TRUE, "desc"),
                 Seek(Absent, 2, Rect(40, 30), Absent, FALSE, "asc")},
    Places <- {}, Shapes <- {}

\* One series with a packed chunk of two samples, and no rules.
Option(retention, size, packed, policy) ==
    [retention |-> retention, size |-> size, packed |-> packed, policy |-> policy]
One == INSTANCE TimeSeries WITH
    Keys <- {1}, MaxTime <- 3, Values <- {1}, MaxValue <- 2, Bits <- GapBits,
    Creations <- {Option(0, 2, TRUE, "block")}, Default <- Option(0, 2, TRUE, "block"),
    Alterations <- {Option(2, 1, Absent, "max")}, Policies <- {Absent, "last"},
    Rules <- {}, Spans <- {<<0, 0>>, <<1, 2>>, <<2, 3>>}

\* A series fed from another; and three with rules and no samples.
Rule(t, duration, align) == [type |-> t, duration |-> duration, align |-> align]
Plain == Option(0, 1, FALSE, "block")
Fed == INSTANCE TimeSeries WITH
    Keys <- {1, 2}, MaxTime <- 2, Values <- {1, 2}, MaxValue <- 2, Bits <- 8,
    Creations <- {Plain}, Default <- Plain, Alterations <- {}, Policies <- {Absent},
    Rules <- {Rule("sum", 2, 1), Rule("last", 2, 0)}, Spans <- {<<0, 1>>}
Ruled == INSTANCE TimeSeries WITH
    Keys <- {1, 2, 3}, MaxTime <- 1, Values <- {}, MaxValue <- 0, Bits <- 8,
    Creations <- {Plain}, Default <- Plain, Alterations <- {}, Policies <- {Absent},
    Rules <- {Rule("sum", 2, 0)}, Spans <- {}

ASSUME Assumptions ==
    /\ Types \subseteq {"log", "groups", "hash", "zset", "zpair", "map", "geo", "one", "fed", "ruled"}
    /\ Log!StreamAssumption /\ Groups!StreamAssumption
    /\ Hash!HashAssumption
    /\ ZSet!ZSetAssumption /\ ZPair!ZSetAssumption
    /\ Map!GeoAssumption /\ Geo!GeoAssumption
    /\ One!SeriesAssumption /\ Fed!SeriesAssumption /\ Ruled!SeriesAssumption

----------------------------------------------------------------------------
NoClock == now = 0
NoOrder == index = 0
NoGroups == group = 0 /\ consumer = 0 /\ pel = 0 /\ due = 0 /\ noted = 0
NoSeries == chunk = 0 /\ rule = 0 /\ stale = 0 /\ odd = 0

Init ==
    /\ type \in Types
    /\ \/ type = "log" /\ Log!Init /\ NoOrder /\ NoSeries /\ asked = 0 /\ ret = 0
       \/ type = "groups" /\ Groups!Init /\ NoOrder /\ NoSeries /\ asked = 0 /\ ret = 0
       \/ type = "hash" /\ Hash!Init /\ NoOrder /\ NoGroups /\ NoSeries
       \/ /\ \/ type = "zset" /\ ZSet!Init
             \/ type = "zpair" /\ ZPair!Init
          /\ NoClock /\ NoGroups /\ NoSeries
       \/ /\ \/ type = "map" /\ Map!Init
             \/ type = "geo" /\ Geo!Init
          /\ NoClock /\ meta = 0 /\ NoGroups /\ NoSeries
       \/ /\ \/ type = "one" /\ One!Init
             \/ type = "fed" /\ Fed!Init
             \/ type = "ruled" /\ Ruled!Init
          /\ NoClock /\ row = 0 /\ NoOrder /\ NoGroups

Next ==
    /\ \/ type = "log" /\ Log!Next /\ UNCHANGED <<order, series, asked, ret>>
       \/ type = "groups" /\ Groups!Next /\ UNCHANGED <<order, series, asked, ret>>
       \/ type = "hash" /\ Hash!Next /\ UNCHANGED <<order, groups, series>>
       \/ /\ \/ type = "zset" /\ ZSet!Next
             \/ type = "zpair" /\ ZPair!Next
          /\ UNCHANGED <<clock, groups, series>>
       \/ /\ \/ type = "map" /\ Map!Next
             \/ type = "geo" /\ Geo!Next
          /\ UNCHANGED <<clock, meta, groups, series>>
       \/ /\ \/ type = "one" /\ One!Next
             \/ type = "fed" /\ Fed!Next
             \/ type = "ruled" /\ Ruled!Next
          /\ UNCHANGED <<clock, row, order, groups>>
    /\ UNCHANGED type

Spec == Init /\ [][Next]_vars

\* Bound: what follows a state the properties make no claim about is left out,
\* and what follows when distances are stored, as if they were places.
Kept ==
    /\ type = "geo" => \A k \in {"x", "y"}, m \in 1 .. 3 :
          row[k][m] \in {Absent} \cup {Geo!G!Score(p) : p \in {At(1, 1), At(-38, -3), At(12, 5)}}
    /\ type = "groups" => noted = {}
    /\ type = "one" => stale = {}
    /\ type = "fed" => stale = {} /\ odd = {}

----------------------------------------------------------------------------
\* Every kind keeps its types.
TypeOK ==
    /\ type = "log" => Log!TypeOK
    /\ type = "groups" => Groups!TypeOK
    /\ type = "hash" => Hash!TypeOK
    /\ type = "zset" => ZSet!TypeOK
    /\ type = "zpair" => ZPair!TypeOK
    /\ type = "map" => Map!TypeOK
    /\ type = "geo" => Geo!TypeOK
    /\ type = "one" => One!TypeOK
    /\ type = "fed" => Fed!TypeOK
    /\ type = "ruled" => Ruled!TypeOK
\* The counts and bounds in a record (first, last and largest deleted id; fields
\* and their expiries; members in both orders; samples, first and last time) are
\* what the rows say.
BoundsExact ==
    /\ type = "log" => Log!BoundsExact
    /\ type = "groups" => Groups!BoundsExact
    /\ type = "hash" => Hash!BoundsExact
    /\ type = "zset" => ZSet!BoundsExact
    /\ type = "zpair" => ZPair!BoundsExact
    /\ type = "one" => One!BoundsExact
    /\ type = "fed" => Fed!BoundsExact
\* Readers, which trust the records and walk the rows, answer what the rows hold:
\* XRANGE and XLEN, HGET, ZRANGE and ZRANK, GEOSEARCH and GEOPOS, TS.RANGE.
ReadsExact ==
    /\ type = "log" => Log!ReadsExact
    /\ type = "hash" => Hash!ReadsExact
    /\ type = "zset" => ZSet!ReadsExact /\ ZSet!RanksExact
    /\ type = "map" => Map!SearchExact /\ Map!PlacesExact
    /\ type = "one" => One!ReadsExact
    /\ type = "fed" => Fed!ReadsExact
\* XREADGROUP delivers each entry to its group once and leaves none out, unless
\* a position was set by hand.
DueExact == type = "groups" => Groups!DueExact
\* A group and its consumers count the entries of the pending list exactly, and
\* every entry has an owner that exists.
PendingExact == type = "groups" => Groups!PendingExact /\ Groups!OwnersExist
\* The lag XINFO GROUPS gives covers the entries the group has yet to be given.
LagCovers == type = "groups" => Groups!LagCovers
\* XCLAIM takes as many entries off a consumer's count as it takes from it.
ClaimsCounted == type = "groups" => Groups!ClaimsCounted
\* A sample that was added is kept, under its own time.
AddedKept == [][type = "one" => One!AddedKept]_vars
\* A series fed by a rule holds what the rule makes of its source's samples.
DownstreamExact == type = "fed" => Fed!DownstreamExact
\* No series feeds itself, through however many others: a write ends.
RulesEnd == type = "ruled" => Ruled!RulesEnd
\* Each hash command does and answers what the command on plain fields with
\* expiries would.
ImplementsRedisHashes ==
    /\ type = "hash" => Hash!Hashes!Init
    /\ [][type = "hash" => [Hash!Hashes!HashNext]_(Hash!Hashes!vars)]_vars
\* Each sorted set command does and answers what the command on members with
\* scores would, and each geo command what the one on members with places would.
ImplementsRedisZSets ==
    /\ type = "zset" => ZSet!ZSets!Init
    /\ type = "zpair" => ZPair!ZSets!Init
    /\ [][ /\ type = "zset" => [ZSet!ZSets!ZNext]_(ZSet!ZSets!vars)
           /\ type = "zpair" => [ZPair!ZSets!ZNext]_(ZPair!ZSets!vars)
           /\ type = "geo" => [Geo!Geos!GNext]_(Geo!Geos!vars)]_vars
=============================================================================
