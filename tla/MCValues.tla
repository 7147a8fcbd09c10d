------------------------------ MODULE MCValues ------------------------------
(* Values that are not collections, one kind at a time: bitmaps and the    *)
(* strings used as bitmaps, the filters, HyperLogLog, JSON documents,      *)
(* search indexes, t-digests.  Each kind keeps the variables it needs and  *)
(* leaves the others at Absent.                                            *)
EXTENDS Integers, Sequences, FiniteSets, TLC

CONSTANTS
    Types,            \* the instances a run chooses from
    Absent

VARIABLES type, meta, row, held, taken, stale, hll, asked, ret

vars == <<type, meta, row, held, taken, stale, hll, asked, ret>>

\* Calls and answers tell no two states apart.
View == <<type, meta, row, held, taken, stale, hll>>

----------------------------------------------------------------------------
(* Bitmaps: bytes of two bits, segments of two bytes, integers of four     *)
(* bits.                                                                   *)
Span(unit, start, end) == [unit |-> unit, start |-> start, end |-> end, open |-> FALSE]
From(start) == [Span("byte", start, -1) EXCEPT !.open = TRUE]
Field(op, signed, width, at, value, overflow) ==
    [op |-> op, signed |-> signed, width |-> width, at |-> at, value |-> value, overflow |-> overflow]
Spans ==
    {From(0), From(1), Span("byte", -2, -1), Span("byte", -1, -2),
     Span("byte", 0, 2), Span("byte", 3, 1), Span("bit", 0, 0), Span("bit", 1, -2),
     Span("bit", 2, 5), Span("bit", -5, 6), Span("bit", 3, 9)}
FieldLists ==
    {<<Field("set", FALSE, 3, 3, 6, "sat"), Field("get", TRUE, 4, 2, 0, "wrap")>>,
     <<Field("incrby", TRUE, 2, 0, 1, "sat"), Field("incrby", FALSE, 2, 6, -1, "fail")>>,
     <<Field("incrby", TRUE, 3, 2, 3, "wrap")>>}

\* One bitmap of up to three segments, or a string.
Bitmap == INSTANCE BitmapStore WITH
    Keys <- {"x"}, ByteBits <- 2, SegBytes <- 2, Word <- 4, Offsets <- {0, 3, 4, 9},
    Strings <- {<<0, 1>>, <<1, 1, 1, 1, 0, 0>>}, Sources <- {}, Ranges <- Spans, Fields <- FieldLists

\* Two bitmaps of up to two segments.
BitOps == INSTANCE BitmapStore WITH
    Keys <- {"x", "y"}, ByteBits <- 1, SegBytes <- 2, Word <- 4, Offsets <- {0, 3},
    Strings <- {<<1>>}, Fields <- {}, Ranges <- {}, Sources <- {<<"x">>, <<"x", "y">>}

----------------------------------------------------------------------------
(* Filters.                                                                *)

PowerOf2(c) == CHOOSE n \in {1, 2, 4, 8} : c <= n /\ \A p \in {1, 2, 4, 8} : c <= p => n <= p

\* Four items of which two look the same, up to three filters in a chain.
Bloom == INSTANCE BloomStore WITH
    Keys <- {"x"}, Items <- {"a", "b", "c", "d"}, HighRange <- 4,
    High <- [a |-> 0, b |-> 1, c |-> 2, d |-> 0],
    Mask <- [a |-> {1, 2}, b |-> {1, 3}, c |-> {1, 2}, d |-> {2, 3}],
    BlocksFor <- PowerOf2, Capacities <- {1, 2}, Expansions <- {0, 1, 2},
    Batches <- {<<"a">>, <<"c", "d">>, <<"d", "b", "a">>}, MaxCapacity <- 5, MaxFilters <- 3

\* Two items with one fingerprint, two filters in the chain.
Cuckoo == INSTANCE CuckooStore WITH
    Keys <- {"x"}, Items <- {"a", "b", "c"}, Hash <- [a |-> 0, b |-> 2, c |-> 1],
    Fp <- [a |-> 1, b |-> 1, c |-> 2], Spread <- <<1, 3>>, BucketsFor <- PowerOf2, Slots <- 1,
    Capacities <- {2}, Expansions <- {0, 2}, Iterations <- {1, 3},
    Batches <- {<<"a">>, <<"b">>, <<"c", "a">>}, MaxFilters <- 2, table <- row, odd <- stale

\* Three items that share buckets of two slots, one filter.
Crowd == INSTANCE CuckooStore WITH
    Keys <- {"x"}, Items <- {"a", "b", "c"}, Hash <- [a |-> 0, b |-> 1, c |-> 1],
    Fp <- [a |-> 1, b |-> 2, c |-> 3], Spread <- <<1, 2, 1>>, BucketsFor <- PowerOf2, Slots <- 2,
    Capacities <- {2}, Expansions <- {0, 1}, Iterations <- {2},
    Batches <- {<<"a">>, <<"b">>, <<"c">>}, MaxFilters <- 1, table <- row, odd <- stale

----------------------------------------------------------------------------
(* HyperLogLog: four registers of three bits.                              *)

\* Two keys: records and PFMERGE.
Keyed == INSTANCE HllStore WITH
    Keys <- {"x", "y"}, Values <- {}, Registers <- 4, ByteBits <- 4, RegBits <- 3,
    SparseMax <- 4, ValRun <- 2, ZeroRun <- 2, SparseBytes <- 3,
    Hashes <- {<<<<0, 5>>>>, <<<<1, 7>>, <<2, 1>>>>, <<<<2, 6>>, <<3, 2>>>>},
    Sources <- {<<>>, <<"x", "y">>}

\* Two values of type HyperLogLog, merged into one another.
Value == INSTANCE HllStore WITH
    Keys <- {"x", "y"}, Values <- {"x", "y"}, Registers <- 4, ByteBits <- 4, RegBits <- 3,
    SparseMax <- 4, ValRun <- 2, ZeroRun <- 2, SparseBytes <- 3,
    Hashes <- {<<<<0, 1>>>>, <<<<1, 7>>>>, <<<<2, 1>>>>, <<<<1, 2>>>>},
    Sources <- {<<"x">>, <<"y">>}

----------------------------------------------------------------------------
(* JSON: documents of a few values.                                        *)

F(name) == <<"field", name>>
I(i) == <<"index", i>>
AnyOf == <<"any">>
Deep(seg) == <<"deep", seg>>
Some(items) == <<"slices", items>>
Both == <<"fields", <<"b", "a">>>>
Having(op, value) == <<"filter", <<"a">>, op, value>>
JNum(n) == <<"num", n>>
JTrue == <<"bool", TRUE>>
JNull == <<"null">>
JArr(s) == <<"arr", s>>
JObj(f) == <<"obj", f>>
One == JNum(1)
EmptyArr == JArr(<<>>)
Nested == JObj([a |-> One, b |-> JArr(<<One, JTrue>>)])
Rows == JArr(<<JObj([a |-> One]), JNum(2), JObj([a |-> JNum(0)]), One>>)
Steep == JArr(<<JArr(<<One, JArr(<<JNum(2)>>)>>), One>>)

Slices ==
    {<<<<"slice", <<>>, <<>>, 2>>>>, <<<<"slice", <<-2>>, <<>>, 1>>>>,
     <<<<"slice", <<>>, <<>>, -1>>>>, <<<<"slice", <<2>>, <<0>>, -2>>>>,
     <<<<"slice", <<-9>>, <<9>>, 3>>>>, <<<<"slice", <<9>>, <<-9>>, -3>>>>,
     <<<<"one", -1>>, <<"slice", <<0>>, <<-1>>, 1>>>>, <<<<"slice", <<1>>, <<1>>, 0>>>>}
Filters == {Having("exists", JNull), Having("not", JNull), Having("eq", One), Having("ge", One)}
Segments == {F("a"), F("b"), I(0), I(1), I(-1), I(-2), AnyOf, Both} \cup {Some(s) : s \in Slices} \cup Filters
OnePaths == {<<seg>> : seg \in Segments}
TwoPaths ==
    {<<F("b"), I(0)>>, <<I(0), F("a")>>, <<AnyOf, AnyOf>>, <<AnyOf, I(-1)>>, <<I(0), I(1)>>,
     <<Both, AnyOf>>, <<Having("exists", JNull), F("a")>>, <<F("a"), F("b")>>,
     <<Some(<<<<"slice", <<>>, <<>>, -1>>>>), F("a")>>}
DeepPaths == {<<Deep(F("a"))>>, <<Deep(AnyOf)>>, <<Deep(F("b")), I(0)>>, <<Deep(I(0))>>}

\* One document.
Docs == INSTANCE JsonStore WITH
    Keys <- {"x"}, MemberOrder <- <<"a", "b">>, Largest <- 2, MaxNodes <- 4,
    Sets <- {<< <<>>, v, "always">> : v \in {One, JTrue, <<"str", <<"s">>>>, EmptyArr, Nested, Rows, Steep}}
        \cup {<<p, JNull, "always">> : p \in OnePaths \cup TwoPaths \cup DeepPaths}
        \cup {<< <<>>, One, "nx">>, << <<F("a")>>, EmptyArr, "xx">>},
    Dels <- {<<>>} \cup OnePaths \cup TwoPaths \cup {<<Deep(F("a"))>>, <<Deep(F("b")), I(0)>>},
    Edits <-
        {<<p, e>> : p \in {<<>>, <<AnyOf>>, <<F("b")>>, <<I(0)>>},
                    e \in {<<"pop", -1>>, <<"pop", 0>>, <<"pop", -3>>, <<"trim", 0, 0>>, <<"trim", -2, -1>>,
                           <<"append", <<One>>>>, <<"insert", 1, <<JNull, One>>>>, <<"insert", -1, <<One>>>>}}
        \cup {<<p, e>> : p \in {<<>>, <<AnyOf>>, <<F("b"), I(0)>>, <<Deep(AnyOf)>>},
                         e \in {<<"incr", 1>>, <<"mul", 2>>, <<"strappend", <<"t">>>>, <<"toggle">>, <<"clear">>}}
        \cup {<< <<Deep(F("b"))>>, <<"append", <<One>>>>>>},
    Patches <-
        {<<p, v>> : p \in {<<>>, <<F("b")>>, <<AnyOf>>},
                    v \in {JNull, One, JObj([a |-> JNull]), JObj([b |-> JObj([a |-> JNull, b |-> One])])}},
    Triplets <- {},
    ReadPaths <- {<<>>} \cup OnePaths \cup TwoPaths \cup DeepPaths,
    Windows <- {One, JTrue} \X {0, 1, -1, -9, 9} \X {<<>>, <<0>>, <<1>>, <<-1>>, <<9>>, <<-9>>}

\* Two documents: MSET.
TwoDocs == INSTANCE JsonStore WITH
    Keys <- {"x", "y"}, MemberOrder <- <<"a", "b">>, Largest <- 2, MaxNodes <- 2,
    Sets <- {}, Dels <- {<<>>, <<F("a")>>}, Edits <- {}, Patches <- {},
    Triplets <- {<<w>> : w \in {"x", "y"} \X {<<>>, <<F("a")>>, <<F("b")>>, <<I(0)>>} \X {One, EmptyArr, JObj(<<>>)}}
        \cup {<<<<"x", <<>>, JObj(<<>>)>>, <<"x", <<F("a")>>, One>>>>,
              <<<<"x", <<F("a")>>, One>>, <<"y", <<F("b")>>, JTrue>>>>,
              <<<<"y", <<>>, EmptyArr>>, <<"x", <<I(0)>>, One>>, <<"y", <<I(0)>>, One>>>>},
    ReadPaths <- {}, Windows <- {}

----------------------------------------------------------------------------
(* Search.                                                                 *)

\* Digits lie before letters.
Text(words) == [words |-> words, tags |-> {}, num |-> <<>>, at |-> <<>>, str |-> 10]
Tagged(tags) == [words |-> <<>>, tags |-> tags, num |-> <<>>, at |-> <<>>, str |-> 10]
Number(n) == [words |-> <<>>, tags |-> {}, num |-> <<n>>, at |-> <<>>, str |-> n]
Place(p) == [words |-> <<>>, tags |-> {}, num |-> <<>>, at |-> <<p>>, str |-> p]
Later(text) == [text EXCEPT !.str = @ + 1]

Term(fields, how, word) == [is |-> "term", fields |-> fields, how |-> how, word |-> word]
Phrase(words, slop, inOrder) ==
    [is |-> "phrase", fields |-> {}, words |-> words, slop |-> slop, inOrder |-> inOrder]
TagQuery(tags, begins) == [is |-> "tag", field |-> "g", tags |-> tags, begins |-> begins]
Between(lo, hi, loIn, hiIn) ==
    [is |-> "range", field |-> "n", lo |-> lo, hi |-> hi, loIn |-> loIn, hiIn |-> hiIn]
Circle(at, radius) == [is |-> "geo", field |-> "p", at |-> at, radius |-> radius]
Knn(at, k) == [is |-> "knn", field |-> "v", at |-> at, k |-> k]
Around(at, radius) == [is |-> "radius", field |-> "v", at |-> at, radius |-> radius]
AnyDoc == [is |-> "any"]
AllOf(qs) == [is |-> "and", of |-> qs]
OneOf(qs) == [is |-> "or", of |-> qs]
Other(q) == [is |-> "not", of |-> <<q>>]
Options(inkeys, filters, circles, sortby, limit) ==
    [inkeys |-> inkeys, filters |-> filters, circles |-> circles, sortby |-> sortby, limit |-> limit]

\* Two names and their aliases; suggestions.
Manager == INSTANCE SearchStore WITH
    M <- 2, EfConstruction <- 2, EfRuntime <- 1,
    Names <- {"i", "j", "k"}, Schemas <- {<<1, <<<<"t", "text">>>>>>},
    Documents <- {<<1, [t |-> Text(<<"a">>)], <<>>>>}, Levels <- {0},
    Begins <- {<<"a", "a">>, <<"a", "ab">>, <<"ab", "ab">>}, Alike <- {<<"ab", "a">>},
    Epsilon <- 1, DefaultLimit <- 2, Queries <- <<AnyDoc, Term({}, "prefix", "a")>>, Searches <- <<>>,
    Suggested <- {<<"a", 1>>, <<"ab", 1>>}, MaxIds <- 1, MaxScore <- 2,
    indexes <- row, aliases <- held, suggestions <- taken

\* One index of texts, tags, numbers and places.
AnyText == {[t |-> Text(<<"a", "b", "b", "c">>)], [t |-> Text(<<"a", "b", "a", "c">>), u |-> Text(<<"ab">>), n |-> Later(Text(<<"b">>))],
            [t |-> Text(<<"c", "ab">>), g |-> Tagged({"a", "ab"}), n |-> Number(1)],
            [g |-> Tagged({"a"}), n |-> Number(2), p |-> Place(1)], [n |-> Text(<<"a">>), p |-> Place(3)]}
Texts == INSTANCE SearchStore WITH
    M <- 2, EfConstruction <- 2, EfRuntime <- 1,
    Names <- {"i"},
    Schemas <- {<<1, <<<<"t", "text">>, <<"u", "text">>, <<"g", "tag">>, <<"n", "num">>, <<"p", "geo">>>>>>},
    Documents <- {<<id, d, <<>>>> : id \in {1, 2}, d \in AnyText} \cup {<<3, d, <<2>>>> : d \in AnyText}, Levels <- {0},
    Begins <- {<<"a", "a">>, <<"a", "ab">>, <<"ab", "ab">>}, Alike <- {<<"b", "b">>, <<"b", "ab">>, <<"b", "a">>},
    Epsilon <- 1, DefaultLimit <- 2,
    Queries <-
        <<AnyDoc, Term({}, "exact", "ab"), Term({"t"}, "exact", "ab"), Term({}, "prefix", "a"), Term({"u"}, "fuzzy", "b"),
          Phrase(<<"b", "c">>, 0, TRUE), Phrase(<<"a", "c">>, 1, TRUE), Phrase(<<"a", "b", "c">>, 0, TRUE),
          Phrase(<<"a", "b", "c">>, 1, TRUE), Phrase(<<"c", "a">>, 1, FALSE), Phrase(<<>>, 0, TRUE),
          TagQuery({"ab"}, {}), TagQuery({}, {"a"}), Between(1, 2, TRUE, TRUE), Between(1, 2, FALSE, TRUE),
          Between(0, 2, TRUE, FALSE), Circle(0, 1), Circle(2, 1),
          AllOf(<<TagQuery({"a"}, {}), Other(Between(1, 1, TRUE, TRUE))>>), AllOf(<<>>),
          OneOf(<<Term({}, "exact", "ab"), Circle(0, 1)>>), Other(Phrase(<<"a", "b">>, 0, TRUE))>>,
    Searches <-
        <<<<AnyDoc, Options({}, {}, {}, <<>>, <<>>)>>, <<AnyDoc, Options({}, {}, {}, <<"n", "asc">>, <<0, 3>>)>>,
          <<AnyDoc, Options({}, {}, {}, <<"n", "asc">>, <<1, 2>>)>>,
          <<AnyDoc, Options({}, {}, {}, <<"n", "desc">>, <<0, 2>>)>>,
          <<AnyDoc, Options({1, 3}, {Between(1, 2, TRUE, TRUE)}, {}, <<>>, <<0, 1>>)>>,
          <<Other(TagQuery({"ab"}, {})), Options({}, {}, {Circle(2, 1)}, <<>>, <<0, 5>>)>>>>,
    Suggested <- {}, MaxIds <- 1, MaxScore <- 1,
    indexes <- row, aliases <- held, suggestions <- taken

\* One index of vectors: four points no two of which are equally far from a
\* third, each in a document of its own.
PointOf == <<0, 1, 4, 9>>
Vectors == INSTANCE SearchStore WITH
    M <- 2, EfConstruction <- 2, EfRuntime <- 1,
    Names <- {"i"}, Schemas <- {<<1, <<<<"g", "tag">>, <<"v", "vec">>>>>>},
    Documents <- {<<id, [g |-> Tagged({IF id = 1 THEN "a" ELSE "b"}), v |-> Place(PointOf[id])], <<>>>> : id \in 1 .. 4},
    Levels <- {0, 1}, Begins <- {}, Alike <- {}, Epsilon <- 25, DefaultLimit <- 2,
    Queries <-
        <<Knn(0, 1), Knn(9, 2), Knn(3, 3), Knn(3, 0), Around(0, 4), Around(9, 4), AllOf(<<Knn(0, 2), TagQuery({"b"}, {})>>),
          AllOf(<<Knn(9, 1)>>)>>,
    Searches <- <<>>, Suggested <- {}, MaxIds <- 5, MaxScore <- 1,
    indexes <- row, aliases <- held, suggestions <- taken

----------------------------------------------------------------------------
(* TDigest: the scale function of deltas 4 and 6, in hundredths of a       *)
(* weight, for up to six observations.                                     *)
LimitsOf4 ==
    <<<<50>>, <<100, 200>>, <<150, 291, 291>>, <<200, 373, 400, 373>>,
      <<250, 450, 495, 495, 450>>, <<300, 524, 583, 600, 583, 524>>>>
LimitsOf6 ==
    <<<<25>>, <<50, 187>>, <<75, 247, 297>>, <<100, 300, 373, 400>>,
      <<125, 348, 437, 487, 498>>, <<150, 394, 495, 560, 595, 594>>>>
K1(delta, total, sofar) == (IF delta = 4 THEN LimitsOf4 ELSE LimitsOf6)[total][sofar + 1]
CapacityFor(compression) == IF compression = 6 THEN 3 ELSE 2
Fractions == {<<0, 1>>, <<1, 5>>, <<1, 3>>, <<1, 2>>, <<2, 3>>, <<5, 6>>, <<1, 1>>}

\* One digest of up to six values.
Digest == INSTANCE TDigestStore WITH
    MinDelta <- 4, DefaultCompression <- 6, Capacity <- CapacityFor, WeightLimit <- K1, Huge <- 100,
    NotNumber <- 50, Keys <- {"x"}, Compressions <- {0, 2}, Batches <- {<<0>>, <<4>>, <<1, 50, 9>>},
    Merges <- {<<"x", "x">>}, Probes <- -1 .. 10, Quantiles <- Fractions, MaxSeen <- 6,
    digest <- row, seen <- held, others <- taken

\* Two digests merged into one another.
Digests == INSTANCE TDigestStore WITH
    MinDelta <- 4, DefaultCompression <- 6, Capacity <- CapacityFor, WeightLimit <- K1, Huge <- 100,
    NotNumber <- 50, Keys <- {"x", "y"}, Compressions <- {4}, Batches <- {<<2>>, <<3, 1>>},
    Merges <- {<<"x">>, <<"y", "x">>}, Probes <- -1 .. 4, Quantiles <- Fractions, MaxSeen <- 3,
    digest <- row, seen <- held, others <- taken

----------------------------------------------------------------------------
BitmapTypes == {"bitmap", "bitops"}
FilterTypes == {"bloom", "cuckoo", "crowd"}
HllTypes == {"keyed", "value"}
JsonTypes == {"docs", "twodocs"}
SearchTypes == {"manager", "texts", "vectors"}
DigestTypes == {"digest", "digests"}

ASSUME Assumptions ==
    /\ Types \subseteq BitmapTypes \cup FilterTypes \cup HllTypes \cup JsonTypes \cup SearchTypes
                  \cup DigestTypes
    /\ Bitmap!BitmapAssumption /\ BitOps!BitmapAssumption
    /\ Bloom!BloomAssumption /\ Cuckoo!CuckooAssumption /\ Crowd!CuckooAssumption
    /\ Keyed!HllAssumption /\ Value!HllAssumption
    /\ Docs!JsonAssumption /\ TwoDocs!JsonAssumption
    /\ Manager!SearchAssumption /\ Texts!SearchAssumption /\ Vectors!SearchAssumption
    /\ Digest!TDigestAssumption /\ Digests!TDigestAssumption

Init ==
    /\ type \in Types
    /\ type \in BitmapTypes => held = Absent /\ taken = Absent /\ hll = Absent
    /\ type \in FilterTypes => hll = Absent /\ asked = Absent
    /\ type \in {"cuckoo", "crowd"} => taken = Absent
    /\ type \in HllTypes => meta = Absent /\ row = Absent /\ held = Absent /\ taken = Absent
                            /\ stale = Absent
    /\ type \in JsonTypes => held = Absent /\ taken = Absent /\ stale = Absent /\ hll = Absent
    /\ type \in SearchTypes \cup DigestTypes => meta = Absent /\ stale = Absent /\ hll = Absent /\ asked = Absent
                                              /\ ret = Absent
    /\ CASE type = "bitmap" -> Bitmap!Init
         [] type = "bitops" -> BitOps!Init
         [] type = "bloom" -> Bloom!Init
         [] type = "cuckoo" -> Cuckoo!Init
         [] type = "crowd" -> Crowd!Init
         [] type = "keyed" -> Keyed!Init
         [] type = "value" -> Value!Init
         [] type = "docs" -> Docs!Init
         [] type = "twodocs" -> TwoDocs!Init
         [] type \in SearchTypes -> Manager!Init
         [] type = "digest" -> Digest!Init
         [] type = "digests" -> Digests!Init

Next ==
    \/ type = "bitmap" /\ Bitmap!Next /\ UNCHANGED <<type, held, taken, hll>>
    \/ type = "bitops" /\ BitOps!Next /\ UNCHANGED <<type, held, taken, hll>>
    \/ type = "bloom" /\ Bloom!Next /\ UNCHANGED <<type, hll, asked>>
    \/ type = "cuckoo" /\ Cuckoo!Next /\ UNCHANGED <<type, taken, hll, asked>>
    \/ type = "crowd" /\ Crowd!Next /\ UNCHANGED <<type, taken, hll, asked>>
    \/ type = "keyed" /\ Keyed!Next /\ UNCHANGED <<type, meta, row, held, taken, stale>>
    \/ type = "value" /\ Value!Next /\ UNCHANGED <<type, meta, row, held, taken, stale>>
    \/ type = "docs" /\ Docs!Next /\ UNCHANGED <<type, held, taken, stale, hll>>
    \/ type = "twodocs" /\ TwoDocs!Next /\ UNCHANGED <<type, held, taken, stale, hll>>
    \/ type = "manager" /\ Manager!Next /\ UNCHANGED <<type, meta, stale, hll, asked, ret>>
    \/ type = "texts" /\ Texts!Next /\ UNCHANGED <<type, meta, stale, hll, asked, ret>>
    \/ type = "vectors" /\ Vectors!Next /\ UNCHANGED <<type, meta, stale, hll, asked, ret>>
    \/ type = "digest" /\ Digest!Next /\ UNCHANGED <<type, meta, stale, hll, asked, ret>>
    \/ type = "digests" /\ Digests!Next /\ UNCHANGED <<type, meta, stale, hll, asked, ret>>

Spec == Init /\ [][Next]_vars

\* Bound: what follows a state the properties make no claim about is left out.
Kept ==
    /\ type = "bitmap" => Bitmap!Kept
    /\ type = "bitops" => BitOps!Kept
    /\ type = "bloom" => Bloom!Kept
    /\ type = "cuckoo" => Cuckoo!Kept
    /\ type = "crowd" => Crowd!Kept
    /\ type = "docs" => Docs!Kept
    /\ type = "twodocs" => TwoDocs!Kept

----------------------------------------------------------------------------
\* Whole bytes in each segment and none past the size; the pages, counters and
\* encodings of the other kinds (see TypeOK of each module).
TypeOK ==
    /\ type = "bitmap" => Bitmap!TypeOK
    /\ type = "bitops" => BitOps!TypeOK
    /\ type = "bloom" => Bloom!TypeOK
    /\ type = "cuckoo" => Cuckoo!TypeOK
    /\ type = "crowd" => Crowd!TypeOK
    /\ type = "keyed" => Keyed!TypeOK
    /\ type = "value" => Value!TypeOK
    /\ type = "docs" => Docs!TypeOK
    /\ type = "twodocs" => TwoDocs!TypeOK
    /\ type = "manager" => Manager!TypeOK
    /\ type = "texts" => Texts!TypeOK
    /\ type = "vectors" => Vectors!TypeOK
    /\ type = "digest" => Digest!TypeOK
    /\ type = "digests" => Digests!TypeOK

\* The readers answer what the stored bits or registers say, whichever way they
\* are stored: BITCOUNT, BITPOS and GETBIT; the histogram of a sparse HLL.
\* JSON.GET and JSON.ARRINDEX answer what the places of a path hold; a search by
\* vector the nearest of what the graph leads to; a t-digest its extremes, and
\* ranks and quantiles exactly while no two values share a centroid.
ReadsExact ==
    /\ type = "bitmap" => Bitmap!ReadsExact
    /\ type = "keyed" => Keyed!ReadsExact
    /\ type = "value" => Value!ReadsExact
    /\ type = "docs" => Docs!ReadsExact
    /\ type = "vectors" => Vectors!ReadsExact
    /\ type = "digest" => Digest!ReadsExact
    /\ type = "digests" => Digests!ReadsExact

\* What BF.ADD and CF.ADD said was added is found, through evictions, undone
\* insertions and chained filters.
NoFalseNegatives ==
    /\ type = "bloom" => Bloom!NoFalseNegatives
    /\ type = "cuckoo" => Cuckoo!NoFalseNegatives
    /\ type = "crowd" => Crowd!NoFalseNegatives

\* A query finds the documents it describes, whatever was indexed, indexed again
\* and deleted before, and a search answers the page asked for, in its order; an
\* alias leads to an index.
SearchExact ==
    /\ type = "manager" => Manager!SearchExact
    /\ type = "texts" => Texts!SearchExact
    /\ type = "vectors" => Vectors!SearchExact

\* The size of a cuckoo filter is the number of fingerprints in its pages, and
\* no filter of a Bloom chain holds more items than it was made for; a t-digest
\* stands for every value it was given, once.
SizeExact ==
    /\ type = "bloom" => Bloom!LoadsBounded
    /\ type = "cuckoo" => Cuckoo!SizeExact
    /\ type = "crowd" => Crowd!SizeExact
    /\ type = "digest" => Digest!SizeExact
    /\ type = "digests" => Digests!SizeExact

\* BitmapStore implements the commands on bits of RedisBitmaps, whichever way
\* the bits are stored; HllStore the registers of RedisHlls; JsonStore the
\* documents of RedisJson: what a command does along a path, child after child,
\* is what it promises of all the places at once.
ImplementsRedisValues ==
    /\ type = "bitmap" => Bitmap!Bitmaps!Init
    /\ type = "bitops" => BitOps!Bitmaps!Init
    /\ type = "keyed" => Keyed!Hlls!Init
    /\ type = "value" => Value!Hlls!Init
    /\ type = "docs" => Docs!Json!Init
    /\ type = "twodocs" => TwoDocs!Json!Init
    /\ [][ /\ type = "bitmap" /\ Kept' => [Bitmap!Bitmaps!Next]_(Bitmap!Bitmaps!vars)
           /\ type = "bitops" /\ Kept' => [BitOps!Bitmaps!Next]_(BitOps!Bitmaps!vars)
           /\ type = "keyed" => [Keyed!Hlls!Next]_(Keyed!Hlls!vars)
           /\ type = "value" => [Value!Hlls!Next]_(Value!Hlls!vars)
           /\ type = "docs" => [Docs!Json!Next]_(Docs!Json!vars)
           /\ type = "twodocs" => [TwoDocs!Json!Next]_(TwoDocs!Json!vars)]_vars
=============================================================================
