--------------------------- MODULE MCCollections ---------------------------
(* The collections, one at a time: the keys of a behaviour hold values of  *)
(* one type, which is chosen at the start.  Beside them, strings with the  *)
(* other types in their way, keys of any type about their expiry, the      *)
(* physical rows of keys of several databases, and the glob patterns.      *)
EXTENDS Integers, Sequences, FiniteSets, TLC

CONSTANTS ka, kb, sa, sb, p1, p2, Absent

VARIABLES
    type, meta, row, scan, item, now, str, sub, other, batch, data, held, opened, page, pattern,
    asked, reply, ret

sets == <<row, scan>>
lists == <<item>>
records == <<now, str, sub>>
writes == <<other, batch, reply>>
bytes == <<data, held, opened, page>>
vars == <<type, meta, sets, lists, records, writes, bytes, pattern, asked, ret>>
View == <<type, meta, sets, lists, records, other, batch, bytes, pattern, IF type = "expiry" THEN ret ELSE 0>>

Keys == {ka, kb}

\* A set with a client that pages through it, and the algebra of two.
Set == INSTANCE SetStore WITH
    Keys <- {ka}, Members <- {1, 2, 3}, Batches <- {<<1>>, <<2>>, <<3>>, <<1, 3>>, <<2, 2>>},
    Counts <- {1, 2}, Operands <- {<<ka>>}, Spans <- {}, Ranks <- {}, Scanned <- {ka}, PageSize <- 1
SetPair == INSTANCE SetStore WITH
    Members <- {1, 2}, Batches <- {<<1>>, <<2>>, <<1, 2>>, <<2, 2>>}, Counts <- {1},
    Operands <- {<<ka>>, <<ka, kb>>, <<kb, ka>>}, Spans <- {}, Ranks <- {}, Scanned <- {}, PageSize <- 1

Span(min, minex, max, maxex) == [min |-> min, minex |-> minex, max |-> max, maxex |-> maxex]
Spans == {Span(0, FALSE, 3, FALSE), Span(1, TRUE, 3, FALSE), Span(0, FALSE, 2, TRUE),
          Span(1, TRUE, 2, TRUE), Span(3, TRUE, 3, FALSE), Span(0, FALSE, 0, TRUE)}

SInt == INSTANCE SortedIntStore WITH
    Keys <- {ka}, Members <- 0 .. 3, MaxId <- 3, Batches <- {<<0>>, <<1>>, <<2, 3>>, <<3, 3>>},
    Counts <- {}, Operands <- {}, Spans <- Spans, Ranks <- {<<0, 0>>, <<-2, -1>>, <<0, -1>>, <<1, 5>>},
    Scanned <- {ka}, PageSize <- 1

\* One list of up to five elements in six indexes, so that every window wraps
\* and an insertion may move its head.
List == INSTANCE ListStore WITH
    Keys <- {ka}, Values <- {1, 2}, Pushes <- {<<>>, <<2>>, <<1, 2>>}, Counts <- {1, 2},
    RemCounts <- {-1, 0, 1}, Indexes <- {-2, -1, 0, 1}, Width <- 6, MaxLen <- 5

\* Two short lists and the moves between them.
Pair == INSTANCE ListStore WITH
    Keys <- Keys, Values <- {1, 2}, Pushes <- {<<1>>, <<2>>}, Counts <- {1},
    RemCounts <- {0}, Indexes <- {0, 1}, Width <- 3, MaxLen <- 2

\* One key of any type, and all expiries about the readings of the clock.
Expiry == INSTANCE Keyspace WITH
    Keys <- {ka}, Members <- {1}, Values <- {1}, Expiries <- 0 .. 3, CopyNx <- BOOLEAN,
    MaxNow <- 2, Tags <- <<"set", "sortedint">>

\* A string of up to two bytes under every option, and a clock that ticks once,
\* between a read and its write too.
Opt(cond, cmp, get, keep, exp) ==
    [cond |-> cond, cmp |-> cmp, get |-> get, keep |-> keep, exp |-> exp]
String == INSTANCE Strings WITH
    Procs <- {p1}, Keys <- {sa}, Values <- {<<"a">>, <<"1">>}, Expiries <- {0, 1},
    SetOptions <-
        {Opt("none", <<>>, FALSE, FALSE, 0), Opt("none", <<>>, FALSE, FALSE, 1),
         Opt("none", <<>>, FALSE, TRUE, 0), Opt("none", <<>>, TRUE, FALSE, 0),
         Opt("nx", <<>>, FALSE, FALSE, 1), Opt("nx", <<>>, TRUE, FALSE, 0),
         Opt("xx", <<>>, FALSE, TRUE, 0), Opt("ifeq", <<"a">>, FALSE, FALSE, 0),
         Opt("ifne", <<"a">>, TRUE, FALSE, 0)},
    DelOptions <-
        {<<>>, <<Opt("ifeq", <<"a">>, FALSE, FALSE, 0)>>,
         <<Opt("ifne", <<"a">>, FALSE, FALSE, 0), Opt("ifeq", <<"1">>, FALSE, FALSE, 0)>>},
    Pairs <- {}, Increments <- {-1, 1}, Offsets <- {0, 1}, Ranges <- {<<0, -1>>, <<-1, 0>>, <<1, 5>>},
    MaxNow <- 1, MaxLen <- 2, MaxInt <- 1, Nul <- "nul"

\* Two strings, and the commands that write both.
StringPair == INSTANCE Strings WITH
    Procs <- {p1}, Keys <- {sa, sb}, Values <- {<<"a">>, <<"1">>}, Expiries <- {0, 1},
    SetOptions <- {Opt("none", <<>>, FALSE, FALSE, 0), Opt("nx", <<>>, FALSE, FALSE, 1),
                   Opt("xx", <<>>, FALSE, TRUE, 0)},
    DelOptions <- {<<>>},
    Pairs <- {<< <<k, <<"1">> >>, <<l, <<"a">> >> >> : k, l \in {sa, sb}},
    Increments <- {}, Offsets <- {}, Ranges <- {},
    MaxNow <- 1, MaxLen <- 2, MaxInt <- 1, Nul <- "nul"

\* Two threads on one string of one byte, and no clock.
Race == INSTANCE Strings WITH
    Procs <- {p1, p2}, Keys <- {sa}, Values <- {<<"a">>, <<"1">>}, Expiries <- {0},
    SetOptions <- {Opt("none", <<>>, FALSE, FALSE, 0)}, DelOptions <- {}, Pairs <- {},
    Increments <- {}, Offsets <- {}, Ranges <- {},
    MaxNow <- 0, MaxLen <- 2, MaxInt <- 1, Nul <- "nul"

\* The rows of three databases whose numbers take one byte or two, under keys
\* and subkeys one of which could be taken for the other.
Rows == INSTANCE KeyScan WITH
    Scopes <- {<<0, 0>>, <<0, 128>>, <<128, 0>>}, UserKeys <- {<<>>, <<255>>}, Subs <- {<<1, 255>>},
    Composite <- {"set"}, Limits <- {}, Marks <- {"unset", "ahead"}, MaxRows <- 2

\* A client that walks one database by pages of one key or two.
Walk == INSTANCE KeyScan WITH
    Scopes <- {<<0, 1>>}, UserKeys <- {<<1>>, <<2>>, <<3>>}, Subs <- {<<1>>},
    Composite <- {"list", "set"}, Limits <- {1, 2}, Marks <- {"unset"}, MaxRows <- 3

\* Patterns of the symbols * ? [ ] \ ^ - a b, longer where a class or a star begins.
Patterns == INSTANCE Glob WITH
    Symbols <- {42, 63, 91, 93, 92, 94, 45, 97, 98},
    Texts <- UNION {[1 .. n -> {97, 98}] : n \in 0 .. 3}
                \cup {<<42>>, <<45>>, <<92>>, <<93>>, <<94>>, <<92, 97>>, <<93, 97>>},
    Seeds <- {<<91, 97>>, <<91, 98>>, <<91, 92>>, <<91, 94>>, <<42, 97>>, <<97, 42>>}

\* The two strings take the same part in everything.
Symmetry == Permutations({sa, sb})

ASSUME Assumptions ==
    /\ Set!SetAssumption /\ SetPair!SetAssumption /\ SInt!SortedIntAssumption
    /\ List!ListAssumption /\ Pair!ListAssumption
    /\ String!StringsAssumption /\ StringPair!StringsAssumption /\ Race!StringsAssumption
    /\ Rows!KeyScanAssumption /\ Walk!KeyScanAssumption

----------------------------------------------------------------------------
NoSets == row = 0 /\ scan = 0
NoLists == item = 0
NoRecords == now = 0 /\ str = 0 /\ sub = 0
NoWrites == other = 0 /\ batch = 0 /\ reply = 0
NoBytes == data = 0 /\ held = 0 /\ opened = 0 /\ page = 0

Init ==
    \/ /\ \/ type = "set" /\ Set!Init
          \/ type = "setpair" /\ SetPair!Init
          \/ type = "sortedint" /\ SInt!Init
       /\ NoLists /\ NoRecords /\ NoWrites /\ NoBytes /\ pattern = 0
    \/ /\ \/ type = "list" /\ List!Init
          \/ type = "pair" /\ Pair!Init
       /\ NoSets /\ NoRecords /\ NoWrites /\ NoBytes /\ pattern = 0
    \/ /\ type = "expiry" /\ Expiry!Init
       /\ NoSets /\ NoLists /\ NoWrites /\ NoBytes /\ pattern = 0 /\ asked = 0
    \/ /\ \/ type = "string" /\ String!Init
          \/ type = "stringpair" /\ StringPair!Init
       /\ NoSets /\ NoLists /\ NoBytes /\ pattern = 0 /\ meta = 0 /\ sub = 0 /\ ret = 0
    \/ /\ \/ type = "rows" /\ Rows!Init
          \/ type = "walk" /\ Walk!Init
       /\ NoSets /\ NoLists /\ NoRecords /\ NoWrites /\ pattern = 0 /\ asked = 0 /\ ret = 0
    \/ /\ type = "glob" /\ Patterns!Init
       /\ NoSets /\ NoLists /\ NoRecords /\ NoWrites /\ NoBytes /\ meta = 0 /\ asked = 0 /\ ret = 0

Next ==
    /\ \/ /\ \/ type = "set" /\ Set!Next
             \/ type = "setpair" /\ SetPair!Next
             \/ type = "sortedint" /\ SInt!Next
          /\ UNCHANGED <<lists, records, writes, bytes, pattern>>
       \/ /\ \/ type = "list" /\ List!Next
             \/ type = "pair" /\ Pair!Next
          /\ UNCHANGED <<sets, records, writes, bytes, pattern>>
       \/ /\ type = "expiry" /\ Expiry!Next
          /\ UNCHANGED <<sets, lists, writes, bytes, pattern, asked>>
       \/ /\ \/ type = "string" /\ String!Next
             \/ type = "stringpair" /\ StringPair!Next
          /\ UNCHANGED <<meta, sets, lists, bytes, pattern, sub, ret>>
       \/ /\ \/ type = "rows" /\ Rows!Next
             \/ type = "walk" /\ Walk!Next
          /\ UNCHANGED <<sets, lists, records, writes, pattern, asked, ret>>
       \/ /\ type = "glob" /\ Patterns!Next
          /\ UNCHANGED <<meta, sets, lists, records, writes, bytes, asked, ret>>
    /\ UNCHANGED type

Spec == Init /\ [][Next]_vars

\* The race, by itself.
RaceInit ==
    /\ type = "race" /\ Race!Init
    /\ NoSets /\ NoLists /\ NoBytes /\ pattern = 0 /\ meta = 0 /\ sub = 0 /\ ret = 0
RaceNext ==
    /\ Race!Next
    /\ UNCHANGED <<type, meta, sets, lists, bytes, pattern, sub, ret>>
RaceSpec == RaceInit /\ [][RaceNext]_vars

----------------------------------------------------------------------------
\* Every kind keeps its types; that of each module says more of its records.
TypeOK ==
    /\ type = "set" => Set!TypeOK
    /\ type = "setpair" => SetPair!TypeOK
    /\ type = "sortedint" => SInt!TypeOK
    /\ type = "list" => List!TypeOK
    /\ type = "string" => String!TypeOK
    /\ type = "stringpair" => StringPair!TypeOK
    /\ type = "rows" => Rows!TypeOK
    /\ type = "walk" => Walk!TypeOK
\* The size kept beside a collection is the number of its rows, and a list's
\* items are those between head and tail: what every command that writes rows
\* has to keep up in the record it writes with them.
SizeExact ==
    /\ type = "set" => Set!SizeExact
    /\ type = "setpair" => SetPair!SizeExact
    /\ type = "sortedint" => SInt!SizeExact
    /\ type = "list" => List!WindowExact
    /\ type = "pair" => Pair!WindowExact
\* A client that pages through a set, sorted integers or the keys of a database
\* (SSCAN, SISCAN, SCAN) has met, at the end, all that was there throughout.
ScanComplete ==
    /\ type = "set" => Set!ScanComplete
    /\ type = "sortedint" => SInt!ScanComplete
    /\ type = "walk" => Walk!ScanComplete
\* Ranks and spans of sorted integers, LRANGE and LPOS of lists, and KEYS,
\* DBSIZE, RANDOMKEY and the catalog's listings answer what the rows say.
ReadsExact ==
    /\ type = "sortedint" => SInt!ReadsExact
    /\ type = "list" => List!ReadsExact
    /\ type = "rows" => Rows!ReadsExact
\* Every physical row is found under its own scope, type and key, and under no
\* other, whatever the bytes of the neighbours' keys (key_composer).
RowsDecode == type = "rows" => Rows!RowsDecode
\* matches_glob_bytes matches what the pattern describes.
GlobExact == type = "glob" => Patterns!GlobExact
\* At most one of a string and a value of another type is live at a key, though
\* SET looks at the other types only when its own row was not live.
OneLive ==
    /\ type = "string" => String!OneLive
    /\ type = "stringpair" => StringPair!OneLive
\* Each set and sorted integer command does and answers what the plain
\* operation on sets would, SMOVE and the *STORE commands included.
ImplementsRedisSets ==
    /\ type = "set" => Set!Sets!Init
    /\ type = "setpair" => SetPair!Sets!Init
    /\ type = "sortedint" => SInt!Sets!Init
    /\ [][ /\ type = "set" => [Set!Sets!SetNext]_(Set!Sets!vars)
           /\ type = "setpair" => [SetPair!Sets!SetNext]_(SetPair!Sets!vars)
           /\ type = "sortedint" => [SInt!Sets!IntNext]_(SInt!Sets!vars)]_vars
\* Each list command does and answers what the plain operation on sequences
\* would, wherever the window lies and on whichever side it shifts.
ImplementsRedisLists ==
    /\ type = "list" => List!Lists!Init
    /\ type = "pair" => Pair!Lists!Init
    /\ [][ /\ type = "list" => [List!Lists!Next]_(List!Lists!vars)
           /\ type = "pair" => [Pair!Lists!Next]_(Pair!Lists!vars)]_vars
\* Each string command, read and write taken together, does and answers what
\* the command on plain strings with expiries would.
ImplementsRedisStrings ==
    /\ type = "string" => String!Abstract!Init
    /\ type = "stringpair" => StringPair!Abstract!Init
    /\ [][ /\ type = "string" => [String!Abstract!Next]_(String!Abstract!vars)
           /\ type = "stringpair" => [StringPair!Abstract!Next]_(StringPair!Abstract!vars)]_vars
\* Each generic command about expiries does what was asked of it, at the
\* boundary millisecond too.
CallsExact == [][type = "expiry" => Expiry!CallExact]_vars
\* What a CAS or a CAD replaces is the string it was told to expect.
CasAtomic == Race!CasAtomic
=============================================================================
