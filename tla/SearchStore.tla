----------------------------- MODULE SearchStore -----------------------------
(***************************************************************************)
(* The indexes of embed/src/api/search: names and aliases, and for each    *)
(* index the documents with the maps that find them by word, tag, number,  *)
(* place and vector.  All of it lives in memory, behind one owner: a step  *)
(* is a call.  Queries are taken as parsed; a fuzzy word is one of Alike.  *)
(*                                                                         *)
(* A document is a function from field names to texts, and a text a record *)
(* of what the tokenizers and parsers make of it: its words, its tags, the *)
(* number and the point it reads as, each a sequence of at most one, and   *)
(* `str`, its place among the texts in byte order.  The vectors of a field *)
(* have its dimension; a place is a point as well.                         *)
(***************************************************************************)
EXTENDS Integers, Sequences, FiniteSets

LOCAL INSTANCE SequencesExt
LOCAL INSTANCE FiniteSetsExt

CONSTANTS
    Names,        \* of indexes and aliases
    Schemas,      \* <<default score, <<field, kind>> ...>>: the fields that are indexed
    Documents,    \* <<id, document, score>>, the score of at most one element; an id is a number
    Levels,       \* the levels a vector's node is given
    Begins,       \* <<word, longer word>>, a word with itself included
    Alike,        \* <<word, word>> no further apart than the edits allowed
    Epsilon,      \* the slack of a vector range, in hundredths
    DefaultLimit, \* results of a search without LIMIT
    Queries,      \* the queries that are read back
    Searches,     \* and those with filters: <<query, options>>
    Suggested,    \* <<string, score>> of FT.SUGADD
    MaxIds,       \* bound on the nodes a graph ever has
    M,            \* neighbours of a node on a layer, twice as many on layer 0
    EfConstruction, EfRuntime,   \* widths of a search that links a node, that answers
    MaxScore      \* bound on the score of a suggestion

----------------------------------------------------------------------------
(* The graph of hnsw.rs, by which a vector field is searched: nodes on     *)
(* layers, each with a list of neighbours per layer, and an entry point on *)
(* the highest layer.  A vector is a point of a line and no two vectors    *)
(* are equally far from a third, so that no order among equals is left to  *)
(* the heaps.  A graph is a record: nodes, a function from ids; of, the id *)
(* of each document; entry, 0 for none; top, the entry's layer; next, the  *)
(* next id.                                                                *)

EmptyGraph == [nodes |-> <<>>, of |-> <<>>, entry |-> 0, top |-> 0, next |-> 1]

Without(f, x) == [i \in DOMAIN f \ {x} |-> f[i]]
Extended(f, x, v) == [i \in DOMAIN f \cup {x} |-> IF i = x THEN v ELSE f[i]]
MMax(layer) == IF layer = 0 THEN 2 * M ELSE M

Ids(g) == DOMAIN g.nodes
Dist(p, q) == IF p < q THEN q - p ELSE p - q
Far(g, q, id) == Dist(q, g.nodes[id].at)

\* The neighbours on a layer, those of deleted nodes included.
Listed(g, id, layer) == IF layer <= g.nodes[id].level THEN g.nodes[id].near[layer] ELSE <<>>
Linked(g, id, layer) == ToSet(Listed(g, id, layer)) \cap Ids(g)

Nearest(g, q, S) == CHOOSE id \in S : \A i \in S : Far(g, q, id) <= Far(g, q, i)
Furthest(g, q, S) == CHOOSE id \in S : \A i \in S : Far(g, q, id) >= Far(g, q, i)

\* A set of nodes by their distance; the first n of a list.
ByDistance(g, q, S) == SetToSortSeq(S, LAMBDA i, j : Far(g, q, i) < Far(g, q, j))
Take(n, s) == IF Len(s) <= n THEN s ELSE SubSeq(s, 1, n)

----------------------------------------------------------------------------
(* Searching.                                                              *)

\* On one layer, from node to closer node.
RECURSIVE Greedy(_, _, _, _)
Greedy(g, q, layer, id) ==
    LET closer == {n \in Linked(g, id, layer) : Far(g, q, n) < Far(g, q, id)}
    IN  IF closer = {} THEN id ELSE Greedy(g, q, layer, Nearest(g, q, closer))

\* From the entry down to a layer, that one left out.
Descend(g, q, layer) ==
    FoldLeft(LAMBDA id, l : Greedy(g, q, l, id), g.entry,
             [i \in 1 .. g.top - layer |-> g.top + 1 - i])

\* One neighbour, met for the first time: kept when there is room or it is
\* closer than the furthest that is.
Met(g, q, ef, s, n) ==
    IF n \in s.visited THEN s
    ELSE IF n \notin Ids(g) \/ (Cardinality(s.found) >= ef
                                /\ Far(g, q, n) >= Far(g, q, Furthest(g, q, s.found)))
    THEN [s EXCEPT !.visited = @ \cup {n}]
    ELSE LET found == s.found \cup {n}
         IN  [visited |-> s.visited \cup {n}, open |-> s.open \cup {n},
              found |-> IF Cardinality(found) > ef THEN found \ {Furthest(g, q, found)} ELSE found]

\* search_layer_internal.
RECURSIVE Beam(_, _, _, _, _), Explore(_, _, _, _, _, _)
Beam(g, q, ef, layer, s) ==
    IF s.open = {} THEN s.found ELSE Explore(g, q, ef, layer, s, Nearest(g, q, s.open))
Explore(g, q, ef, layer, s, id) ==
    IF Far(g, q, id) > Far(g, q, Furthest(g, q, s.found)) THEN s.found
    ELSE Beam(g, q, ef, layer,
              FoldLeft(LAMBDA t, n : Met(g, q, ef, t, n), [s EXCEPT !.open = @ \ {id}],
                       Listed(g, id, layer)))
SearchLayer(g, q, from, ef, layer) ==
    ByDistance(g, q, Beam(g, q, ef, layer, [visited |-> from, open |-> from, found |-> from]))

Wider(a, b) == IF a > b THEN a ELSE b
\* Mutant: no wider a search for more results.
SearchKnnNarrow(g, q, k) ==
    IF k = 0 \/ g.entry = 0 THEN <<>>
    ELSE Take(k, SearchLayer(g, q, {Descend(g, q, 0)}, EfRuntime, 0))
SearchKnn(g, q, k) ==
    IF k = 0 \/ g.entry = 0 THEN <<>>
    ELSE Take(k, SearchLayer(g, q, {Descend(g, q, 0)}, Wider(EfRuntime, k), 0))

----------------------------------------------------------------------------
(* Changing.                                                               *)

\* Mutant: the list grows past its end.
LinkedToLong(g, id, n, layer) ==
    [g.nodes[n] EXCEPT !.near = Extended(@, layer, Append(@[layer], id))]
\* A neighbour takes a new node into its list, which keeps the closest.
LinkedTo(g, id, n, layer) ==
    LET list == Append(g.nodes[n].near[layer], id)
        kept == IF Len(list) > MMax(layer)
                THEN Take(MMax(layer), ByDistance(g, g.nodes[n].at, ToSet(list) \cap Ids(g)))
                ELSE list
    IN  [g.nodes[n] EXCEPT !.near = Extended(@, layer, kept)]

\* A new node joins a layer with the closest of what the search found there.
Join(g, id, layer, selected) ==
    [g EXCEPT !.nodes =
        [n \in Ids(g) |->
            IF n = id THEN [g.nodes[id] EXCEPT !.near = Extended(@, layer, selected)]
            ELSE IF n \in ToSet(selected) /\ layer <= g.nodes[n].level THEN LinkedTo(g, id, n, layer)
            ELSE g.nodes[n]]]
JoinFrom(g, id, layer, found) ==
    [graph |-> Join(g, id, layer, Take(MMax(layer), found)), from |-> ToSet(found)]
JoinLayer(g, id, from, layer) ==
    JoinFrom(g, id, layer, SearchLayer(g, g.nodes[id].at, from, EfConstruction, layer))

\* delete: the links back from the node's own neighbours go with it, those of
\* others stay; any node of the highest layer may become the entry.
Unlinked(g, id) ==
    [n \in Ids(g) \ {id} |->
        [g.nodes[n] EXCEPT !.near =
            [l \in DOMAIN @ |-> IF n \in ToSet(Listed(g, id, l))
                                THEN SelectSeq(@[l], LAMBDA i : i # id) ELSE @[l]]]]
Entries(nodes) == {n \in DOMAIN nodes : \A m \in DOMAIN nodes : nodes[m].level <= nodes[n].level}
Deleted(g, doc) ==
    IF doc \notin DOMAIN g.of THEN {g}
    ELSE LET id == g.of[doc]
             nodes == Unlinked(g, id)
             rest == [g EXCEPT !.nodes = nodes, !.of = Without(@, doc)]
         IN  IF g.entry # id THEN {rest}
             ELSE IF Entries(nodes) = {} THEN {[rest EXCEPT !.entry = 0, !.top = 0]}
             ELSE {[rest EXCEPT !.entry = n, !.top = nodes[n].level] : n \in Entries(nodes)}

\* insert, of a document that has no node.
Lower(a, b) == IF a < b THEN a ELSE b
Placed(g, doc, at, level) ==
    LET node == [doc |-> doc, at |-> at, level |-> level, near |-> [l \in 0 .. level |-> <<>>]]
    IN  [g EXCEPT !.nodes = Extended(@, g.next, node), !.of = Extended(@, doc, g.next), !.next = @ + 1]
Raised(g, id) ==
    IF g.entry = 0 \/ g.nodes[id].level > g.top
    THEN [g EXCEPT !.entry = id, !.top = g.nodes[id].level] ELSE g
JoinAll(g, id, level) ==
    IF g.entry = 0 THEN g
    ELSE FoldLeft(LAMBDA acc, l : JoinLayer(acc.graph, id, acc.from, l),
                  [graph |-> g, from |-> {Descend(g, g.nodes[id].at, Lower(level, g.top))}],
                  [i \in 1 .. Lower(level, g.top) + 1 |-> Lower(level, g.top) + 1 - i]).graph
New(g, doc, at, level) == Raised(JoinAll(Placed(g, doc, at, level), g.next, level), g.next)

\* HnswGraph::insert.
Inserted(g, doc, at, level) == {New(rest, doc, at, level) : rest \in Deleted(g, doc)}

----------------------------------------------------------------------------
(* What a graph must be.                                                   *)

\* Lists are of bounded length, without repetition or self, and lead to nodes of
\* their layer; the entry is a node of the highest layer; ids and documents
\* correspond.
GraphOK(g) ==
    /\ \A id \in Ids(g) :
          /\ g.of[g.nodes[id].doc] = id
          /\ DOMAIN g.nodes[id].near = 0 .. g.nodes[id].level
          /\ \A l \in 0 .. g.nodes[id].level :
                /\ Len(Listed(g, id, l)) <= MMax(l)
                /\ IsInjective(Listed(g, id, l))
                /\ \A n \in Linked(g, id, l) : n # id /\ l <= g.nodes[n].level
    /\ \A doc \in DOMAIN g.of : g.of[doc] \in Ids(g)
    /\ IF Ids(g) = {} THEN g.entry = 0 /\ g.top = 0
       ELSE g.entry \in Entries(g.nodes) /\ g.top = g.nodes[g.entry].level

\* The nodes that links on layer 0 lead to.
RECURSIVE Reach(_, _)
Reach(g, S) ==
    LET more == S \cup UNION {Linked(g, id, 0) : id \in S}
    IN  IF more = S THEN S ELSE Reach(g, more)

\* A search answers as many nodes as it is asked for, of those it can reach, the
\* closest first, and with room enough the closest of all.
KnnExact(g, q, k) ==
    g.entry # 0 =>
        LET reached == Reach(g, {Descend(g, q, 0)})
            found == SearchKnn(g, q, k)
        IN  /\ ToSet(found) \subseteq reached
            /\ Len(found) = Lower(k, Cardinality(reached))
            /\ \A i, j \in DOMAIN found : i < j => Far(g, q, found[i]) < Far(g, q, found[j])
            /\ Wider(EfRuntime, k) >= Cardinality(reached) =>
                   \A i \in DOMAIN found, n \in reached \ ToSet(found) :
                       Far(g, q, found[i]) < Far(g, q, n)

----------------------------------------------------------------------------
(* The indexes.                                                            *)

SearchAssumption ==
    /\ M \in Nat /\ M >= 2
    /\ EfConstruction \in Nat \ {0} /\ EfRuntime \in Nat \ {0}
    /\ \A d \in Documents : d[1] \in Nat
    /\ \A w \in Suggested : w[2] \in Nat
    /\ Epsilon \in Nat /\ DefaultLimit \in Nat
    \* A field's numbers lie before its other texts: SORTBY's comparison is an order.
    /\ \A d, e \in Documents : \A f \in DOMAIN d[2] \cap DOMAIN e[2] :
          d[2][f].num # <<>> /\ e[2][f].num = <<>> => d[2][f].str < e[2][f].str

VARIABLES
    indexes,      \* name -> index
    aliases,      \* alias -> name of an index
    suggestions   \* string -> score, of one dictionary

vars == <<indexes, aliases, suggestions>>

Init == indexes = <<>> /\ aliases = <<>> /\ suggestions = <<>>

\* InvertedIndex::new, beside its schema.
EmptyIndex(schema) ==
    [schema |-> schema, docs |-> <<>>, text |-> <<>>, tag |-> <<>>, num |-> <<>>,
     vec |-> <<>>, graph |-> <<>>, geo |-> <<>>]

At(f, x, default) == IF x \in DOMAIN f THEN f[x] ELSE default
SetAt(f, x, y, v) == Extended(f, x, Extended(At(f, x, <<>>), y, v))

----------------------------------------------------------------------------
(* Documents come and go.                                                  *)

\* Takes a document out of a map field -> term -> document -> posting, and out
\* of a map field -> term -> documents.  Terms stay, with no document left.
FromPostings(map, id) == [f \in DOMAIN map |-> [t \in DOMAIN map[f] |-> Without(map[f][t], id)]]
FromSets(map, id) == [f \in DOMAIN map |-> [t \in DOMAIN map[f] |-> map[f][t] \ {id}]]
FromPoints(map, id) == [f \in DOMAIN map |-> Without(map[f], id)]
Graphs(x, id) ==
    {h \in [DOMAIN x.graph -> UNION {Deleted(x.graph[f], id) : f \in DOMAIN x.graph}] :
        \A f \in DOMAIN x.graph : h[f] \in Deleted(x.graph[f], id)}

\* Mutant: the tags of the document stay.
ClearedTagged(x, id) ==
    {[x EXCEPT !.docs = Without(@, id), !.text = FromPostings(@, id), !.num = FromSets(@, id),
               !.vec = FromPoints(@, id), !.graph = h, !.geo = FromPoints(@, id)] : h \in Graphs(x, id)}
\* delete_doc of a document that is there.
Cleared(x, id) ==
    {[x EXCEPT !.docs = Without(@, id), !.text = FromPostings(@, id), !.tag = FromSets(@, id),
               !.num = FromSets(@, id), !.vec = FromPoints(@, id), !.graph = h,
               !.geo = FromPoints(@, id)] : h \in Graphs(x, id)}
\* delete_doc.
Deletions(x, id) == IF id \in DOMAIN x.docs THEN Cleared(x, id) ELSE {x}

WithWords(map, id, words) ==
    FoldLeft(LAMBDA m, i : SetAt(m, words[i], id, At(At(m, words[i], <<>>), id, {}) \cup {i}),
             map, [i \in DOMAIN words |-> i])
WithTerms(map, id, terms) ==
    [t \in DOMAIN map \cup terms |-> At(map, t, {}) \cup (IF t \in terms THEN {id} ELSE {})]
InGraph(g, id, at) == UNION {Inserted(g, id, at, level) : level \in Levels}

\* One field of a document enters the index.
IndexField(x, id, field, kind, text) ==
    CASE kind = "text" ->
           {[x EXCEPT !.text = Extended(@, field, WithWords(At(@, field, <<>>), id, text.words))]}
      [] kind = "tag" ->
           {[x EXCEPT !.tag = Extended(@, field, WithTerms(At(@, field, <<>>), id, text.tags))]}
      [] kind = "num" /\ text.num # <<>> ->
           {[x EXCEPT !.num = Extended(@, field, WithTerms(At(@, field, <<>>), id, {text.num[1]}))]}
      [] kind = "geo" /\ text.at # <<>> -> {[x EXCEPT !.geo = SetAt(@, field, id, text.at[1])]}
      [] kind = "vec" /\ text.at # <<>> ->
           {[x EXCEPT !.vec = SetAt(@, field, id, text.at[1]), !.graph = Extended(@, field, g)] :
                g \in InGraph(At(x.graph, field, EmptyGraph), id, text.at[1])}
      [] OTHER -> {x}

IndexFields(x, id, doc, from) ==
    FoldLeft(LAMBDA S, fk : IF fk[1] \in DOMAIN doc
                            THEN UNION {IndexField(y, id, fk[1], fk[2], doc[fk[1]]) : y \in S} ELSE S,
             from, x.schema[2])
Stored(x, id, doc, score) ==
    [x EXCEPT !.docs = Extended(@, id, [fields |-> doc,
                                        score |-> IF score = <<>> THEN x.schema[1] ELSE score[1]])]

\* Mutant: a document that is there is not taken out first.
IndexedTwice(x, id, doc, score) ==
    {Stored(y, id, doc, score) : y \in IndexFields(x, id, doc, {x})}
\* index_doc.
Indexed(x, id, doc, score) ==
    {Stored(y, id, doc, score) : y \in IndexFields(x, id, doc, Deletions(x, id))}

----------------------------------------------------------------------------
(* Queries.                                                                *)

TextFields(x, q) == IF q.fields = {} THEN DOMAIN x.text ELSE q.fields \cap DOMAIN x.text
Fits(how, word, t) ==
    CASE how = "prefix" -> <<word, t>> \in Begins
      [] how = "fuzzy" -> <<word, t>> \in Alike
      [] OTHER -> word = t

EvalTerm(x, q) ==
    UNION {UNION {DOMAIN x.text[f][t] : t \in {u \in DOMAIN x.text[f] : Fits(q.how, q.word, u)}} :
           f \in TextFields(x, q)}

\* Mutant: a gap of one more is let through.
NextWithinLoose(P, p, slop) == {n \in P : n > p /\ n - p - 1 <= slop + 1}
NextWithin(P, p, slop) == {n \in P : n > p /\ n - p - 1 <= slop}

\* verify_phrase_positions: in order, the first place that is near enough is
\* taken; out of order, all must be near the first word.
InOrderFrom(P, p, slop) ==
    FoldLeft(LAMBDA at, Q : IF at = 0 \/ NextWithin(Q, at, slop) = {} THEN 0
                            ELSE Min(NextWithin(Q, at, slop)), p, Tail(P)) # 0
VerifyPhrase(P, slop, inOrder) ==
    \E p \in P[1] :
        IF inOrder THEN InOrderFrom(P, p, slop)
        ELSE \A i \in 2 .. Len(P) : \E n \in P[i] : Dist(n, p) <= slop + 1

EvalPhrase(x, q) ==
    {d \in DOMAIN x.docs :
        \E f \in TextFields(x, q) :
            /\ q.words # <<>>
            /\ \A i \in DOMAIN q.words : d \in DOMAIN At(x.text[f], q.words[i], <<>>)
            /\ VerifyPhrase([i \in DOMAIN q.words |-> x.text[f][q.words[i]][d]], q.slop, q.inOrder)}

EvalTag(x, q) ==
    LET map == At(x.tag, q.field, <<>>)
    IN  UNION {map[t] : t \in {u \in DOMAIN map : u \in q.tags \/ \E b \in q.begins : <<b, u>> \in Begins}}

\* The map is walked from lo to hi, which must not be the greater; the ends are
\* checked at each step.
EvalRange(x, q) ==
    LET map == At(x.num, q.field, <<>>)
    IN  UNION {map[n] : n \in {m \in DOMAIN map : /\ q.lo <= m /\ m <= q.hi
                                                  /\ q.loIn \/ m # q.lo
                                                  /\ q.hiIn \/ m # q.hi}}
EvalGeo(x, q) ==
    LET map == At(x.geo, q.field, <<>>) IN {d \in DOMAIN map : Dist(map[d], q.at) <= q.radius}

\* By the graph: the vectors of a field and its graph are made together, so the
\* scan of all vectors is never reached.
DocsOf(g, ids) == {g.nodes[id].doc : id \in ids}
EvalKnn(x, q) ==
    LET g == At(x.graph, q.field, EmptyGraph) IN DocsOf(g, ToSet(SearchKnn(g, q.at, q.k)))
EvalRadius(x, q) ==
    LET g == At(x.graph, q.field, EmptyGraph)
        found == ToSet(SearchKnn(g, q.at, Cardinality(Ids(g))))
    IN  DocsOf(g, {id \in found : 100 * Far(g, q.at, id) <= q.radius * (100 + Epsilon)})

RECURSIVE Eval(_, _)
EvalAnd(x, q) ==
    {d \in DOMAIN x.docs : q.of # <<>> /\ \A i \in DOMAIN q.of : d \in Eval(x, q.of[i])}
\* eval_query_node.
Eval(x, q) ==
    CASE q.is = "any" -> DOMAIN x.docs
      [] q.is = "term" -> EvalTerm(x, q)
      [] q.is = "phrase" -> EvalPhrase(x, q)
      [] q.is = "tag" -> EvalTag(x, q)
      [] q.is = "range" -> EvalRange(x, q)
      [] q.is = "geo" -> EvalGeo(x, q)
      [] q.is = "knn" -> EvalKnn(x, q)
      [] q.is = "radius" -> EvalRadius(x, q)
      [] q.is = "and" -> EvalAnd(x, q)
      [] q.is = "or" -> UNION {Eval(x, q.of[i]) : i \in DOMAIN q.of}
      [] q.is = "not" -> DOMAIN x.docs \ Eval(x, q.of[1])

\* A KNN among the parts of an And: the others choose, and of what they chose
\* the nearest are found by measuring all.
KnnPart(q) == {i \in DOMAIN q.of : q.of[i].is = "knn"}
NearestOf(vec, S, at, k) ==
    LET byDistance == SetToSortSeq(S \cap DOMAIN vec, LAMBDA a, b : Dist(vec[a], at) < Dist(vec[b], at))
    IN  ToSet(Take(k, byDistance))
Hybrid(x, knn, others) ==
    NearestOf(At(x.vec, knn.field, <<>>),
              IF others = <<>> THEN DOMAIN x.docs ELSE Eval(x, [is |-> "and", of |-> others]),
              knn.at, knn.k)
Candidates(x, q) ==
    IF q.is = "and" /\ KnnPart(q) # {}
    THEN Hybrid(x, q.of[Min(KnnPart(q))], RemoveAt(q.of, Min(KnnPart(q)))) ELSE Eval(x, q)

\* INKEYS, FILTER and GEOFILTER.
Filtered(x, S, o) ==
    {d \in S : /\ o.inkeys = {} \/ d \in o.inkeys
               /\ \A r \in o.filters : d \in EvalRange(x, r)
               /\ \A c \in o.circles : d \in EvalGeo(x, c)}

\* Mutant: the lower score comes first.
BetterLast(x, a, b) ==
    \/ x.docs[a].score < x.docs[b].score
    \/ x.docs[a].score = x.docs[b].score /\ a < b
\* By score and then by id.
Better(x, a, b) ==
    \/ x.docs[a].score > x.docs[b].score
    \/ x.docs[a].score = x.docs[b].score /\ a < b
\* SORTBY: two numbers as numbers, other texts as texts; documents without the
\* field first, by id.
KeyOf(x, d, f) == IF f \in DOMAIN x.docs[d].fields THEN <<x.docs[d].fields[f]>> ELSE <<>>
NotAfterText(ta, tb) ==
    IF ta.num # <<>> /\ tb.num # <<>> THEN ta.num[1] <= tb.num[1] ELSE ta.str <= tb.str
NotAfter(a, b, ka, kb) ==
    CASE ka = <<>> /\ kb = <<>> -> a < b
      [] ka = <<>> -> TRUE
      [] kb = <<>> -> FALSE
      [] OTHER -> NotAfterText(ka[1], kb[1])
\* Mutant: DESC is taken for ASC.
BeforeAscending(x, sortby, a, b) ==
    CASE sortby = <<>> -> Better(x, a, b)
      [] OTHER -> NotAfter(a, b, KeyOf(x, a, sortby[1]), KeyOf(x, b, sortby[1]))
Before(x, sortby, a, b) ==
    CASE sortby = <<>> -> Better(x, a, b)
      [] OTHER -> IF sortby[2] = "asc"
                  THEN NotAfter(a, b, KeyOf(x, a, sortby[1]), KeyOf(x, b, sortby[1]))
                  ELSE NotAfter(b, a, KeyOf(x, b, sortby[1]), KeyOf(x, a, sortby[1]))

\* Equal keys stay in the order a hash map gave: any.
Listings(x, S, sortby) ==
    {l \in [1 .. Cardinality(S) -> S] :
        IsInjective(l) /\ \A i, j \in DOMAIN l : i < j => Before(x, sortby, l[i], l[j])}
Page(l, limit) == SubSeq(l, limit[1] + 1, Lower(Len(l), limit[1] + limit[2]))
\* search: the pages it may answer with, and the total.
Search(x, q, o) ==
    LET S == Filtered(x, Candidates(x, q), o)
    IN  [total |-> Cardinality(S),
         pages |-> {Page(l, IF o.limit = <<>> THEN <<0, DefaultLimit>> ELSE o.limit) :
                    l \in Listings(x, S, o.sortby)}]

----------------------------------------------------------------------------
(* Aggregates, counters, suggestions.                                      *)

\* What the documents of a list hold in a field, and the numbers among it.
Held(x, l, field) ==
    FoldLeft(LAMBDA s, d : IF field \in DOMAIN x.docs[d].fields
                           THEN Append(s, x.docs[d].fields[field]) ELSE s, <<>>, l)
Numbers(texts) == FoldLeft(LAMBDA s, v : s \o v.num, <<>>, texts)

\* The reducers, of one group: COUNT, SUM, MIN, MAX, the divisor of AVG,
\* COUNT_DISTINCT, and TOLIST with FIRST_VALUE.
Reduced(count, texts, numbers) ==
    [count |-> count, sum |-> FoldLeft(LAMBDA a, n : a + n, 0, numbers),
     min |-> IF numbers = <<>> THEN 0 ELSE Min(ToSet(numbers)),
     max |-> IF numbers = <<>> THEN 0 ELSE Max(ToSet(numbers)),
     parts |-> Len(numbers), distinct |-> Cardinality(ToSet(texts)), list |-> texts]
ReducedList(x, l, field) == Reduced(Len(l), Held(x, l, field), Numbers(Held(x, l, field)))
GroupOf(x, d, by) == IF by \in DOMAIN x.docs[d].fields THEN <<x.docs[d].fields[by]>> ELSE <<>>
Grouped(x, l, by, field) ==
    [g \in {GroupOf(x, l[i], by) : i \in DOMAIN l} |->
        ReducedList(x, SelectSeq(l, LAMBDA d : GroupOf(x, d, by) = g), field)]

\* aggregate with a GROUPBY: of a search without LIMIT, so of its first page.
NoOptions == [inkeys |-> {}, filters |-> {}, circles |-> {}, sortby |-> <<>>, limit |-> <<>>]
Aggregate(x, q, by, field) == {Grouped(x, l, by, field) : l \in Search(x, q, NoOptions).pages}

\* info: documents, terms (those with no document left included) and records.
Info(x) ==
    [docs |-> Cardinality(DOMAIN x.docs),
     terms |-> MapThenSumSet(LAMBDA f : Cardinality(DOMAIN x.text[f]), DOMAIN x.text),
     records |-> MapThenSumSet(LAMBDA f : MapThenSumSet(LAMBDA t : Cardinality(DOMAIN x.text[f][t]),
                                                         DOMAIN x.text[f]), DOMAIN x.text)]

TagVals(x, field) == LET map == At(x.tag, field, <<>>) IN {t \in DOMAIN map : map[t] # {}}

\* sug_get: the strings a prefix leads to, the best first, at most max.
SugGet(prefix, fuzzy, max) ==
    LET found == {s \in DOMAIN suggestions : <<prefix, s>> \in Begins \/ (fuzzy /\ <<prefix, s>> \in Alike)}
    IN  {Take(max, l) : l \in {m \in [1 .. Cardinality(found) -> found] :
            IsInjective(m) /\ \A i, j \in DOMAIN m : i < j => suggestions[m[i]] >= suggestions[m[j]]}}

----------------------------------------------------------------------------
(* The manager.                                                            *)

\* resolve_index_name: an alias hides an index of the same name.
Resolve(name) == At(aliases, name, name)

Create ==
    \E name \in Names \ DOMAIN indexes, schema \in Schemas :
        indexes' = Extended(indexes, name, EmptyIndex(schema)) /\ UNCHANGED <<aliases, suggestions>>

\* Mutant: the aliases of the index stay.
DropIndexOnly ==
    \E name \in Names :
        /\ Resolve(name) \in DOMAIN indexes
        /\ indexes' = Without(indexes, Resolve(name))
        /\ UNCHANGED <<aliases, suggestions>>
Drop ==
    \E name \in Names :
        /\ Resolve(name) \in DOMAIN indexes
        /\ indexes' = Without(indexes, Resolve(name))
        /\ aliases' = [a \in {b \in DOMAIN aliases : aliases[b] # Resolve(name)} |-> aliases[a]]
        /\ UNCHANGED suggestions

\* The name an alias is given is an index's own, not another alias.
AddAlias ==
    \E alias \in Names \ DOMAIN aliases, name \in DOMAIN indexes :
        aliases' = Extended(aliases, alias, name) /\ UNCHANGED <<indexes, suggestions>>
UpdateAlias ==
    \E alias \in Names, name \in DOMAIN indexes :
        aliases' = Extended(aliases, alias, name) /\ UNCHANGED <<indexes, suggestions>>
DelAlias ==
    \E alias \in DOMAIN aliases :
        aliases' = Without(aliases, alias) /\ UNCHANGED <<indexes, suggestions>>

Small(x) == \A f \in DOMAIN x.graph : x.graph[f].next <= MaxIds
IndexDoc ==
    \E name \in Names, d \in Documents :
        /\ Resolve(name) \in DOMAIN indexes
        /\ \E x \in Indexed(indexes[Resolve(name)], d[1], d[2], d[3]) :
              Small(x) /\ indexes' = Extended(indexes, Resolve(name), x)
        /\ UNCHANGED <<aliases, suggestions>>
DeleteDoc ==
    \E name \in Names, d \in Documents :
        /\ Resolve(name) \in DOMAIN indexes
        /\ \E x \in Deletions(indexes[Resolve(name)], d[1]) : indexes' = Extended(indexes, Resolve(name), x)
        /\ UNCHANGED <<aliases, suggestions>>

SugAdd ==
    \E w \in Suggested, incr \in BOOLEAN :
        LET score == IF incr THEN At(suggestions, w[1], 0) + w[2] ELSE w[2]
        IN  score <= MaxScore /\ suggestions' = Extended(suggestions, w[1], score)
            /\ UNCHANGED <<indexes, aliases>>
SugDel ==
    \E w \in Suggested : suggestions' = Without(suggestions, w[1]) /\ UNCHANGED <<indexes, aliases>>

Next ==
    \/ Create \/ Drop \/ AddAlias \/ UpdateAlias \/ DelAlias
    \/ IndexDoc \/ DeleteDoc \/ SugAdd \/ SugDel

Spec == Init /\ [][Next]_vars

----------------------------------------------------------------------------
(* What a query promises, said of the documents alone.                     *)

OfKind(x, d, f, kind) ==
    f \in DOMAIN x.docs[d].fields /\ \E i \in DOMAIN x.schema[2] : x.schema[2][i] = <<f, kind>>
TextOf(x, d, f) == x.docs[d].fields[f]
Asks(x, d, q, f) == OfKind(x, d, f, "text") /\ (q.fields = {} \/ f \in q.fields)

\* The words of a phrase in a text: each behind the one before it with at most
\* slop words between, or all of them that near to the first.
Spells(words, q) ==
    \E at \in [DOMAIN q.words -> DOMAIN words] :
        \A i \in DOMAIN at :
            /\ words[at[i]] = q.words[i]
            /\ i > 1 => IF q.inOrder THEN at[i] > at[i-1] /\ at[i] - at[i-1] - 1 <= q.slop
                        ELSE Dist(at[i], at[1]) <= q.slop + 1

RECURSIVE Matches(_, _, _)
Matches(x, d, q) ==
    CASE q.is = "any" -> TRUE
      [] q.is = "term" ->
           \E f \in DOMAIN x.docs[d].fields :
               /\ Asks(x, d, q, f)
               /\ \E word \in ToSet(TextOf(x, d, f).words) : Fits(q.how, q.word, word)
      [] q.is = "phrase" ->
           /\ q.words # <<>>
           /\ \E f \in DOMAIN x.docs[d].fields : Asks(x, d, q, f) /\ Spells(TextOf(x, d, f).words, q)
      [] q.is = "tag" ->
           OfKind(x, d, q.field, "tag")
           /\ \E t \in TextOf(x, d, q.field).tags : t \in q.tags \/ \E b \in q.begins : <<b, t>> \in Begins
      [] q.is = "range" ->
           OfKind(x, d, q.field, "num")
           /\ \E n \in ToSet(TextOf(x, d, q.field).num) :
                  (IF q.loIn THEN q.lo <= n ELSE q.lo < n) /\ (IF q.hiIn THEN n <= q.hi ELSE n < q.hi)
      [] q.is = "geo" ->
           /\ OfKind(x, d, q.field, "geo")
           /\ \E p \in ToSet(TextOf(x, d, q.field).at) : Dist(p, q.at) <= q.radius
      [] q.is = "and" -> q.of # <<>> /\ \A i \in DOMAIN q.of : Matches(x, d, q.of[i])
      [] q.is = "or" -> \E i \in DOMAIN q.of : Matches(x, d, q.of[i])
      [] q.is = "not" -> ~Matches(x, d, q.of[1])
Matching(x, q) == {d \in DOMAIN x.docs : Matches(x, d, q)}

\* A phrase in order of three words and more takes the first place near enough
\* for each, and may miss one that a later place would have completed.
Greedily(q) == q.is = "phrase" /\ q.inOrder /\ q.slop > 0 /\ Len(q.words) > 2

QueryExact(x, q) ==
    IF Greedily(q) THEN Eval(x, q) \subseteq Matching(x, q) ELSE Eval(x, q) = Matching(x, q)

\* The nearest of what the other parts of the query choose.
HybridExact(x, q) ==
    LET knn == q.of[Min(KnnPart(q))]
        of == RemoveAt(q.of, Min(KnnPart(q)))
        S == {d \in DOMAIN x.docs : OfKind(x, d, knn.field, "vec") /\ TextOf(x, d, knn.field).at # <<>>
                                    /\ (of # <<>> => Matches(x, d, [is |-> "and", of |-> of]))}
        far(d) == Dist(TextOf(x, d, knn.field).at[1], knn.at)
        found == Candidates(x, q)
    IN  /\ found \subseteq S /\ Cardinality(found) = Lower(knn.k, Cardinality(S))
        /\ \A d \in found, e \in S \ found : far(d) <= far(e)

\* Where a document belongs by a field: those without it by id, then numbers, then
\* other texts.
Rank(x, d, f) ==
    IF f \notin DOMAIN x.docs[d].fields THEN <<0, d>>
    ELSE IF TextOf(x, d, f).num # <<>> THEN <<1, TextOf(x, d, f).num[1]>> ELSE <<2, TextOf(x, d, f).str>>
Precedes(r, s) == r[1] < s[1] \/ (r[1] = s[1] /\ r[2] < s[2])

\* The document at each place of a page has as many before it in the order asked
\* for, up to equals, as the page's offset and the place say.
PageExact(x, S, o, total, page) ==
    LET limit == IF o.limit = <<>> THEN <<0, DefaultLimit>> ELSE o.limit
        ahead(d, e) ==
            IF o.sortby = <<>>
            THEN Precedes(<<-x.docs[d].score, d>>, <<-x.docs[e].score, e>>)
            ELSE IF o.sortby[2] = "asc"
            THEN Precedes(Rank(x, d, o.sortby[1]), Rank(x, e, o.sortby[1]))
            ELSE Precedes(Rank(x, e, o.sortby[1]), Rank(x, d, o.sortby[1]))
    IN  /\ total = Cardinality(S)
        /\ ToSet(page) \subseteq S /\ IsInjective(page)
        /\ Len(page) = Lower(limit[2], IF total > limit[1] THEN total - limit[1] ELSE 0)
        /\ \A i \in DOMAIN page :
              /\ Cardinality({d \in S : ahead(d, page[i])}) < limit[1] + i
              /\ limit[1] + i <= Cardinality({d \in S : ~ahead(page[i], d)})

Wanted(x, q, o) ==
    {d \in Matching(x, q) : /\ o.inkeys = {} \/ d \in o.inkeys
                            /\ \A r \in o.filters \cup o.circles : Matches(x, d, r)}

NumberOf(x, d, f) == IF f \in DOMAIN x.docs[d].fields THEN TextOf(x, d, f).num ELSE <<>>

\* The groups of an aggregate share out the documents of the first page; when
\* that is all of them, each sums up its own.
GroupsExact(x, by, field, groups) ==
    /\ MapThenSumSet(LAMBDA g : groups[g].count, DOMAIN groups)
           = Lower(DefaultLimit, Cardinality(DOMAIN x.docs))
    /\ Cardinality(DOMAIN x.docs) <= DefaultLimit =>
          \A g \in DOMAIN groups :
              LET S == {d \in DOMAIN x.docs : GroupOf(x, d, by) = g}
                  numbered == {d \in S : NumberOf(x, d, field) # <<>>}
              IN  /\ groups[g].count = Cardinality(S)
                  /\ groups[g].sum = MapThenSumSet(LAMBDA d : NumberOf(x, d, field)[1], numbered)
                  /\ groups[g].parts = Cardinality(numbered)
                  /\ \A d \in numbered :
                        groups[g].min <= NumberOf(x, d, field)[1] /\ NumberOf(x, d, field)[1] <= groups[g].max

InfoExact(x) ==
    /\ Info(x).docs = Cardinality(DOMAIN x.docs)
    /\ Info(x).records =
          MapThenSumSet(LAMBDA d : MapThenSumSet(LAMBDA f : Cardinality(ToSet(TextOf(x, d, f).words)),
                                                 {f \in DOMAIN x.text : OfKind(x, d, f, "text")}),
                        DOMAIN x.docs)

----------------------------------------------------------------------------
\* The graph of each vector field is well formed and holds a node for each
\* vector, and no other.
TypeOK ==
    /\ DOMAIN indexes \subseteq Names /\ DOMAIN aliases \subseteq Names
    /\ \A name \in DOMAIN indexes :
          LET x == indexes[name]
          IN  /\ DOMAIN x.vec = DOMAIN x.graph
              /\ \A f \in DOMAIN x.graph : GraphOK(x.graph[f])

\* search_knn finds the nearest of what the links lead it to, whatever was
\* deleted and whatever levels were drawn.
ReadsExact ==
    \A name \in DOMAIN indexes, i \in DOMAIN Queries :
        Queries[i].is = "knn" =>
            KnnExact(At(indexes[name].graph, Queries[i].field, EmptyGraph), Queries[i].at, Queries[i].k)

\* Whatever was indexed, indexed again and deleted before, a query finds the
\* documents it describes, a search answers the page of them that was asked for, in
\* its order, and every alias leads to an index; the vectors of documents, and no
\* others, are in the graphs.  Of what a search through a graph finds it says only
\* that these are documents: how near they are is in ReadsExact, how the graph
\* hangs together in TypeOK.
SearchExact ==
    /\ \A alias \in DOMAIN aliases : aliases[alias] \in DOMAIN indexes
    /\ \A name \in DOMAIN indexes :
          LET x == indexes[name]
          IN  /\ \A i \in DOMAIN Queries :
                    CASE Queries[i].is \in {"knn", "radius"} -> Eval(x, Queries[i]) \subseteq DOMAIN x.docs
                      [] Queries[i].is = "and" /\ KnnPart(Queries[i]) # {} -> HybridExact(x, Queries[i])
                      [] OTHER -> QueryExact(x, Queries[i])
              /\ \A i \in DOMAIN Searches :
                    \A page \in Search(x, Searches[i][1], Searches[i][2]).pages :
                        PageExact(x, Wanted(x, Searches[i][1], Searches[i][2]), Searches[i][2],
                                  Search(x, Searches[i][1], Searches[i][2]).total, page)
              /\ \A f \in DOMAIN x.vec :
                    /\ DOMAIN x.vec[f] = DOMAIN x.graph[f].of
                    /\ DOMAIN x.vec[f] =
                          {d \in DOMAIN x.docs : OfKind(x, d, f, "vec") /\ TextOf(x, d, f).at # <<>>}
              /\ \A f \in DOMAIN x.tag :
                    TagVals(x, f) = UNION {TextOf(x, d, f).tags :
                                           d \in {e \in DOMAIN x.docs : OfKind(x, e, f, "tag")}}
              /\ \A f \in DOMAIN x.num, by \in DOMAIN x.tag :
                    \A groups \in Aggregate(x, [is |-> "any"], by, f) : GroupsExact(x, by, f, groups)
              /\ InfoExact(x)
    /\ \A w \in Suggested, max \in 1 .. 2 :
          \A l \in SugGet(w[1], TRUE, max) :
              \A i \in DOMAIN l, s \in DOMAIN suggestions \ ToSet(l) :
                  <<w[1], s>> \in Begins => Len(l) = max /\ suggestions[s] <= suggestions[l[i]]
=============================================================================
