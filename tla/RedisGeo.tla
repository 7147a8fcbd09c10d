------------------------------- MODULE RedisGeo -------------------------------
(***************************************************************************)
(* What the geo commands promise a single caller: members of a key have    *)
(* places, and a search finds those that lie in its shape, nearest or      *)
(* farthest first when asked to, and so many when asked to.                *)
(***************************************************************************)
EXTENDS Integers, Sequences, FiniteSets

LOCAL INSTANCE SequencesExt

CONSTANTS
    Keys, Members,
    Valid(_), Score(_), Coord(_), Distance(_, _), ContainsPoint(_, _, _),
    Additions,      \* the members and places of GEOADD
    Options,        \* and its options
    Searches,       \* where from, what shape, how many and in which order
    Destinations,   \* keys GEORADIUS may store to, or Absent
    Absent          \* not a member, no limit

VARIABLES
    held,           \* the score of each member of each key
    other,          \* the keys that hold a value of another type
    asked, ret      \* the last call and its answer

vars == <<held, other, asked, ret>>

NoMembers == [m \in Members |-> Absent]
In(k) == {m \in Members : held[k][m] # Absent}
Keep(r) == UNCHANGED <<held, other>> /\ ret' = r

GeoAdd(k, items, o) ==
    LET named == {i.member : i \in ToSet(items)}
        new(m) == Score(items[CHOOSE i \in DOMAIN items : items[i].member = m].place)
        written == {m \in named : /\ "nx" \in o => m \notin In(k)
                                  /\ "xx" \in o => m \in In(k)
                                  /\ held[k][m] # new(m)}
    IN  IF k \in other \/ \E i \in ToSet(items) : ~Valid(i.place) THEN Keep("error")
        ELSE /\ held' = [held EXCEPT ![k] = [m \in Members |-> IF m \in written THEN new(m) ELSE @[m]]]
             /\ UNCHANGED other
             /\ ret' = Cardinality(IF "ch" \in o THEN written ELSE written \ In(k))

\* The origin of a search: a place or a member, which may be missing.
Origin(k, q) ==
    IF q.member = Absent THEN q.place
    ELSE IF q.member \in In(k) THEN Coord(held[k][q.member]) ELSE Absent

Inside(k, q) == {m \in In(k) : ContainsPoint(Origin(k, q), q.shape, Coord(held[k][m]))}
Far(k, q, m) == Distance(Origin(k, q), Coord(held[k][m]))

\* A limit without ANY means the nearest.
Order(q) == IF q.count # Absent /\ ~q.any /\ q.sort = "none" THEN "asc" ELSE q.sort
Ahead(k, q, a, b) ==
    CASE Order(q) = "asc" -> Far(k, q, a) <= Far(k, q, b)
      [] Order(q) = "desc" -> Far(k, q, a) >= Far(k, q, b)
      [] OTHER -> TRUE

\* The answers allowed: ANY takes whatever is found first.
Answers(k, q) ==
    LET in == Inside(k, q)
        n == IF q.count = Absent \/ q.count > Cardinality(in) THEN Cardinality(in) ELSE q.count
    IN  {s \in UNION {SetToSeqs(S) : S \in {T \in SUBSET in : Cardinality(T) = n}} :
            /\ \A i, j \in DOMAIN s : i < j => Ahead(k, q, s[i], s[j])
            /\ ~q.any => \A m \in in \ ToSet(s), i \in DOMAIN s : Ahead(k, q, s[i], m)}

\* A destination holds what was found, with its score or its distance; the
\* distances are stored last.  Absent is no destination.
Stored(k, q, s, d, far) ==
    [x \in Keys |->
        IF x \notin {d, far} THEN held[x]
        ELSE [m \in Members |-> IF m \notin ToSet(s) THEN Absent
                                ELSE IF x = far THEN Far(k, q, m) ELSE held[k][m]]]

SearchStore(k, q, d, far, counted) ==
    IF k \in other THEN Keep("error")
    ELSE IF In(k) # {} /\ Origin(k, q) = Absent THEN Keep("error")
    ELSE \E s \in IF In(k) = {} THEN {<<>>} ELSE Answers(k, q) :
            /\ held' = Stored(k, q, s, d, far)
            /\ other' = other \ {d, far}
            /\ ret' = IF counted THEN Len(s) ELSE s

Call(k) ==
    \/ \E items \in Additions, o \in Options : asked' = <<"add", k, items, o>> /\ GeoAdd(k, items, o)
    \/ \E q \in Searches, d, far \in Destinations :
          asked' = <<"search", k, q, d, far>> /\ SearchStore(k, q, d, far, FALSE)
    \/ \E q \in Searches, d \in Keys, far \in BOOLEAN :
          /\ asked' = <<"searchstore", k, q, d, far>>
          /\ SearchStore(k, q, IF far THEN Absent ELSE d, IF far THEN d ELSE Absent, TRUE)
    \/ \E m \in Members : /\ m \in In(k)
                          /\ asked' = <<"rem", k, m>>
                          /\ held' = [held EXCEPT ![k][m] = Absent]
                          /\ UNCHANGED <<other, ret>>
    \/ /\ held' = [held EXCEPT ![k] = NoMembers]
       /\ \/ asked' = <<"vanish", k>> /\ other' = other \ {k}
          \/ asked' = <<"other", k>> /\ other' = other \cup {k}
       /\ ret' = ret

GNext == \E k \in Keys : Call(k)
=============================================================================
