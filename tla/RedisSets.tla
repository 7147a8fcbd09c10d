----------------------------- MODULE RedisSets -----------------------------
(***************************************************************************)
(* What the set and sorted integer commands promise a single caller: a key *)
(* holds a set, the empty set being no key, and every command is a plain   *)
(* operation on sets.  `asked` is the call and its arguments, so that what *)
(* implements this must do, call by call, what is said here.               *)
(***************************************************************************)
EXTENDS Integers, FiniteSets, SequencesExt

CONSTANTS
    Keys, Members,   \* members are naturals: their order is that of the keys
    Batches,         \* the argument lists of additions and removals
    Counts,          \* the counts passed to pops, the limits of the *CARD calls
    Operands,        \* the source lists of the algebra commands
    Spans,           \* the value ranges of sorted integers
    Ranks            \* the rank ranges of sorted integers

VARIABLES
    held,        \* the set at each key
    asked,       \* the last call
    ret          \* its answer

vars == <<held, asked, ret>>

Init ==
    /\ held = [k \in Keys |-> {}]
    /\ asked = <<>>
    /\ ret = 0

Keep(r) == UNCHANGED held /\ ret' = r
Put(k, S, r) == held' = [held EXCEPT ![k] = S] /\ ret' = r

SAdd(k, b) == Put(k, held[k] \cup ToSet(b), Cardinality(ToSet(b) \ held[k]))
SRem(k, b) == Put(k, held[k] \ ToSet(b), Cardinality(ToSet(b) \cap held[k]))

\* Any n of the members, all of them when there are no more.
SPop(k, n) ==
    \E S \in SUBSET held[k] :
        /\ Cardinality(S) = IF n < Cardinality(held[k]) THEN n ELSE Cardinality(held[k])
        /\ Put(k, held[k] \ S, S)

SMove(s, d, m) ==
    \/ m \notin held[s] /\ Keep(0)
    \/ m \in held[s] /\ s = d /\ Keep(1)
    \/ /\ m \in held[s] /\ s # d
       /\ held' = [held EXCEPT ![s] = @ \ {m}, ![d] = @ \cup {m}]
       /\ ret' = 1

Ops == {"inter", "union", "diff"}
Combined(op, ks) ==
    CASE op = "inter" -> {m \in Members : \A i \in 1 .. Len(ks) : m \in held[ks[i]]}
      [] op = "union" -> {m \in Members : \E i \in 1 .. Len(ks) : m \in held[ks[i]]}
      [] op = "diff"  -> {m \in held[ks[1]] : \A i \in 2 .. Len(ks) : m \notin held[ks[i]]}

Store(op, d, ks) == Put(d, Combined(op, ks), Cardinality(Combined(op, ks)))
Card(op, ks, limit) ==
    LET n == Cardinality(Combined(op, ks))
    IN  Keep(IF limit > 0 /\ limit < n THEN limit ELSE n)

\* The members of a span, and those whose rank is in a range.
Within(k, s) == {m \in held[k] : /\ IF s.minex THEN m > s.min ELSE m >= s.min
                                 /\ IF s.maxex THEN m < s.max ELSE m <= s.max}
Rank(k, m) == Cardinality({n \in held[k] : n < m})
Ranked(k, r) ==
    LET n == Cardinality(held[k])
        from == IF r[1] < 0 THEN r[1] + n ELSE r[1]
        to == IF r[2] < 0 THEN r[2] + n ELSE r[2]
    IN  {m \in held[k] : from <= Rank(k, m) /\ Rank(k, m) <= to}

Drop(k, S) == Put(k, held[k] \ S, Cardinality(S))

SetCall ==
    \E k \in Keys :
        \/ \E b \in Batches : \/ asked' = <<"add", k, b>> /\ SAdd(k, b)
                              \/ asked' = <<"remove", k, b>> /\ SRem(k, b)
        \/ \E n \in Counts : asked' = <<"pop", k, n>> /\ SPop(k, n)
        \/ \E d \in Keys, m \in Members : asked' = <<"move", k, d, m>> /\ SMove(k, d, m)
        \/ \E op \in Ops, ks \in Operands : asked' = <<"store", op, k, ks>> /\ Store(op, k, ks)
        \/ asked' = <<"vanish", k>> /\ Put(k, {}, ret)

SetNext ==
    \/ SetCall
    \/ \E op \in Ops, ks \in Operands, n \in Counts \cup {0} :
          asked' = <<"card", op, ks, n>> /\ Card(op, ks, n)

IntNext ==
    \E k \in Keys :
        \/ \E b \in Batches : \/ asked' = <<"add", k, b>> /\ SAdd(k, b)
                              \/ asked' = <<"remove", k, b>> /\ SRem(k, b)
        \/ \E s \in Spans : \/ asked' = <<"remspan", k, s>> /\ Drop(k, Within(k, s))
                            \/ asked' = <<"count", k, s>> /\ Keep(Cardinality(Within(k, s)))
        \/ \E r \in Ranks : asked' = <<"remrank", k, r>> /\ Drop(k, Ranked(k, r))
        \/ asked' = <<"vanish", k>> /\ Put(k, {}, ret)
=============================================================================
