----------------------------- MODULE RedisLists -----------------------------
(***************************************************************************)
(* What the list commands promise their single caller: each key is a       *)
(* sequence, the empty sequence being no key, and every command is a plain *)
(* operation on sequences.  `asked` is the call and its arguments, so that *)
(* ListStore, metadata and items keyed by index, must do call by call what *)
(* is said here.                                                           *)
(***************************************************************************)
EXTENDS Integers, Sequences, FiniteSets, SequencesExt

CONSTANTS
    Keys,        \* list keys
    Values,      \* element values
    Pushes,      \* the argument lists passed to push
    Counts,      \* the counts passed to pop and lmpop
    RemCounts,   \* the counts passed to lrem: the sign is the direction
    Indexes      \* the indexes passed to lset and ltrim, negative from the end

VARIABLES
    list,        \* the sequence at each key
    asked,       \* the last call
    ret          \* its answer, as a sequence

vars == <<list, asked, ret>>

\* Answers that are not elements.
Ok == <<>>
Err == <<-2>>

Keep(r) == UNCHANGED list /\ ret' = r
Put(k, s, r) == list' = [list EXCEPT ![k] = s] /\ ret' = r

Init ==
    /\ list = [k \in Keys |-> <<>>]
    /\ asked = <<>>
    /\ ret = Ok

\* An index as callers pass it, as a position 1 .. Len(s) when there is one.
Position(s, i) == IF i < 0 THEN Len(s) + i + 1 ELSE i + 1

\* What is left of s without the positions D.
Dropped(s, D) ==
    LET kept == DOMAIN s \ D
    IN  [n \in 1 .. Cardinality(kept) |->
            s[CHOOSE p \in kept : Cardinality({q \in kept : q < p}) = n - 1]]

\* A push of nothing answers 0 and does nothing.
Push(k, vs, left, create) ==
    \/ /\ vs # <<>>
       /\ create \/ list[k] # <<>>
       /\ LET s == IF left THEN Reverse(vs) \o list[k] ELSE list[k] \o vs
          IN  Put(k, s, <<Len(s)>>)
    \/ /\ vs = <<>> \/ (~create /\ list[k] = <<>>)
       /\ Keep(<<0>>)

\* The elements at one end, outermost first, and the rest.
Ends(s, n, left) == IF left THEN SubSeq(s, 1, n) ELSE Reverse(SubSeq(s, Len(s) - n + 1, Len(s)))
Rest(s, n, left) == IF left THEN SubSeq(s, n + 1, Len(s)) ELSE SubSeq(s, 1, Len(s) - n)

Pop(k, n, left) ==
    LET m == IF n < Len(list[k]) THEN n ELSE Len(list[k])
    IN  Put(k, Rest(list[k], m, left), Ends(list[k], m, left))

\* The first key that has a list is popped; the answer names it.
LMPop(ks, n, left) ==
    \/ \E i \in 1 .. Len(ks) :
          LET s == list[ks[i]]
              m == IF n < Len(s) THEN n ELSE Len(s)
          IN  /\ s # <<>>
              /\ \A j \in 1 .. (i - 1) : list[ks[j]] = <<>>
              /\ Put(ks[i], Rest(s, m, left), <<ks[i]>> \o Ends(s, m, left))
    \/ /\ \A i \in 1 .. Len(ks) : list[ks[i]] = <<>>
       /\ Keep(<<>>)

LSet(k, i, v) ==
    LET p == Position(list[k], i)
    IN  \/ /\ p \in 1 .. Len(list[k])
           /\ Put(k, [list[k] EXCEPT ![p] = v], Ok)
        \/ /\ p \notin 1 .. Len(list[k])
           /\ Keep(Err)

LTrim(k, start, stop) ==
    LET s == list[k]
        outside == {p \in 1 .. Len(s) : p < Position(s, start) \/ p > Position(s, stop)}
    IN  Put(k, Dropped(s, outside), Ok)

LInsert(k, before, pivot, v) ==
    LET s == list[k]
        at == {p \in 1 .. Len(s) : s[p] = pivot /\ \A q \in 1 .. (p - 1) : s[q] # pivot}
    IN  \/ \E p \in at : Put(k, InsertAt(s, IF before THEN p ELSE p + 1, v), <<Len(s) + 1>>)
        \/ /\ at = {}
           /\ Keep(IF s = <<>> THEN <<0>> ELSE <<-1>>)

\* The first, the last or all of the elements equal to v.
LRem(k, count, v) ==
    LET s == list[k]
        at == {p \in 1 .. Len(s) : s[p] = v}
        doomed == {p \in at : \/ count = 0
                              \/ count > 0 /\ Cardinality({q \in at : q <= p}) <= count
                              \/ count < 0 /\ Cardinality({q \in at : q >= p}) <= -count}
    IN  Put(k, Dropped(s, doomed), <<Cardinality(doomed)>>)

\* One element from an end of s to an end of d, which may be the same list.
LMove(s, d, sleft, dleft) ==
    \/ /\ list[s] # <<>>
       /\ LET e == Ends(list[s], 1, sleft)
              taken == [list EXCEPT ![s] = Rest(list[s], 1, sleft)]
          IN  /\ list' = [taken EXCEPT ![d] = IF dleft THEN e \o @ ELSE @ \o e]
              /\ ret' = e
    \/ /\ list[s] = <<>>
       /\ Keep(<<>>)

\* The key's expiry passes, or the key is deleted.
Vanish(k) == list' = [list EXCEPT ![k] = <<>>] /\ UNCHANGED ret

Next ==
    \E k \in Keys, left \in BOOLEAN :
        \/ \E vs \in Pushes, create \in BOOLEAN :
              asked' = <<"push", k, vs, left, create>> /\ Push(k, vs, left, create)
        \/ \E n \in Counts : asked' = <<"pop", k, n, left>> /\ Pop(k, n, left)
        \/ \E d \in Keys, n \in Counts : asked' = <<"lmpop", k, d, n, left>> /\ LMPop(<<k, d>>, n, left)
        \/ \E i \in Indexes, v \in Values : asked' = <<"set", k, i, v>> /\ LSet(k, i, v)
        \/ \E i, j \in Indexes : asked' = <<"trim", k, i, j>> /\ LTrim(k, i, j)
        \/ \E p, v \in Values : asked' = <<"insert", k, left, p, v>> /\ LInsert(k, left, p, v)
        \/ \E c \in RemCounts, v \in Values : asked' = <<"remove", k, c, v>> /\ LRem(k, c, v)
        \/ \E d \in Keys, dleft \in BOOLEAN :
              asked' = <<"move", k, d, left, dleft>> /\ LMove(k, d, left, dleft)
        \/ asked' = <<"vanish", k>> /\ Vanish(k)

Spec == Init /\ [][Next]_vars
=============================================================================
