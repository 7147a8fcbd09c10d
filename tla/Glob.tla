-------------------------------- MODULE Glob --------------------------------
(***************************************************************************)
(* matches_glob_bytes of embed/src/key_composer/slot.rs, which filters     *)
(* KEYS, SCAN and the scans of collections.  Patterns and texts are byte   *)
(* strings.                                                                *)
(***************************************************************************)
EXTENDS Integers, Sequences

LOCAL INSTANCE SequencesExt

CONSTANTS
    Symbols,     \* the bytes of patterns
    Texts,       \* the byte strings they are matched with
    Seeds        \* beginnings of the patterns worth looking at longer

VARIABLE pattern

Star == 42
Question == 63
Open == 91
Close == 93
Quote == 92
Nots == {94, 33}
Dash == 45

----------------------------------------------------------------------------
\* The class of a pattern from position i on: whether it names the byte c and
\* where the pattern goes on, or 0 when the class is never closed.
Class(p, c, i) ==
    LET n == Len(p)
        class[j \in i .. n + 1] ==
            IF j > n THEN [found |-> FALSE, next |-> 0]
            ELSE IF p[j] = Quote /\ j < n
                 THEN [class[j + 2] EXCEPT !.found = @ \/ p[j + 1] = c]
            ELSE IF p[j] = Close THEN [found |-> FALSE, next |-> j + 1]
            ELSE IF j + 2 <= n /\ p[j + 1] = Dash /\ p[j + 2] # Close
                 THEN [class[j + 3] EXCEPT
                          !.found = @ \/ (p[j] <= c /\ c <= p[j + 2]) \/ (p[j + 2] <= c /\ c <= p[j])]
            ELSE [class[j + 1] EXCEPT !.found = @ \/ p[j] = c]
    IN  class[i]

\* A class whose bracket is at position i - 1, negated or not.
ClassAt(p, c, i) ==
    IF i <= Len(p) /\ p[i] \in Nots
    THEN LET k == Class(p, c, i + 1) IN [k EXCEPT !.found = ~@]
    ELSE Class(p, c, i)

\* Mutant: a star in the middle takes nothing or one byte.
StarOnce(m, i, j, here) == m[<<i + 1, j>>] \/ (here /\ m[<<i + 1, j + 1>>])

\* A star before more pattern gives up one byte of the text after the other.
StarMiddle(m, i, j, here) == m[<<i + 1, j>>] \/ (here /\ m[<<i, j + 1>>])

\* matches_glob_bytes, from position i of the pattern and j of the text.
Matches(p, t) ==
    LET m[x \in (1 .. Len(p) + 1) \X (1 .. Len(t) + 1)] ==
            LET i == x[1]
                j == x[2]
                here == j <= Len(t)
            IN  IF i > Len(p) THEN ~here
                ELSE IF p[i] = Star THEN
                    IF i < Len(p) /\ p[i + 1] = Star THEN m[<<i + 1, j>>]
                    ELSE i = Len(p) \/ StarMiddle(m, i, j, here)
                ELSE IF p[i] = Question THEN here /\ m[<<i + 1, j + 1>>]
                ELSE IF p[i] = Open THEN
                    /\ here
                    /\ LET k == ClassAt(p, t[j], i + 1)
                       IN  k.next # 0 /\ k.found /\ m[<<k.next, j + 1>>]
                ELSE IF p[i] = Quote /\ i < Len(p)
                     THEN here /\ p[i + 1] = t[j] /\ m[<<i + 2, j + 1>>]
                ELSE here /\ p[i] = t[j] /\ m[<<i + 1, j + 1>>]
    IN  m[<<1, 1>>]

----------------------------------------------------------------------------
(* What a pattern means: a sequence of pieces, each a star or the set of   *)
(* bytes that may stand in its place.                                      *)

Bytes == UNION {ToSet(t) : t \in Texts}
One(chars, next) == [star |-> FALSE, chars |-> chars, next |-> next]

\* The piece at position i; a class that stays open admits nothing.
Piece(p, i) ==
    CASE p[i] = Star -> [star |-> TRUE, chars |-> {}, next |-> i + 1]
      [] p[i] = Question -> One(Bytes, i + 1)
      [] p[i] = Open ->
            LET next == ClassAt(p, 0, i + 1).next
            IN  IF next = 0 THEN One({}, Len(p) + 1)
                ELSE One({c \in Bytes : ClassAt(p, c, i + 1).found}, next)
      [] p[i] = Quote /\ i < Len(p) -> One({p[i + 1]}, i + 2)
      [] OTHER -> One({p[i]}, i + 1)

Pieces(p) ==
    LET from[i \in 1 .. Len(p) + 1] ==
            IF i > Len(p) THEN <<>> ELSE <<Piece(p, i)>> \o from[Piece(p, i).next]
    IN  from[1]

\* The positions of the text that may come after a piece.
Meant(p, t) ==
    LET past(J, piece) ==
            IF piece.star THEN {j \in 1 .. Len(t) + 1 : \E i \in J : i <= j}
            ELSE {i + 1 : i \in {j \in J : j <= Len(t) /\ t[j] \in piece.chars}}
    IN  Len(t) + 1 \in FoldLeft(past, {1}, Pieces(p))

\* The patterns, one symbol longer at a time, and then from the start again.
Longest == IF Len(pattern) >= 2 /\ SubSeq(pattern, 1, 2) \in Seeds THEN 5 ELSE 3

Init == pattern = <<>>

Next ==
    \/ Len(pattern) < Longest /\ \E c \in Symbols : pattern' = Append(pattern, c)
    \/ Len(pattern) = Longest /\ pattern' = <<>>

\* A text matches exactly when the pieces of the pattern can be laid over it
\* without a gap: the backtracking at the stars loses no match and finds none
\* that is not there, and a class that is never closed matches nothing.
GlobExact == \A t \in Texts : Matches(pattern, t) <=> Meant(pattern, t)
=============================================================================
