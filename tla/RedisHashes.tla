----------------------------- MODULE RedisHashes -----------------------------
(***************************************************************************)
(* What the hash commands promise a single caller: a key holds fields,     *)
(* each with a value and perhaps a time at which it is gone, and no fields *)
(* is no key.  Where a command has two outcomes both are possible here:    *)
(* HSET of a repeated field may keep the first of its values when it makes *)
(* the hash, and HSETEX KEEPTTL of a field that has run out may write      *)
(* nothing.                                                                *)
(***************************************************************************)
EXTENDS Integers, Sequences, FiniteSets

CONSTANTS
    Fields, MaxVal, MaxNow,
    Pairs,       \* the field and value lists of writes
    Lists,       \* the field lists of other commands
    Absent       \* no field, no value

VARIABLES
    now,         \* the clock
    held,        \* the fields that are there, with value and expiry, 0 for none
    asked, ret   \* the last call and its answer

vars == <<now, held, asked, ret>>

None == [f \in Fields |-> Absent]
Empty == held = None

Init == now = 1 /\ held = None /\ asked = <<>> /\ ret = 0

Conditions == {"none", "nx", "xx", "gt", "lt"}
Moments == 1 .. MaxNow

Keep(r) == UNCHANGED held /\ ret' = r
Named(fs) == {fs[i] : i \in DOMAIN fs}
Written(pairs) == {pairs[i].field : i \in DOMAIN pairs}
There(S) == {f \in S : held[f] # Absent}
ValueOf(f) == IF held[f] = Absent THEN Absent ELSE held[f].val

\* The last, or the first, value a list of pairs has for a field.
LastOf(pairs, f) == pairs[CHOOSE i \in DOMAIN pairs :
    pairs[i].field = f /\ \A j \in DOMAIN pairs : pairs[j].field = f => j <= i].val
FirstOfField(pairs, f) == pairs[CHOOSE i \in DOMAIN pairs :
    pairs[i].field = f /\ \A j \in DOMAIN pairs : pairs[j].field = f => i <= j].val

Without(S) == [f \in Fields |-> IF f \in S THEN Absent ELSE held[f]]
Rewritten(S, val(_), exp(_)) ==
    [f \in Fields |-> IF f \in S THEN [val |-> val(f), exp |-> exp(f)] ELSE held[f]]

HSet(pairs) ==
    LET never(f) == 0
        last(f) == LastOf(pairs, f)
        first(f) == FirstOfField(pairs, f)
    IN  /\ \/ held' = Rewritten(Written(pairs), last, never)
           \/ Empty /\ held' = Rewritten(Written(pairs), first, never)
        /\ ret' = Cardinality(Written(pairs) \ There(Fields))

HSetNx(f, v) ==
    \/ held[f] # Absent /\ Keep(0)
    \/ held[f] = Absent /\ held' = [held EXCEPT ![f] = [val |-> v, exp |-> 0]] /\ ret' = 1

HDel(fs) == held' = Without(Named(fs)) /\ ret' = Cardinality(There(Named(fs)))

HSetEx(pairs, cond, action, at) ==
    LET S == Written(pairs)
        met == CASE cond = "none" -> TRUE
                 [] cond = "nx" -> There(S) = {}
                 [] cond = "xx" -> There(S) = S
        last(f) == LastOf(pairs, f)
        time(f) == CASE action = "discard" -> 0
                     [] action = "keep" -> IF held[f] = Absent THEN 0 ELSE held[f].exp
                     [] action = "set" -> at
        lost == IF action = "keep" THEN SUBSET (S \ There(S)) ELSE {{}}
    IN  \/ ~met /\ Keep(FALSE)
        \/ met /\ action = "set" /\ at <= now /\ held' = Without(S) /\ ret' = TRUE
        \/ /\ met /\ ~(action = "set" /\ at <= now)
           /\ \E L \in lost : held' = Rewritten(S \ L, last, time)
           /\ ret' = TRUE

Answers(fs) == [i \in DOMAIN fs |-> ValueOf(fs[i])]

\* A field asked for twice is there the first time only.
Again(fs, i) == \E j \in 1 .. i - 1 : fs[j] = fs[i]
AnswersOnce(fs) == [i \in DOMAIN fs |-> IF Again(fs, i) THEN Absent ELSE ValueOf(fs[i])]

HGetDel(fs) == held' = Without(Named(fs)) /\ ret' = AnswersOnce(fs)

\* An expiry that has passed takes the field away; asked for alone, it is
\* then not answered.
HGetEx(fs, action, at) ==
    LET S == There(Named(fs))
        same(f) == held[f].val
        time(f) == IF action = "persist" THEN 0 ELSE at
    IN  \/ action = "discard" /\ Keep(Answers(fs))
        \/ /\ action = "set" /\ at <= now
           /\ held' = Without(S)
           /\ ret' = IF Len(fs) = 1 THEN <<Absent>> ELSE AnswersOnce(fs)
        \/ /\ action = "persist" \/ (action = "set" /\ at > now)
           /\ held' = Rewritten(S, same, time)
           /\ ret' = Answers(fs)

Passes(cond, exp, at) ==
    IF exp = 0 THEN cond \in {"none", "nx", "lt"}
    ELSE CASE cond \in {"none", "xx"} -> TRUE
           [] cond = "nx" -> FALSE
           [] cond = "gt" -> at > exp
           [] cond = "lt" -> at < exp

\* A field named twice has the new expiry the second time, or is gone.
HExpire(fs, at, cond) ==
    LET S == {f \in There(Named(fs)) : Passes(cond, held[f].exp, at)}
        same(f) == held[f].val
        time(f) == at
        answer(f, again) ==
            IF f \notin There(Fields) THEN -2
            ELSE IF f \notin S THEN 0
            ELSE IF at <= now THEN IF again THEN -2 ELSE 2
            ELSE IF again /\ ~Passes(cond, at, at) THEN 0 ELSE 1
    IN  /\ held' = IF at <= now THEN Without(S) ELSE Rewritten(S, same, time)
        /\ ret' = [i \in DOMAIN fs |-> answer(fs[i], Again(fs, i))]

HPersist(fs) ==
    LET S == There(Named(fs))
        same(f) == held[f].val
        never(f) == 0
    IN  /\ held' = Rewritten(S, same, never)
        /\ ret' = [i \in DOMAIN fs |-> IF held[fs[i]] = Absent THEN -2
                                       ELSE IF held[fs[i]].exp = 0 \/ Again(fs, i) THEN -1 ELSE 1]

HIncrBy(f) ==
    LET v == IF held[f] = Absent THEN 1 ELSE held[f].val + 1
    IN  /\ v <= MaxVal
        /\ held' = [held EXCEPT ![f] = IF @ = Absent THEN [val |-> v, exp |-> 0]
                                       ELSE [@ EXCEPT !.val = v]]
        /\ ret' = v

HLen == Keep(Cardinality(There(Fields)))

Call ==
    \/ \E ps \in Pairs :
          \/ asked' = <<"set", ps>> /\ HSet(ps)
          \/ \E cond \in {"none", "nx", "xx"}, action \in {"discard", "keep", "set"}, at \in Moments :
                asked' = <<"setex", ps, cond, action, at>> /\ HSetEx(ps, cond, action, at)
    \/ \E f \in Fields : \/ asked' = <<"setnx", f>> /\ HSetNx(f, 1)
                         \/ asked' = <<"incr", f>> /\ HIncrBy(f)
    \/ \E fs \in Lists :
          \/ asked' = <<"del", fs>> /\ HDel(fs)
          \/ asked' = <<"getdel", fs>> /\ HGetDel(fs)
          \/ asked' = <<"persist", fs>> /\ HPersist(fs)
          \/ \E at \in Moments :
                \/ \E cond \in Conditions : asked' = <<"expire", fs, at, cond>> /\ HExpire(fs, at, cond)
                \/ \E action \in {"discard", "set", "persist"} :
                      asked' = <<"getex", fs, action, at>> /\ HGetEx(fs, action, at)
    \/ asked' = <<"len">> /\ HLen
    \/ asked' = <<"vanish">> /\ held' = None /\ UNCHANGED ret

\* Time passes: what runs out is gone.
Tick ==
    /\ now' = now + 1
    /\ held' = [f \in Fields |-> IF held[f] # Absent /\ held[f].exp = now + 1 THEN Absent ELSE held[f]]
    /\ UNCHANGED <<asked, ret>>

HashNext == (Call /\ UNCHANGED now) \/ Tick
=============================================================================
