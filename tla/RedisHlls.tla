------------------------------ MODULE RedisHlls -------------------------------
(* What a HyperLogLog promises: a register for each remainder of a hash,   *)
(* with the largest count it was given, and a union that is the larger of  *)
(* two counts register by register.                                        *)
EXTENDS Integers, Sequences

LOCAL INSTANCE FiniteSetsExt

CONSTANTS
    Keys,
    Registers,   \* how many, 16384 in the code
    Hashes,      \* the lists of <<register, count>> that calls give
    Sources      \* the operands of a merge

VARIABLES regs, asked, ret

vars == <<regs, asked, ret>>

Zeros == [i \in 0 .. Registers - 1 |-> 0]
Init == regs = [k \in Keys |-> Zeros] /\ asked = <<>> /\ ret = 0

Raised(f, hs) ==
    [i \in DOMAIN f |-> Max({f[i]} \cup {hs[j][2] : j \in {n \in DOMAIN hs : hs[n][1] = i}})]
Union(fs) == [i \in DOMAIN Zeros |-> Max({0} \cup {f[i] : f \in fs})]

\* The answer is whether any register changed.
Add(k, hs) ==
    /\ asked' = <<"add", k, hs>>
    /\ regs' = [regs EXCEPT ![k] = Raised(@, hs)]
    /\ ret' = IF regs'[k] = regs[k] THEN 0 ELSE 1

Merge(k, ks) ==
    /\ asked' = <<"merge", k, ks>>
    /\ regs' = [regs EXCEPT ![k] = Union({@} \cup {regs[ks[i]] : i \in DOMAIN ks})]
    /\ ret' = 0

\* Another encoding of the same registers.
Recode(k) == asked' = <<"recode", k>> /\ UNCHANGED regs /\ ret' = 0

Clear(k) ==
    /\ asked' = <<"clear", k>>
    /\ regs' = [regs EXCEPT ![k] = Zeros]
    /\ ret' = 0

Next ==
    \E k \in Keys :
        \/ \E hs \in Hashes : Add(k, hs)
        \/ \E ks \in Sources : Merge(k, ks)
        \/ Recode(k)
        \/ Clear(k)
=============================================================================
