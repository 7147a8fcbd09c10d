------------------------------ MODULE Version ------------------------------
(***************************************************************************)
(* The version generator of embed/src/meta.rs.  Every composite record     *)
(* carries a 64-bit version: 53 bits of microseconds and 11 bits of a      *)
(* process-wide counter.  Threads share two atomics, VERSION_COUNTER and   *)
(* LAST_VERSION; generate_version reads the clock, takes a counter value,  *)
(* loads LAST_VERSION and then loops on a weak compare-exchange.  Each of  *)
(* these four accesses is an action, so threads interleave between them.   *)
(* The wall clock may stand still or step back between any two of them.    *)
(***************************************************************************)
EXTENDS Integers, Sequences

CONSTANTS
    Threads,      \* threads that call generate_version
    CounterMod,   \* 2^VERSION_COUNTER_BITS
    MaxClock,     \* bound: the clock reads 0 .. MaxClock
    MaxCalls      \* bound: calls started in one behaviour

ASSUME VersionAssumption ==
    /\ CounterMod \in Nat \ {0}
    /\ MaxClock \in Nat
    /\ MaxCalls \in Nat

VARIABLES
    clock,       \* coarsetime::Clock::now_since_epoch().as_micros()
    counter,     \* VERSION_COUNTER, of which only the low bits are read
    last,        \* LAST_VERSION
    pc,          \* where each thread is in generate_version
    ts,          \* its local ts_us
    candidate,   \* its local candidate
    seen,        \* its local last
    started,     \* history: LAST_VERSION at the moment its call began
    calls,       \* number of calls begun, for the bound
    issued       \* history: the versions returned, in the order of the exchange

shared == <<clock, counter, last>>
local  == <<pc, ts, candidate, seen>>
vars   == <<clock, counter, last, pc, ts, candidate, seen, started, calls, issued>>

TypeOK ==
    /\ clock \in 0 .. MaxClock
    /\ counter \in 0 .. (CounterMod - 1)
    /\ last \in Nat
    /\ pc \in [Threads -> {"idle", "counter", "load", "cas"}]
    /\ ts \in [Threads -> Nat]
    /\ candidate \in [Threads -> Nat]
    /\ seen \in [Threads -> Nat]
    /\ started \in [Threads -> Nat]
    /\ calls \in 0 .. MaxCalls
    /\ issued \in Seq(Nat)

\* A fresh process: init_version_counter has stored the seed's low bits.
Init ==
    /\ clock \in 0 .. MaxClock
    /\ counter \in 0 .. (CounterMod - 1)
    /\ last = 0
    /\ pc = [t \in Threads |-> "idle"]
    /\ ts = [t \in Threads |-> 0]
    /\ candidate = [t \in Threads |-> 0]
    /\ seen = [t \in Threads |-> 0]
    /\ started = [t \in Threads |-> 0]
    /\ calls = 0
    /\ issued = <<>>

\* The operating system sets the clock, forwards or backwards.
Tick ==
    /\ clock' \in 0 .. MaxClock
    /\ UNCHANGED <<counter, last, local, started, calls, issued>>

\* A second WeDb::new in the same process seeds the counter again.
InitVersionCounter ==
    /\ counter' \in 0 .. (CounterMod - 1)
    /\ UNCHANGED <<clock, last, local, started, calls, issued>>

ReadClock(t) ==
    /\ pc[t] = "idle"
    /\ calls < MaxCalls
    /\ calls' = calls + 1
    /\ ts' = [ts EXCEPT ![t] = clock]
    /\ started' = [started EXCEPT ![t] = last]
    /\ pc' = [pc EXCEPT ![t] = "counter"]
    /\ UNCHANGED <<shared, candidate, seen, issued>>

\* The timestamp shifted left, or-ed with the counter's low bits.
Compose(us, c) == us * CounterMod + c

\* Mutant: the counter is not masked to its low bits.
FetchAddUnmasked(t) ==
    /\ pc[t] = "counter"
    /\ candidate' = [candidate EXCEPT ![t] = Compose(ts[t], counter)]
    /\ counter' = counter + 1
    /\ pc' = [pc EXCEPT ![t] = "load"]
    /\ UNCHANGED <<clock, last, ts, seen, started, calls, issued>>

FetchAdd(t) ==
    /\ pc[t] = "counter"
    /\ candidate' = [candidate EXCEPT ![t] = Compose(ts[t], counter)]
    /\ counter' = (counter + 1) % CounterMod
    /\ pc' = [pc EXCEPT ![t] = "load"]
    /\ UNCHANGED <<clock, last, ts, seen, started, calls, issued>>

LoadLast(t) ==
    /\ pc[t] = "load"
    /\ seen' = [seen EXCEPT ![t] = last]
    /\ pc' = [pc EXCEPT ![t] = "cas"]
    /\ UNCHANGED <<shared, ts, candidate, started, calls, issued>>

\* Mutant: the candidate is not raised past the value it has seen.
BumpedNot(c, l) == c

\* The candidate the loop body compares: bumped past the value it has seen.
Bumped(c, l) == IF c <= l THEN l + 1 ELSE c

\* Mutant: a plain store, whatever LAST_VERSION has become.
ExchangeUnchecked(t) ==
    /\ pc[t] = "cas"
    /\ candidate' = [candidate EXCEPT ![t] = Bumped(candidate[t], seen[t])]
    /\ last' = candidate'[t]
    /\ issued' = Append(issued, candidate'[t])
    /\ pc' = [pc EXCEPT ![t] = "idle"]
    /\ UNCHANGED <<clock, counter, ts, seen, started, calls>>

\* compare_exchange_weak succeeds: the candidate is published and returned.
Exchange(t) ==
    /\ pc[t] = "cas"
    /\ last = seen[t]
    /\ candidate' = [candidate EXCEPT ![t] = Bumped(candidate[t], seen[t])]
    /\ last' = candidate'[t]
    /\ issued' = Append(issued, candidate'[t])
    /\ pc' = [pc EXCEPT ![t] = "idle"]
    /\ UNCHANGED <<clock, counter, ts, seen, started, calls>>

\* Mutant: the failed exchange keeps the stale expected value.
RetryStale(t) ==
    /\ pc[t] = "cas"
    /\ candidate' = [candidate EXCEPT ![t] = Bumped(candidate[t], seen[t])]
    /\ UNCHANGED <<shared, pc, ts, seen, started, calls, issued>>

\* It fails, spuriously when last = seen[t]: the bump stays, the value that
\* was found becomes the expected one, and the loop runs again.
Retry(t) ==
    /\ pc[t] = "cas"
    /\ candidate' = [candidate EXCEPT ![t] = Bumped(candidate[t], seen[t])]
    /\ seen' = [seen EXCEPT ![t] = last]
    /\ UNCHANGED <<shared, pc, ts, started, calls, issued>>

Next ==
    \/ Tick
    \/ InitVersionCounter
    \/ \E t \in Threads :
          ReadClock(t) \/ FetchAdd(t) \/ LoadLast(t) \/ Exchange(t) \/ Retry(t)

\* A thread inside a call is scheduled; a weak exchange whose expected value
\* is current does not fail spuriously forever.
Fairness ==
    \A t \in Threads :
        /\ WF_vars(FetchAdd(t))
        /\ WF_vars(LoadLast(t))
        /\ WF_vars(Exchange(t))
        /\ WF_vars(Retry(t) /\ last # seen[t])

Spec == Init /\ [][Next]_vars
FairSpec == Spec /\ Fairness

----------------------------------------------------------------------------

\* "Generates strictly monotonic version number": in the order of the
\* exchanges on LAST_VERSION, every version is larger than every earlier one,
\* whatever the clock and the counter do.
StrictlyMonotonic ==
    \A i, j \in 1 .. Len(issued) : i < j => issued[i] < issued[j]

\* A call that begins after another returned gets the larger version, and a
\* version never lies before the time its call read from the clock (so that
\* version_to_time of it is not in that call's past).
OrderedAfterStart ==
    [][\A t \in Threads :
         (pc[t] = "cas" /\ pc'[t] = "idle") =>
            /\ last' > started[t]
            /\ last' \div CounterMod >= ts[t]]_vars

\* The loop is lock-free: while some thread is in the exchange loop,
\* LAST_VERSION eventually moves, even if no thread in particular wins.
LockFree ==
    \A n \in 0 .. MaxCalls :
        (Len(issued) = n /\ \E t \in Threads : pc[t] = "cas") ~> (Len(issued) > n)
============================================================================
