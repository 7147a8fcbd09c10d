--------------------------- MODULE VersionProofs ---------------------------
(***************************************************************************)
(* Proofs about Version, for any set of threads, any counter width and any *)
(* behaviour of the clock.  LAST_VERSION bounds everything issued, and a   *)
(* successful exchange always moves it up: that is the inductive invariant *)
(* behind strict monotonicity.  The per-call facts (a candidate is never   *)
(* below the time its call has read, a call starts at or below the current *)
(* LAST_VERSION) give the order between a call and those before it.        *)
(***************************************************************************)
EXTENDS Version, TLAPS

\* What a successful exchange is entered with.
CallInv ==
    \A t \in Threads :
        /\ started[t] <= last
        /\ pc[t] \in {"load", "cas"} => candidate[t] >= ts[t] * CounterMod

\* The history ends with LAST_VERSION and increases.
HistoryInv ==
    /\ \A i \in 1 .. Len(issued) : issued[i] <= last
    /\ StrictlyMonotonic

IInv == TypeOK /\ CallInv /\ HistoryInv

\* The candidate compared by the loop is a version above the one seen and
\* not below what it was.
LEMMA BumpedAbove ==
    ASSUME NEW c \in Nat, NEW l \in Nat
    PROVE  Bumped(c, l) \in Nat /\ Bumped(c, l) > l /\ Bumped(c, l) >= c
BY DEF Bumped

\* A composed version is a natural number, at or above its shifted timestamp.
LEMMA ComposeBounds ==
    ASSUME NEW us \in Nat, NEW c \in Nat
    PROVE  /\ us * CounterMod \in Nat
           /\ Compose(us, c) \in Nat
           /\ Compose(us, c) >= us * CounterMod
<1>1. CounterMod \in Nat
  BY VersionAssumption
<1>2. us * CounterMod \in Nat
  BY <1>1
<1>. QED
  BY <1>2 DEF Compose

\* The timestamp part of a version is at or above the timestamp composed in.
LEMMA TimePart ==
    ASSUME NEW v \in Nat, NEW us \in Nat, v >= us * CounterMod
    PROVE  v \div CounterMod >= us
<1>1. CounterMod \in Nat \ {0}
  BY VersionAssumption
<1>. DEFINE q == v \div CounterMod
            r == v % CounterMod
<1>2. q \in Nat /\ r \in 0 .. (CounterMod - 1) /\ v = CounterMod * q + r
  BY <1>1
<1>. HIDE DEF q, r
<1>3. ASSUME q < us PROVE FALSE
  <2>1. CounterMod * (q + 1) <= CounterMod * us
    BY <1>1, <1>2, <1>3
  <2>2. CounterMod * (q + 1) = CounterMod * q + CounterMod
    BY <1>1, <1>2
  <2>. QED
    BY <2>1, <2>2, <1>1, <1>2
<1>. QED
  BY <1>2, <1>3 DEF q

\* Every variable keeps its type in every reachable state of the generator.
THEOREM TypeCorrect == Spec => []TypeOK
<1>. USE VersionAssumption
<1>1. Init => TypeOK
  BY DEF Init, TypeOK
<1>2. TypeOK /\ [Next]_vars => TypeOK'
  <2> SUFFICES ASSUME TypeOK, [Next]_vars PROVE TypeOK'
    OBVIOUS
  <2>. USE DEF TypeOK, shared, local
  <2>1. CASE Tick
    BY <2>1 DEF Tick
  <2>2. CASE InitVersionCounter
    BY <2>2 DEF InitVersionCounter
  <2>3. ASSUME NEW t \in Threads, ReadClock(t) PROVE TypeOK'
    BY <2>3 DEF ReadClock
  <2>4. ASSUME NEW t \in Threads, FetchAdd(t) PROVE TypeOK'
    <3>1. counter' \in 0 .. (CounterMod - 1)
      BY <2>4 DEF FetchAdd
    <3>2. ts[t] \in Nat /\ counter \in Nat
      OBVIOUS
    <3>3. Compose(ts[t], counter) \in Nat
      BY <3>2, ComposeBounds
    <3>. QED
      BY <2>4, <3>1, <3>3 DEF FetchAdd
  <2>5. ASSUME NEW t \in Threads, LoadLast(t) PROVE TypeOK'
    BY <2>5 DEF LoadLast
  <2>6. ASSUME NEW t \in Threads, Exchange(t) PROVE TypeOK'
    <3>1. Bumped(candidate[t], seen[t]) \in Nat
      BY BumpedAbove
    <3>. QED
      BY <2>6, <3>1 DEF Exchange
  <2>7. ASSUME NEW t \in Threads, Retry(t) PROVE TypeOK'
    <3>1. Bumped(candidate[t], seen[t]) \in Nat
      BY BumpedAbove
    <3>. QED
      BY <2>7, <3>1 DEF Retry
  <2>8. CASE UNCHANGED vars
    BY <2>8 DEF vars
  <2>9. QED
    BY <2>1, <2>2, <2>3, <2>4, <2>5, <2>6, <2>7, <2>8 DEF Next
<1>3. QED
  BY <1>1, <1>2, PTL DEF Spec

\* One exchange extends the history by a version above all of it.
LEMMA ExchangeExtends ==
    ASSUME TypeOK, CallInv, HistoryInv, NEW t \in Threads, Exchange(t)
    PROVE  /\ HistoryInv'
           /\ last' > last
           /\ last' >= candidate[t]
<1>1. last' = Bumped(candidate[t], last) /\ issued' = Append(issued, last')
  BY DEF Exchange, TypeOK
<1>2. last' \in Nat /\ last' > last /\ last' >= candidate[t]
  BY <1>1, BumpedAbove DEF TypeOK
<1>3. Len(issued') = Len(issued) + 1
  BY <1>1, <1>2 DEF TypeOK
<1>4. \A i \in 1 .. Len(issued) : issued'[i] = issued[i]
  BY <1>1, <1>2 DEF TypeOK
<1>5. issued'[Len(issued) + 1] = last'
  BY <1>1, <1>2 DEF TypeOK
<1>0. Len(issued) \in Nat /\ last \in Nat
         /\ \A i \in 1 .. Len(issued) : issued[i] \in Nat /\ issued[i] <= last
  BY DEF HistoryInv, TypeOK
<1>6. ASSUME NEW i \in 1 .. Len(issued') PROVE issued'[i] <= last'
  <2>1. CASE i = Len(issued) + 1
    BY <2>1, <1>2, <1>5
  <2>2. CASE i # Len(issued) + 1
    <3>1. i \in 1 .. Len(issued)
      BY <2>2, <1>0, <1>3
    <3>. QED
      BY <3>1, <1>0, <1>2, <1>4
  <2>. QED
    BY <2>1, <2>2
<1>7. ASSUME NEW i \in 1 .. Len(issued'), NEW j \in 1 .. Len(issued'), i < j
      PROVE  issued'[i] < issued'[j]
  <2>1. CASE j = Len(issued) + 1
    <3>1. i \in 1 .. Len(issued)
      BY <2>1, <1>0, <1>3, <1>7
    <3>. QED
      BY <3>1, <2>1, <1>0, <1>2, <1>4, <1>5
  <2>2. CASE j # Len(issued) + 1
    <3>1. i \in 1 .. Len(issued) /\ j \in 1 .. Len(issued)
      BY <2>2, <1>0, <1>3, <1>7
    <3>. QED
      BY <3>1, <1>4, <1>7 DEF HistoryInv, StrictlyMonotonic
  <2>. QED
    BY <2>1, <2>2
<1>. QED
  BY <1>2, <1>6, <1>7 DEF HistoryInv, StrictlyMonotonic

\* The invariant is inductive.
LEMMA Inductive == Spec => []IInv
<1>. USE VersionAssumption
<1>1. Init => CallInv /\ HistoryInv
  BY DEF Init, CallInv, HistoryInv, StrictlyMonotonic
<1>2. TypeOK /\ TypeOK' /\ CallInv /\ HistoryInv /\ [Next]_vars
        => CallInv' /\ HistoryInv'
  <2> SUFFICES ASSUME TypeOK, TypeOK', CallInv, HistoryInv, [Next]_vars
               PROVE  CallInv' /\ HistoryInv'
    OBVIOUS
  <2>. USE DEF shared, local
  <2>1. ASSUME UNCHANGED <<last, issued, pc, ts, candidate, started>>
        PROVE  CallInv' /\ HistoryInv'
    BY <2>1 DEF CallInv, HistoryInv, StrictlyMonotonic
  <2>2. ASSUME NEW t \in Threads, ReadClock(t) PROVE CallInv' /\ HistoryInv'
    <3>1. HistoryInv'
      BY <2>2 DEF ReadClock, HistoryInv, StrictlyMonotonic
    <3>2. CallInv'
      BY <2>2 DEF ReadClock, CallInv, TypeOK
    <3>. QED
      BY <3>1, <3>2
  <2>3. ASSUME NEW t \in Threads, FetchAdd(t) PROVE CallInv' /\ HistoryInv'
    <3>1. HistoryInv'
      BY <2>3 DEF FetchAdd, HistoryInv, StrictlyMonotonic
    <3>2. ts[t] \in Nat /\ counter \in Nat
      BY DEF TypeOK
    <3>3. candidate'[t] = Compose(ts[t], counter) /\ ts'[t] = ts[t]
      BY <2>3 DEF FetchAdd, TypeOK
    <3>4. candidate'[t] >= ts'[t] * CounterMod
      BY <3>2, <3>3, ComposeBounds
    <3>5. CallInv'
      BY <2>3, <3>4 DEF FetchAdd, CallInv, TypeOK
    <3>. QED
      BY <3>1, <3>5
  <2>4. ASSUME NEW t \in Threads, LoadLast(t) PROVE CallInv' /\ HistoryInv'
    <3>1. HistoryInv'
      BY <2>4 DEF LoadLast, HistoryInv, StrictlyMonotonic
    <3>2. CallInv'
      BY <2>4 DEF LoadLast, CallInv, TypeOK
    <3>. QED
      BY <3>1, <3>2
  <2>5. ASSUME NEW t \in Threads, Exchange(t) PROVE CallInv' /\ HistoryInv'
    <3>1. HistoryInv' /\ last' > last
      BY <2>5, ExchangeExtends
    <3>2. CallInv'
      BY <2>5, <3>1 DEF Exchange, CallInv, TypeOK
    <3>. QED
      BY <3>1, <3>2
  <2>6. ASSUME NEW t \in Threads, Retry(t) PROVE CallInv' /\ HistoryInv'
    <3>1. HistoryInv'
      BY <2>6 DEF Retry, HistoryInv, StrictlyMonotonic
    <3>2. candidate'[t] >= candidate[t]
      BY <2>6, BumpedAbove DEF Retry, TypeOK
    <3>3. ts[t] * CounterMod \in Nat
      BY ComposeBounds DEF TypeOK
    <3>4. pc[t] = "cas" => candidate'[t] >= ts[t] * CounterMod
      BY <3>2, <3>3 DEF CallInv, TypeOK
    <3>5. CallInv'
      BY <2>6, <3>4 DEF Retry, CallInv, TypeOK
    <3>. QED
      BY <3>1, <3>5
  <2>7. QED
    BY <2>1, <2>2, <2>3, <2>4, <2>5, <2>6
       DEF Next, Tick, InitVersionCounter, vars
<1>3. QED
  BY <1>1, <1>2, TypeCorrect, PTL DEF Spec, IInv

\* Versions are unique and increase in the order of the exchanges on
\* LAST_VERSION, for any number of threads, any clock and any counter width.
THEOREM Monotonic == Spec => []StrictlyMonotonic
BY Inductive, PTL DEF IInv, HistoryInv

\* A call's version is above every version issued before the call began and
\* its time part is not below the time the call has read.
THEOREM CallOrder == Spec => OrderedAfterStart
<1>1. IInv /\ [Next]_vars =>
        [\A t \in Threads :
           (pc[t] = "cas" /\ pc'[t] = "idle") =>
              /\ last' > started[t]
              /\ last' \div CounterMod >= ts[t]]_vars
  <2> SUFFICES ASSUME IInv, Next, NEW t \in Threads,
                      pc[t] = "cas", pc'[t] = "idle"
               PROVE  last' > started[t] /\ last' \div CounterMod >= ts[t]
    BY DEF vars
  <2>1. Exchange(t)
    <3>1. ASSUME NEW u \in Threads, u # t,
                 ReadClock(u) \/ FetchAdd(u) \/ LoadLast(u) \/ Exchange(u) \/ Retry(u)
          PROVE  FALSE
      BY <3>1 DEF IInv, TypeOK, ReadClock, FetchAdd, LoadLast, Exchange, Retry, local, shared
    <3>2. ~ (Tick \/ InitVersionCounter \/ ReadClock(t) \/ FetchAdd(t) \/ LoadLast(t) \/ Retry(t))
      BY DEF IInv, TypeOK, Tick, InitVersionCounter, ReadClock, FetchAdd, LoadLast, Retry, local
    <3>. QED
      BY <3>1, <3>2 DEF Next
  <2>2. last' > last /\ last' >= candidate[t]
    BY <2>1, ExchangeExtends DEF IInv
  <2>3. last' \in Nat
    BY <2>1, BumpedAbove DEF Exchange, IInv, TypeOK
  <2>4. ts[t] \in Nat /\ ts[t] * CounterMod \in Nat /\ candidate[t] \in Nat
    BY ComposeBounds DEF IInv, TypeOK
  <2>5. last' >= ts[t] * CounterMod
    BY <2>2, <2>3, <2>4 DEF IInv, CallInv
  <2>6. last' \div CounterMod >= ts[t]
    BY <2>3, <2>4, <2>5, TimePart
  <2>. QED
    BY <2>2, <2>3, <2>6 DEF IInv, CallInv, TypeOK
<1>. QED
  BY <1>1, Inductive, PTL DEF Spec, OrderedAfterStart
============================================================================
