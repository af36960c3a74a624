---------------------------- MODULE IdCounter_proof ----------------------------
(***************************************************************************)
(* Theorems about IdCounter, for every number of threads, every MAX_ID and *)
(* every width of the counter.                                             *)
(***************************************************************************)
EXTENDS IdCounter, TLAPS

IInv == TypeOK /\ BelowNext

\* What fetch_add leaves in the counter is again a value of its width.
LEMMA AddWraps ==
    ASSUME NEW n \in 0 .. U64 - 1
    PROVE  /\ (n + 1) % U64 \in 0 .. U64 - 1
           /\ n + 1 # U64 => (n + 1) % U64 = n + 1
  BY CounterAssumption

LEMMA InitIInv == Init => IInv
  BY CounterAssumption DEF Init, IInv, TypeOK, BelowNext

LEMMA NextIInv == IInv /\ [Next]_vars => IInv'
<1> SUFFICES ASSUME IInv, [Next]_vars PROVE IInv'
    OBVIOUS
<1> USE CounterAssumption DEF IInv, TypeOK, BelowNext
<1>1. ASSUME NEW t \in Threads, Wrap(t) PROVE IInv'
    BY <1>1 DEF Wrap
<1>2. ASSUME NEW t \in Threads, CasFails(t) PROVE IInv'
    BY <1>2 DEF CasFails
<1>3. ASSUME NEW t \in Threads, FetchAdd(t) PROVE IInv'
    <2>1. (next + 1) % U64 \in 0 .. U64 - 1
        BY AddWraps
    <2>2. TypeOK'
        BY <1>3, <2>1 DEF FetchAdd
    <2>3. CASE next + 1 = U64
        BY <1>3, <2>2, <2>3 DEF FetchAdd
    <2>4. CASE next + 1 # U64
        <3>1. next' = next + 1
            BY <1>3, <2>4, AddWraps DEF FetchAdd
        <3>2. lap' = lap \cup {next}
            BY <1>3, <2>4 DEF FetchAdd
        <3> QED
            BY <2>2, <3>1, <3>2
    <2> QED
        BY <2>3, <2>4
<1>4. CASE UNCHANGED vars
    BY <1>4 DEF vars
<1> QED
    BY <1>1, <1>2, <1>3, <1>4 DEF Next

\* The counter, the threads and the history keep their types: Counter::next
\* never leaves the width of the AtomicU64.
THEOREM TypeCorrect == Spec => []TypeOK
<1>1. IInv => TypeOK
    BY DEF IInv
<1> QED
    BY InitIInv, NextIInv, <1>1, PTL DEF Spec

\* Every id handed out since the last restart of the counter is below it.
THEOREM CounterAboveLap == Spec => []BelowNext
<1>1. IInv => BelowNext
    BY DEF IInv
<1> QED
    BY InitIInv, NextIInv, <1>1, PTL DEF Spec

\* Whatever the interleaving of compare-exchange and fetch_add, an id is
\* handed out at most once before the counter restarts.
THEOREM IdsFresh == Spec => Fresh
<1>1. IInv /\ [Next]_vars
        => [\A t \in Threads : (Wrap(t) \/ FetchAdd(t)) => id'[t] \notin lap]_vars
    <2> SUFFICES ASSUME IInv, NEW t \in Threads, Wrap(t) \/ FetchAdd(t)
                 PROVE  id'[t] \notin lap
        OBVIOUS
    <2>1. id'[t] = next
        BY DEF Wrap, FetchAdd, IInv, TypeOK
    <2> QED
        BY <2>1, CounterAssumption DEF IInv, TypeOK, BelowNext
<1> QED
    BY InitIInv, NextIInv, <1>1, PTL DEF Spec, Fresh
================================================================================
