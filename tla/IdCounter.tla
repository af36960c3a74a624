------------------------------- MODULE IdCounter -------------------------------
(***************************************************************************)
(* The identifier counter of the knowledge base (polar-core/src/counter.rs).*)
(*                                                                         *)
(* One AtomicU64 is shared by every thread that works on a Polar instance: *)
(* call ids, instance ids, source ids and generated symbols come from it.  *)
(* Counter::next is two atomic operations, a compare-exchange that wraps   *)
(* MAX_ID back to 1 and, when that one fails, a fetch_add.  Both are       *)
(* SeqCst, so the model interleaves them; what it keeps apart is exactly   *)
(* the window between the two.                                             *)
(***************************************************************************)
EXTENDS Integers

CONSTANTS
    Threads,  \* the threads calling Counter::next
    MaxId,    \* MAX_ID, 2^53 - 1 in the code
    U64       \* 2^64: the width at which fetch_add itself wraps

ASSUME CounterAssumption ==
    /\ MaxId \in Nat \ {0}
    /\ U64 \in Nat
    /\ MaxId < U64

VARIABLES
    next,     \* the AtomicU64
    pc,       \* where each thread is in Counter::next
    id,       \* the id each thread got from its last call, 0 before the first
    lap       \* history: the ids handed out since the counter last restarted

vars == <<next, pc, id, lap>>

TypeOK ==
    /\ next \in 0 .. U64 - 1
    /\ pc \in [Threads -> {"idle", "add"}]
    /\ id \in [Threads -> 0 .. U64 - 1]
    /\ lap \subseteq 0 .. U64 - 1

Init ==
    /\ next = 1
    /\ pc = [t \in Threads |-> "idle"]
    /\ id = [t \in Threads |-> 0]
    /\ lap = {}

\* compare_exchange(MAX_ID, 1) succeeds: the call returns MAX_ID.
Wrap(t) ==
    /\ pc[t] = "idle"
    /\ next = MaxId
    /\ next' = 1
    /\ id' = [id EXCEPT ![t] = MaxId]
    /\ lap' = {}
    /\ UNCHANGED pc

\* compare_exchange fails: the thread goes on to fetch_add.
CasFails(t) ==
    /\ pc[t] = "idle"
    /\ next # MaxId
    /\ pc' = [pc EXCEPT ![t] = "add"]
    /\ UNCHANGED <<next, id, lap>>

\* A mutant of FetchAdd: the increment is lost once the counter has passed
\* MAX_ID, as in a saturating counter.
FetchAddSaturating(t) ==
    /\ pc[t] = "add"
    /\ id' = [id EXCEPT ![t] = next]
    /\ next' = IF next > MaxId THEN next ELSE next + 1
    /\ lap' = lap \cup {next}
    /\ pc' = [pc EXCEPT ![t] = "idle"]

\* A mutant of FetchAdd: the integer does not wrap.
FetchAddNoWrap(t) ==
    /\ pc[t] = "add"
    /\ id' = [id EXCEPT ![t] = next]
    /\ next' = next + 1
    /\ lap' = lap \cup {next}
    /\ pc' = [pc EXCEPT ![t] = "idle"]

\* fetch_add(1), wrapping at the width of the integer.
FetchAdd(t) ==
    /\ pc[t] = "add"
    /\ id' = [id EXCEPT ![t] = next]
    /\ next' = (next + 1) % U64
    /\ lap' = IF next + 1 = U64 THEN {} ELSE lap \cup {next}
    /\ pc' = [pc EXCEPT ![t] = "idle"]

Next == \E t \in Threads : Wrap(t) \/ CasFails(t) \/ FetchAdd(t)

Spec == Init /\ [][Next]_vars

(***************************************************************************)
(* Properties                                                              *)
(***************************************************************************)

\* The strengthening that makes uniqueness inductive: everything handed out
\* in this lap is below the counter.
BelowNext == \A i \in lap : i < next

\* No two calls get the same id until the counter restarts, however the
\* compare-exchange and the fetch_add of different threads interleave: the
\* step that hands out an id (Counter::next returning) never hands out one
\* of the current lap.
Fresh ==
    [][\A t \in Threads : (Wrap(t) \/ FetchAdd(t)) => id'[t] \notin lap]_vars

\* "Wraps around at 52 bits of precision so that it can be safely coerced to
\* an IEEE-754 double" (Counter::next): no id above MAX_ID is ever returned.
WithinDouble == \A t \in Threads : id[t] <= MaxId
================================================================================
