------------------------------ MODULE Reevaluation ------------------------------
(***************************************************************************)
(* Does a query that only unifies and compares come to an end?  A bind     *)
(* that replaces a partial hands the partial back as a goal ("needs to be  *)
(* reevaluated to ensure compatibility", BindingManager::bind), and that   *)
(* goal binds and constrains in turn.                                      *)
(*                                                                         *)
(* One branch of a query without choice points, so without backtracking:   *)
(* entries that a later one of the same variable hides are then out of     *)
(* reach for good, and are dropped to keep the state finite.               *)
(***************************************************************************)
EXTENDS Bindings

CONSTANTS
    Goals,         \* the constraints the query may state
    MaxGoals,      \* bound: constraints stated
    StackLimit     \* the virtual machine's stack_limit, 10000 in the code

ASSUME ReevaluationAssumption ==
    /\ Goals \subseteq Constraint
    /\ MaxGoals \in Nat
    /\ StackLimit \in Nat

VARIABLES
    stack,         \* the visible entries of BindingManager.bindings
    requery,       \* goals handed back, the next one first
    status,        \* "running", "failed" (a Backtrack goal), "overflow"
    told,          \* the constraints stated so far
    turn           \* history: flips with every goal the loop takes

vars == <<stack, requery, status, told, turn>>

Init ==
    /\ stack = <<>>
    /\ requery = <<>>
    /\ status = "running"
    /\ told = {}
    /\ turn = 0

\* Entries that are pushed hide the earlier ones of their variables.
Overwrite(entries) ==
    SelectSeq(stack, LAMBDA e :
                        \A i \in DOMAIN entries : entries[i].var # e.var) \o entries

\* A mutant of Tell: the goal stays on the goal stack when it needs no binding.
TellAgain(c, rest) ==
    /\ status = "running"
    /\ \E result \in {Query(States(stack), c)} :
            /\ status' = IF result.ok THEN "running" ELSE "failed"
            /\ stack' = Overwrite(result.push)
            /\ requery' = IF ~result.ok THEN <<>>
                          ELSE IF result.push = <<>> THEN <<c>> \o rest
                          ELSE result.requery \o rest

\* The goal c, with the goals that wait behind it.  push_goal refuses a goal
\* when the goal stack is full, which ends the query with an error.
Tell(c, rest) ==
    /\ status = "running"
    /\ \E result \in {Query(States(stack), c)} :
            LET goals == result.requery \o rest IN
            /\ status' = CASE ~result.ok -> "failed"
                           [] Len(goals) > StackLimit -> "overflow"
                           [] OTHER -> "running"
            /\ stack' = Overwrite(result.push)
            /\ requery' = IF status' = "running" THEN goals ELSE <<>>

StateGoal(c) ==
    /\ requery = <<>>
    /\ c \notin told /\ Cardinality(told) < MaxGoals
    /\ told' = told \cup {c}
    /\ Tell(c, <<>>)
    /\ UNCHANGED turn

Requery ==
    /\ requery # <<>>
    /\ Tell(Head(requery), Tail(requery))
    /\ turn' = 1 - turn
    /\ UNCHANGED told

Next == (\E c \in Goals : StateGoal(c)) \/ Requery

\* The loop of PolarVirtualMachine::run takes goals as long as there are any:
\* weak fairness of Requery, the one action that can be taken then.
Loop == requery # <<>> /\ turn' = 1 - turn

Spec == Init /\ [][Next]_vars /\ WF_turn(Loop)

(***************************************************************************)
(* Properties                                                              *)
(***************************************************************************)

\* What was handed back is done with at some point, and the query goes on.
Settles == requery # <<>> ~> requery = <<>>

\* "Control passes back and forth until the dialog terminates with a final
\* yes or a no answer to the original authorization question" (internals.md):
\* a query of a few comparisons never ends in an overflow of the goal stack.
NeverOverflows == status # "overflow"

\* A query whose goals have all been told and settled has found exactly what
\* its goals say: a branch is given up only when no assignment satisfies
\* them, and what is left on the stack allows those that do and no other.
AnswersGoals ==
    LET solutions == {m \in Assignments : \A c \in told : Sat(m, c)} IN
    requery = <<>> =>
        solutions = IF status = "failed" THEN {} ELSE Meaning(stack)
================================================================================
