----------------------------- MODULE BindingManager -----------------------------
(***************************************************************************)
(* The binding manager as the virtual machine drives it: unification and   *)
(* inequations tell it constraints, the goals it hands back are queried    *)
(* next, choice points record its stack pointer (Bsp) and backtracking     *)
(* truncates the stack to one of them.                                     *)
(*                                                                         *)
(* polar-core/src/bindings.rs, with the parts of polar-core/src/vm.rs that *)
(* call it (unify, query_op_helper, push_choice, backtrack, cut).          *)
(***************************************************************************)
EXTENDS Bindings

CONSTANTS
    Goals,         \* the constraints the policy may state
    MaxGoals,      \* bound: constraints stated on a branch
    MaxStack,      \* bound: entries a requery finds on the stack
    MaxChoices     \* bound: choice points

ASSUME ManagerAssumption ==
    /\ Goals \subseteq Constraint
    /\ MaxGoals \in Nat
    /\ MaxStack \in Nat
    /\ MaxChoices \in Nat

VARIABLES
    stack,         \* BindingManager.bindings
    requery,       \* constraints handed back, at the top of the goal stack
    choices,       \* Choice: bsp, alternatives left, and (history) the stack
    status,        \* "running", "failed" (a Backtrack goal), "error", "halted"
    told           \* history: what the goals of this branch have said

vars == <<stack, requery, choices, status, told>>

Choice ==
    [bsp : Nat, alternatives : Nat,
     snapshot : Seq(Binding), told : SUBSET Constraint]

TypeOK ==
    /\ stack \in Seq(Binding)
    /\ requery \in Conjunction
    /\ choices \in Seq(Choice)
    /\ status \in {"running", "failed", "error", "halted"}
    /\ told \in SUBSET Constraint

Init ==
    /\ stack = <<>>
    /\ requery = <<>>
    /\ choices = <<>>
    /\ status = "running"
    /\ told = {}

(***************************************************************************)
(* Telling constraints                                                     *)
(***************************************************************************)

\* A goal of the policy, or one handed back, with the goals that wait behind
\* it.  A bind that fails is a Backtrack goal; a constraint that does not fit
\* the others is an error of the query (the `?` after add_constraint).
Tell(c, rest) ==
    LET isError == c.op = "Neq" /\ ~IsGround(Deref(States(stack), c)) IN
    /\ \E result \in {Query(States(stack), c)} :
            IF result.ok
            THEN /\ stack' = stack \o result.push
                 /\ requery' = result.requery \o rest
                 /\ UNCHANGED status
            ELSE /\ status' = IF isError THEN "error" ELSE "failed"
                 /\ UNCHANGED <<stack, requery>>
    /\ UNCHANGED choices

\* Bound: a branch states MaxGoals constraints, and none of them twice.
CanState(c) ==
    /\ status = "running" /\ requery = <<>>
    /\ Cardinality(told) < MaxGoals /\ c \notin told

\* A Unify goal or a `!=` of the policy.
StateGoal(c) ==
    /\ CanState(c)
    /\ Tell(c, <<>>)
    /\ told' = told \cup {c}

\* The goals a bind handed back run before any other.
Requery ==
    /\ status = "running" /\ requery # <<>>
    /\ Len(stack) <= MaxStack
    /\ Tell(Head(requery), Tail(requery))
    /\ UNCHANGED told

(***************************************************************************)
(* Choice points                                                           *)
(***************************************************************************)

\* A mutant of PushChoice: the stack pointer is that of the last entry.
PushChoiceAtLast(n) ==
    /\ status = "running" /\ requery = <<>>
    /\ Len(choices) < MaxChoices
    /\ choices' = Append(choices, [bsp |-> Len(stack) - 1, alternatives |-> n,
                                   snapshot |-> stack, told |-> told])
    /\ UNCHANGED <<stack, requery, status, told>>

PushChoice(n) ==
    /\ status = "running" /\ requery = <<>>
    /\ Len(choices) < MaxChoices
    /\ choices' = Append(choices, [bsp |-> Len(stack), alternatives |-> n,
                                   snapshot |-> stack, told |-> told])
    /\ UNCHANGED <<stack, requery, status, told>>

Cut(i) ==
    /\ status = "running" /\ requery = <<>>
    /\ choices' = SubSeq(choices, 1, i)
    /\ UNCHANGED <<stack, requery, status, told>>

\* Choices without alternatives are dropped on the way down.
Open == {i \in DOMAIN choices : choices[i].alternatives > 0}

\* The goals of the choice are those of the time it was made, when nothing
\* was handed back.
Resume(choice, below) ==
    /\ stack' = SubSeq(stack, 1, choice.bsp)
    /\ requery' = <<>>
    /\ status' = "running"
    /\ told' = choice.told
    /\ choices' = IF choice.alternatives = 1 THEN below
                  ELSE Append(below, [choice EXCEPT !.alternatives = @ - 1])

\* With no alternative left, every choice has been dropped and the query halts.
Exhausted ==
    /\ status' = "halted"
    /\ choices' = <<>>
    /\ stack' = IF choices = <<>> THEN stack ELSE SubSeq(stack, 1, choices[1].bsp)
    /\ UNCHANGED <<requery, told>>

\* A mutant of Backtrack: the bindings go back to the first choice of all.
BacktrackToBottom ==
    /\ status \in {"running", "failed"}
    /\ \E top \in Open :
            /\ \A i \in Open : i <= top
            /\ Resume([choices[top] EXCEPT !.bsp = choices[1].bsp],
                      SubSeq(choices, 1, top - 1))

Backtrack ==
    /\ status \in {"running", "failed"}
    /\ \/ Open = {} /\ Exhausted
       \/ \E top \in Open :
                /\ \A i \in Open : i <= top
                /\ Resume(choices[top], SubSeq(choices, 1, top - 1))

Next ==
    \/ \E c \in Goals : StateGoal(c)
    \/ Requery
    \/ \E n \in {0, 2} : PushChoice(n)
    \/ \E i \in 0 .. Len(choices) : Cut(i)
    \/ Backtrack

Spec == Init /\ [][Next]_vars

(***************************************************************************)
(* Properties                                                              *)
(***************************************************************************)

\* Looking a variable up always ends: variable_state_at_point would follow a
\* chain that runs into a cycle the variable is not on for ever.  With more
\* variables and inequations it does (MC_Joins).
LookupEnds == \A v \in Var : Ends(stack, v)

\* A constraint that does not fit is a failed branch, found by a bind; it
\* never surfaces as an IncompatibleBindings error of the query, which is
\* what add_constraint's `?` would make of it.  With more variables and
\* inequations it may (MC_Retied).
NoRuntimeError == status # "error"

\* Backtracking restores the very stack a choice was made with, whatever was
\* bound, cut or rolled back in between.
SnapshotsIntact ==
    \A i \in DOMAIN choices :
        /\ choices[i].bsp <= Len(stack)
        /\ SubSeq(stack, 1, choices[i].bsp) = choices[i].snapshot

\* The assignments the machine still allows: none once a branch has failed, else
\* those of the stack that satisfy what is still to be queried again.
Allowed ==
    IF status # "running" THEN {}
    ELSE {m \in Meaning(stack) : SatAll(m, requery)}

\* The stack, with its cycles and partials, is a store of constraints: no
\* constraint told is lost, none is invented, a bind fails only when nothing
\* is left, and backtracking restores what was allowed at the choice.  With two
\* inequations, equations that join their variables may be lost.
Store == INSTANCE ConstraintStore WITH
    models <- Allowed,
    saved <- [i \in DOMAIN choices |->
                 [told |-> choices[i].told,
                  models |-> Meaning(SubSeq(stack, 1, choices[i].bsp))]]

ImplementsStore == Store!StoreSpec

\* "If the binding was between two variables, the two will always have the
\* same value or constraints going forward" (BindingManager::bind): two
\* variables that have been unified are told apart by no assignment allowed.
UnifiedAgree ==
    \A c \in told :
        c.op = "Unify" => \A m \in Allowed : Eval(m, c.l) = Eval(m, c.r)
================================================================================
