-------------------------------- MODULE Inverter --------------------------------
(***************************************************************************)
(* How `not` finds out what its operand did: the Inverter of               *)
(* polar-core/src/inverter.rs runs the operand on a clone of the virtual   *)
(* machine, whose binding manager has a follower: a second binding         *)
(* manager, empty at first, that is told every binding and constraint the  *)
(* main one is told (add_follower, do_followers, bind, add_constraint and  *)
(* backtrack in polar-core/src/bindings.rs).  For each result of the       *)
(* operand the follower is taken away and a new, empty one put in place.   *)
(*                                                                         *)
(* What the followers collected is then negated; the simplifier that does  *)
(* so is not modelled.  Followers of an enclosing `not` are left out: what *)
(* they are told here is thrown away with the clone.                       *)
(***************************************************************************)
EXTENDS Bindings

CONSTANTS
    Goals,         \* the constraints the policy may state
    MaxOuter,      \* bound: constraints stated before the `not`
    MaxInner,      \* bound: constraints stated on a branch of its operand
    MaxStack,      \* bound: entries a requery finds on the stack
    MaxChoices     \* bound: choice points, and results that take a later one

ASSUME InverterAssumption ==
    /\ Goals \subseteq Constraint
    /\ {MaxOuter, MaxInner, MaxStack, MaxChoices} \subseteq Nat

VARIABLES
    main,          \* bindings of the virtual machine
    requery,       \* constraints handed back, at the top of the goal stack
    before,        \* history: main when the inverter started
    follower,      \* [id, bindings] of the one follower
    choices,       \* Choice: bsp and followerBsp (Bsps), alternatives left
    results,       \* Inverter.results, each with (history) main at that time
    phase,         \* "outer", "inner", "failed", "error", "panic", "done"
    told           \* history: the constraints stated in this phase

vars == <<main, requery, before, follower, choices, results, phase, told>>

Stack == Seq(Binding)

TypeOK ==
    /\ {main, before, follower.bindings} \subseteq Stack
    /\ requery \in Conjunction
    /\ follower.id \in Nat
    /\ \A i \in DOMAIN choices :
            /\ choices[i].bsp \in Len(before) .. Len(main)
            /\ choices[i].id <= follower.id
            /\ choices[i].id = follower.id =>
                    choices[i].followerBsp \in 0 .. Len(follower.bindings)
    /\ \A i \in DOMAIN results : results[i].main \in Stack
    /\ phase \in {"outer", "inner", "failed", "error", "panic", "done"}
    /\ told \subseteq Goals

NoFollower == [id |-> 0, bindings |-> <<>>]

Init ==
    /\ main = <<>> /\ before = <<>>
    /\ requery = <<>> /\ choices = <<>> /\ results = <<>>
    /\ follower = NoFollower
    /\ phase = "outer"
    /\ told = {}

(***************************************************************************)
(* Telling the main stack and its follower                                 *)
(***************************************************************************)

\* One operation after another on a stack.
Then(stack, first, second(_)) ==
    IF ~first.ok THEN Incompatible ELSE
    LET next == second(stack \o first.push)
    IN  [next EXCEPT !.push = first.push \o @]

\* A bind in main extends a partial by means of add_constraint, which tells
\* the follower; then bind tells the follower as well.
ExtendsPartial(v, t) ==
    /\ t.tag = "var" /\ t.v # v
    /\ LET kinds == {VariableState(main, v).kind, VariableState(main, t.v).kind}
       IN  "Partial" \in kinds /\ kinds \cap {"Unbound", "Cycle"} # {}

FollowBind(v, t) ==
    LET stack == follower.bindings
        bind(s) == Bind(States(s), v, t)
    IN  IF ExtendsPartial(v, t)
        THEN Then(stack, AddConstraint(States(stack), Unify(VarT(v), t)), bind)
        ELSE bind(stack)

\* A mutant of Follow: constraints do not reach the follower.
FollowBindings(c) ==
    CASE IsGround(Deref(States(main), c)) \/ c.op = "Neq" -> Pushed(<<>>)
      [] c.l.tag = "var" -> Bind(States(follower.bindings), c.l.v, c.r)
      [] OTHER -> Bind(States(follower.bindings), c.r.v, c.l)

\* What main does with c it has its follower do: bind when it binds, and
\* add_constraint when it adds a constraint; comparing values tells nothing.
\* The follower's own goals to be queried again are dropped.
Follow(c) ==
    CASE IsGround(Deref(States(main), c)) -> Pushed(<<>>)
      [] c.op = "Neq" ->
            AddConstraint(States(follower.bindings), Deref(States(main), c))
      [] c.l.tag = "var" -> FollowBind(c.l.v, c.r)
      [] OTHER -> FollowBind(c.r.v, c.l)

\* A constraint that does not fit is an error of the query, and a bind a
\* branch that fails; but when only the follower's bind fails, it is a panic
\* (unwrap).
Failure(c, mainOk) ==
    CASE c.op = "Neq" /\ ~IsGround(Deref(States(main), c)) -> "error"
      [] mainOk -> "panic"
      [] phase = "outer" -> "done"
      [] OTHER -> "failed"

Tell(c, rest) ==
    \E result \in {Query(States(main), c)} :
    \E following \in {IF phase = "outer" THEN Pushed(<<>>) ELSE Follow(c)} :
        IF result.ok /\ following.ok
        THEN /\ main' = main \o result.push
             /\ follower' = [follower EXCEPT !.bindings = @ \o following.push]
             /\ requery' = result.requery \o rest
             /\ UNCHANGED phase
        ELSE /\ phase' = Failure(c, result.ok)
             /\ UNCHANGED <<main, follower, requery>>

StateGoal(c) ==
    /\ phase \in {"outer", "inner"} /\ requery = <<>>
    /\ c \notin told
    /\ Cardinality(told) < IF phase = "outer" THEN MaxOuter ELSE MaxInner
    /\ Tell(c, <<>>)
    /\ told' = told \cup {c}
    /\ UNCHANGED <<before, choices, results>>

Requery ==
    /\ phase \in {"outer", "inner"} /\ requery # <<>>
    /\ Len(main) <= MaxStack
    /\ Tell(Head(requery), Tail(requery))
    /\ UNCHANGED <<before, choices, results, told>>

(***************************************************************************)
(* The inverter                                                            *)
(***************************************************************************)

\* Inverter::new (a clone of the bindings, and no choices), and the
\* add_binding_follower of its first run.
Start ==
    /\ phase = "outer" /\ requery = <<>>
    /\ phase' = "inner"
    /\ before' = main
    /\ told' = {}
    /\ UNCHANGED <<main, requery, follower, choices, results>>

PushChoice ==
    /\ phase = "inner" /\ requery = <<>>
    /\ Len(choices) + Len(results) < MaxChoices
    /\ choices' = Append(choices,
                    [bsp |-> Len(main), id |-> follower.id,
                     followerBsp |-> Len(follower.bindings),
                     alternatives |-> 1, told |-> told])
    /\ UNCHANGED <<main, requery, before, follower, results, phase, told>>

\* A mutant of Result: the next follower gets the same id.
ResultSameId ==
    /\ phase = "inner" /\ requery = <<>>
    /\ results' = Append(results, [bindings |-> follower.bindings, main |-> main])
    /\ follower' = [follower EXCEPT !.bindings = <<>>]
    /\ phase' = "failed"
    /\ UNCHANGED <<main, requery, before, choices, told>>

\* A result: its follower is kept, the next one starts empty, and the virtual
\* machine is run again, which backtracks (or is done, without choices).
Result ==
    /\ phase = "inner" /\ requery = <<>>
    /\ results' = Append(results, [bindings |-> follower.bindings, main |-> main])
    /\ follower' = [id |-> follower.id + 1, bindings |-> <<>>]
    /\ phase' = "failed"
    /\ UNCHANGED <<main, requery, before, choices, told>>

\* A mutant of FollowerBacktrack: a follower is left as it is.
FollowerBacktrackNot(choice) == follower

\* A follower the choice does not know of goes back to nothing.
FollowerBacktrack(choice) ==
    LET to == IF choice.id = follower.id THEN choice.followerBsp ELSE 0
    IN  [follower EXCEPT !.bindings = SubSeq(@, 1, to)]

Backtrack ==
    /\ phase = "failed" /\ choices # <<>>
    /\ main' = SubSeq(main, 1, Last(choices).bsp)
    /\ follower' = FollowerBacktrack(Last(choices))
    /\ requery' = <<>>
    /\ told' = Last(choices).told
    /\ choices' = Front(choices)
    /\ phase' = "inner"
    /\ UNCHANGED <<before, results>>

\* Done, with no choice left: no result means that `not` succeeds, and else
\* the results are negated.
Done ==
    /\ phase = "failed" /\ choices = <<>>
    /\ phase' = "done"
    /\ UNCHANGED <<main, requery, before, follower, choices, results, told>>

Next ==
    \/ \E c \in Goals : StateGoal(c)
    \/ Requery
    \/ Start
    \/ PushChoice
    \/ Result
    \/ Backtrack
    \/ Done

Spec == Init /\ [][Next]_vars

(***************************************************************************)
(* Properties                                                              *)
(***************************************************************************)

\* "If the main binding succeeded, the follower binding must succeed"
\* (BindingManager::bind, which unwraps the follower's result), though the
\* follower has seen other bindings than the main stack.
FollowerSucceeds == phase # "panic"

\* A follower never holds more than the operand said: an assignment that main
\* allows fits the follower of the result too.
ResultsSound ==
    \A i \in DOMAIN results :
        Meaning(results[i].main) \subseteq Meaning(results[i].bindings)

\* A follower holds all a result adds to the bindings before the `not`.
Complete(result) ==
    Meaning(before) \cap Meaning(result.bindings) = Meaning(result.main)

\* So it is for the first result, whose follower was there from the start.
FirstComplete == results # <<>> => Complete(results[1])

\* "If the inverter has results, the new bindings or constraints made during
\* the query are inverted" (Inverter): so it should be for every result.
ResultsComplete == \A i \in DOMAIN results : Complete(results[i])
================================================================================
