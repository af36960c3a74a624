-------------------------------- MODULE Bindings --------------------------------
(***************************************************************************)
(* The data structure of polar-core/src/bindings.rs, as operators on one   *)
(* binding stack.  A BindingManager holds such a stack, and one more for   *)
(* each of its followers; the machines that use them are BindingManager    *)
(* and Inverter.                                                           *)
(*                                                                         *)
(* A stack is a sequence of entries (variable, value); the last entry of a *)
(* variable counts.  The value of an entry is a ground term, a variable    *)
(* (two variables unified with each other form a cycle of entries), or a   *)
(* partial: the conjunction of the constraints on the variable.            *)
(*                                                                         *)
(* Abstractions.  Ground terms are the elements of Const and are compared  *)
(* by equality only.  A constraint is an equation or an inequation between *)
(* variables and ground terms; a conjunction is the sequence of its        *)
(* constraints.  A constraint that grounding has found true is left out,   *)
(* where the code keeps an empty conjunction in its place.                 *)
(***************************************************************************)
EXTENDS Integers, Sequences, FiniteSets, SequencesExt

CONSTANTS
    Var,     \* the variables (Symbol)
    Const    \* the ground values

ASSUME BindingsAssumption == IsFiniteSet(Var) /\ IsFiniteSet(Const)

(***************************************************************************)
(* Terms, constraints and entries                                          *)
(***************************************************************************)

VarT(v) == [tag |-> "var", v |-> v]
ConstT(c) == [tag |-> "const", v |-> c]
PartialT(p) == [tag |-> "partial", v |-> p]

Operand == [tag : {"var"}, v : Var] \cup [tag : {"const"}, v : Const]
Constraint == [op : {"Unify", "Neq"}, l : Operand, r : Operand]
Conjunction == Seq(Constraint)
Value == Operand \cup [tag : {"partial"}, v : Conjunction]
Binding == [var : Var, val : Value]

Unify(l, r) == [op |-> "Unify", l |-> l, r |-> r]
Neq(l, r) == [op |-> "Neq", l |-> l, r |-> r]

\* Operation::variables.
Variables(p) ==
    {v \in Var : \E i \in DOMAIN p : VarT(v) \in {p[i].l, p[i].r}}

\* The items of p at some of its places, in their order.
Picked(p, places) ==
    LET upTo[n \in 0 .. Len(p)] ==
            IF n = 0 THEN <<>>
            ELSE IF n \in places THEN Append(upTo[n - 1], p[n]) ELSE upTo[n - 1]
    IN  upTo[Len(p)]

\* Operation::merge_constraints: those of q that p has not got yet follow.
Merge(p, q) ==
    p \o Picked(q, {i \in DOMAIN q :
                        q[i] \notin ToSet(p) /\ \A j \in 1 .. i - 1 : q[j] # q[i]})

(***************************************************************************)
(* The state of a variable                                                 *)
(***************************************************************************)

\* The most recent entry of v, when it has one (value).
Latest(stack, v) ==
    {i \in DOMAIN stack :
        /\ stack[i].var = v
        /\ \A j \in i + 1 .. Len(stack) : stack[j].var # v}

\* The walk of _variable_state_at_point from v: it follows entries that
\* hold a variable until it finds no entry, a value, a partial, or v again.
Stops(stack, path) ==
    \A i \in Latest(stack, path[Len(path)]) :
        stack[i].val.tag = "var" => stack[i].val.v = path[1]

Follows(stack, path) ==
    \A n \in 1 .. Len(path) - 1 :
        \E i \in Latest(stack, path[n]) : stack[i].val = VarT(path[n + 1])

\* A walk that comes to a variable other than the first again never ends.
Paths ==
    {path \in UNION {[1 .. n -> Var] : n \in 1 .. Cardinality(Var)} : IsInjective(path)}

Walks(stack, v) ==
    {path \in Paths : path[1] = v /\ Follows(stack, path) /\ Stops(stack, path)}

\* A chain that runs into a cycle v is not on is walked for ever.
Ends(stack, v) == Walks(stack, v) # {}

\* Where the walk from v ends, and the variables it passed, which are the
\* cycle when it closed one: BindingManagerVariableState.
VariableState(stack, v) ==
    IF ~Ends(stack, v) THEN [kind |-> "Loops", path |-> <<>>] ELSE
    LET path == CHOOSE p \in Walks(stack, v) : TRUE
        latest == Latest(stack, path[Len(path)])
        val == stack[CHOOSE i \in latest : TRUE].val
    IN  IF latest = {}
        THEN [kind |-> "Unbound", path |-> path]
        ELSE [kind |-> CASE val.tag = "const" -> "Bound"
                         [] val.tag = "partial" -> "Partial"
                         [] OTHER -> "Cycle",
              path |-> path,
              val |-> val]

\* The operations look at the stack only through the state of its variables.
States(stack) == [v \in Var |-> VariableState(stack, v)]

\* cycle_constraints: each step of the cycle as an equation.
CycleConstraints(cycle) ==
    [i \in 1 .. Len(cycle) - 1 |-> Unify(VarT(cycle[i]), VarT(cycle[i + 1]))]

(***************************************************************************)
(* Grounding a conjunction (Operation::ground, in partial/partial.rs)      *)
(***************************************************************************)

Subst(t, env) == IF t.tag = "var" /\ t.v \in DOMAIN env THEN env[t.v] ELSE t

SubstIn(c, env) == [c EXCEPT !.l = Subst(c.l, env), !.r = Subst(c.r, env)]

IsGround(c) == c.l.tag = "const" /\ c.r.tag = "const"

Holds(c) == IF c.op = "Unify" THEN c.l = c.r ELSE c.l # c.r

Consistent(p, env) ==
    \A i \in DOMAIN p : IsGround(SubstIn(p[i], env)) => Holds(SubstIn(p[i], env))

Grounded(p, env) ==
    LET ground == {i \in DOMAIN p : IsGround(SubstIn(p[i], env))}
    IN  Picked([i \in DOMAIN p |-> SubstIn(p[i], env)], DOMAIN p \ ground)

(***************************************************************************)
(* Operations on a stack, given the state of each variable in it.  Each    *)
(* returns whether it succeeds, the entries it pushes and the constraints  *)
(* it hands back to be queried again.                                      *)
(***************************************************************************)

Pushed(entries) == [ok |-> TRUE, push |-> entries, requery |-> <<>>]
Requeried(entries, p) == [ok |-> TRUE, push |-> entries, requery |-> p]
Incompatible == [ok |-> FALSE, push |-> <<>>, requery |-> <<>>]

Entry(v, val) == [var |-> v, val |-> val]

\* partial_bind: v, constrained by p, gets the ground value val.
PartialBind(p, v, val) ==
    LET env == [x \in {v} |-> val] IN
    IF Consistent(p, env)
    THEN Requeried(<<Entry(v, val)>>, Grounded(p, env))
    ELSE Incompatible

\* The constraint c, behind those its variables have already.
ConstraintsOn(state, t) ==
    LET s == state[t.v] IN
    IF t.tag = "const" THEN <<>> ELSE
    CASE s.kind = "Cycle" -> CycleConstraints(s.path)
      [] s.kind = "Partial" -> s.val.v
      [] OTHER -> <<>>

Merged(state, c) ==
    Merge(ConstraintsOn(state, c.l), Merge(ConstraintsOn(state, c.r), <<c>>))

\* Every variable of a set gets the same partial, in the order of a HashSet.
Constrain(vars, p) ==
    LET seq == SetToSeq(vars)
    IN  Pushed([i \in DOMAIN seq |-> Entry(seq[i], PartialT(p))])

\* A mutant of AddConstraint: the constraint replaces those its variables had.
AddConstraintUnmerged(state, c) == Constrain(Variables(<<c>>), <<c>>)

\* add_constraint, without the followers: merge the constraint with those on
\* its variables, put in the values of bound variables, and give the result
\* to every variable that is left.
AddConstraint(state, c) ==
    LET merged == Merged(state, c)
        bound == {v \in Variables(merged) :
                    state[v].kind = "Bound"}
        env == [v \in bound |-> state[v].val]
    IN  IF Consistent(merged, env)
        THEN Constrain(Variables(merged) \ bound, Grounded(merged, env))
        ELSE Incompatible

\* A mutant of Tie: the variables are tied, and not the ends of their cycles.
TieHeads(lastLeft, right, lastRight, left) ==
    Pushed(<<Entry(left, VarT(right)), Entry(right, VarT(left))>>)

\* The two entries that tie the ends of two cycles (or free variables)
\* together.
Tie(lastLeft, right, lastRight, left) ==
    Pushed(<<Entry(lastLeft, VarT(right)), Entry(lastRight, VarT(left))>>)

\* A mutant of Overlap: two partials are always taken for separate ones.
OverlapNever(left, p) == FALSE

\* Two partials "already overlap" when the right one mentions the left variable.
Overlap(left, p) == left \in Variables(p)

\* bind_variables.
BindVariables(state, left, right) ==
    LET ls == state[left]
        rs == state[right]
        kinds == <<ls.kind, rs.kind>>
        onCycle(s) == s.kind \in {"Unbound", "Cycle"}
    IN
    IF left = right THEN Pushed(<<>>) ELSE
    CASE kinds = <<"Unbound", "Unbound">> -> Tie(left, right, right, left)
      [] kinds = <<"Unbound", "Cycle">> -> Tie(Last(rs.path), left, left, right)
      [] kinds = <<"Cycle", "Unbound">> -> Tie(Last(ls.path), right, right, left)
      [] kinds = <<"Cycle", "Cycle">> ->
            IF ToSet(ls.path) \cap ToSet(rs.path) # {}
            THEN Pushed(<<>>)
            ELSE Tie(Last(ls.path), right, Last(rs.path), left)
      [] onCycle(ls) /\ rs.kind = "Bound" -> Pushed(<<Entry(left, rs.val)>>)
      [] ls.kind = "Bound" /\ onCycle(rs) -> Pushed(<<Entry(right, ls.val)>>)
      [] kinds = <<"Bound", "Bound">> ->
            IF ls.val = rs.val THEN Pushed(<<>>) ELSE Incompatible
      [] kinds = <<"Bound", "Partial">> -> PartialBind(rs.val.v, right, ls.val)
      [] kinds = <<"Partial", "Bound">> -> PartialBind(ls.val.v, left, rs.val)
      [] kinds = <<"Partial", "Partial">> ->
            IF Overlap(left, rs.val.v)
            THEN Pushed(<<>>)
            ELSE Requeried(<<Entry(left, VarT(right)), Entry(right, VarT(left))>>,
                           ls.val.v \o rs.val.v)
      [] OTHER -> AddConstraint(state, Unify(VarT(left), VarT(right)))

\* bind, without the followers.
Bind(state, v, t) ==
    IF t.tag = "var"
    THEN BindVariables(state, v, t.v)
    ELSE LET s == state[v] IN
         CASE s.kind = "Partial" -> PartialBind(s.val.v, v, t)
           [] s.kind = "Bound" -> Incompatible
           [] OTHER -> Pushed(<<Entry(v, t)>>)

(***************************************************************************)
(* Goals of the virtual machine that tell the stack a constraint           *)
(***************************************************************************)

\* A mutant of DerefOperand: bound variables are left as they are.
DerefNone(state, t) == t

DerefOperand(state, t) ==
    LET s == state[t.v]
    IN  IF t.tag = "var" /\ s.kind = "Bound" THEN s.val ELSE t

\* A constraint with the values of its bound variables put in.
Deref(state, c) ==
    [c EXCEPT !.l = DerefOperand(state, @), !.r = DerefOperand(state, @)]

Compared(c) == IF Holds(c) THEN Pushed(<<>>) ELSE Incompatible

\* Goal::Unify of two operands: values are compared, a variable is bound.
UnifyOperands(state, c) ==
    IF IsGround(Deref(state, c)) THEN Compared(Deref(state, c))
    ELSE IF c.l.tag = "var" THEN Bind(state, c.l.v, c.r)
                            ELSE Bind(state, c.r.v, c.l)

\* The query of `l != r` (query_op_helper): values are compared, anything
\* else is a constraint.
QueryNeq(state, c) ==
    IF IsGround(Deref(state, c)) THEN Compared(Deref(state, c))
                                 ELSE AddConstraint(state, Deref(state, c))

Query(state, c) ==
    IF c.op = "Unify" THEN UnifyOperands(state, c) ELSE QueryNeq(state, c)

(***************************************************************************)
(* What a stack means: the assignments of values to variables it allows.   *)
(***************************************************************************)

Assignments == [Var -> Const]

Eval(m, t) == IF t.tag = "var" THEN m[t.v] ELSE t.v

Sat(m, c) ==
    IF c.op = "Unify" THEN Eval(m, c.l) = Eval(m, c.r)
                      ELSE Eval(m, c.l) # Eval(m, c.r)

SatAll(m, p) == \A i \in DOMAIN p : Sat(m, p[i])

\* An assignment fits the latest entry of v: a variable stands for itself,
\* a partial for its constraints.
Fits(stack, m, v) ==
    \A i \in Latest(stack, v) :
        LET val == stack[i].val IN
        IF val.tag = "partial" THEN SatAll(m, val.v)
                               ELSE m[v] = Eval(m, val)

Meaning(stack) == {m \in Assignments : \A v \in Var : Fits(stack, m, v)}
================================================================================
