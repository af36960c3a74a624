------------------------------- MODULE Partials -------------------------------
(***************************************************************************)
(* Constraint terms of partial evaluation (polar-core/src/terms.rs and     *)
(* partial/partial.rs): the operations a query leaves on the variables it  *)
(* could not ground.  A term is a record of one shape: "is" says what it   *)
(* is, a variable, a literal or an operator; "name" is the name of a       *)
(* variable, the field of a Dot or the class of an Isa; "val" a literal,   *)
(* or the number of a temporary variable; "args" the operands.             *)
(***************************************************************************)
EXTENDS Integers, Sequences, FiniteSets, SequencesExt

Term(is, name, val, args) ==
    [is |-> is, name |-> name, val |-> val, args |-> args]

Var(x)        == Term("var", x, 0, <<>>)
Temp(i)       == Term("var", "_value", i, <<>>)
Lit(n)        == Term("lit", "", n, <<>>)
Op(o, args)   == Term(o, "", 0, args)
Dot(t, field) == Term("Dot", field, 0, <<t>>)
Isa(t, class) == Term("Isa", class, 0, <<t>>)
Not(t)        == Op("Not", <<t>>)
List(terms)   == Op("List", terms)

This == Var("_this")

\* The constants of partial.rs: a conjunction and a disjunction of nothing.
TRUTH   == Op("And", <<>>)
FALSITY == Op("Or", <<>>)

IsVar(t)  == t.is = "var"
IsLit(t)  == t.is = "lit"
IsOp(t)   == t.is \notin {"var", "lit"}

RECURSIVE VariablesOf(_)
VariablesOf(t) ==
    IF IsVar(t) THEN {t}
    ELSE UNION {VariablesOf(t.args[i]) : i \in DOMAIN t.args}

IsGround(t) == VariablesOf(t) = {}

Swapped == [Unify |-> "Neq", Eq |-> "Neq", Neq |-> "Unify", Gt |-> "Leq",
            Geq |-> "Lt", Lt |-> "Geq", Leq |-> "Gt"]

\* Without the change of connective.
InvertLeaves(t) ==
    IF t.is \in {"And", "Or"} /\ Len(t.args) > 1
    THEN [t EXCEPT !.args = [i \in DOMAIN t.args |->
                               [t.args[i] EXCEPT !.is = IF @ \in DOMAIN Swapped
                                                       THEN Swapped[@] ELSE @]]]
    ELSE IF t.is \in DOMAIN Swapped THEN [t EXCEPT !.is = Swapped[t.is]] ELSE Not(t)

\* De Morgan through the connectives, the opposite comparison at the
\* leaves; a double negation goes and Isa and In keep their Not.
RECURSIVE InvertOperation(_)
InvertOperation(t) ==
    CASE t.is \in {"And", "Or"} ->
           Op(IF t.is = "And" THEN "Or" ELSE "And",
              [i \in DOMAIN t.args |-> InvertOperation(t.args[i])])
      [] t.is \in DOMAIN Swapped -> [t EXCEPT !.is = Swapped[t.is]]
      [] t.is = "Not"            -> t.args[1]
      [] t.is \in {"Isa", "In"}  -> Not(t)
      [] OTHER                   -> t

\* mirror: the comparison the code takes to be the same one with its sides
\* exchanged.  It exchanges the sides and ALSO negates the comparison, so
\* that x > 1 and 1 <= x, which differ at 1, are mirrors.
Mirrored == [Unify |-> "Unify", Eq |-> "Eq", Neq |-> "Neq", Gt |-> "Leq",
             Geq |-> "Lt", Lt |-> "Geq", Leq |-> "Gt"]

Mirror(t) ==
    IF t.is \in DOMAIN Mirrored
    THEN [t EXCEPT !.is = Mirrored[t.is], !.args = Reverse(t.args)]
    ELSE t

\* What mirror is for: the same comparison read from the right.
TrueMirror == [Unify |-> "Unify", Eq |-> "Eq", Neq |-> "Neq", Gt |-> "Lt",
               Geq |-> "Leq", Lt |-> "Gt", Leq |-> "Geq"]

Compares(o, a, b) ==
    CASE o \in {"Unify", "Eq"} -> a = b
      [] o = "Neq" -> a # b
      [] o = "Lt"  -> a < b
      [] o = "Leq" -> a <= b
      [] o = "Gt"  -> a > b
      [] o = "Geq" -> a >= b

-----------------------------------------------------------------------------
(***************************************************************************)
(* Operation::ground: a value takes the place of a variable.  The fold     *)
(* goes through every operand, those of an Or too, and clears "consistent" *)
(* at each ground comparison that fails (or, under a Not, holds).          *)
(***************************************************************************)
Grounded(t, consistent) == [t |-> t, consistent |-> consistent]

RECURSIVE Ground(_, _, _, _)
Ground(t, var, value, invert) ==
    LET parts == [i \in DOMAIN t.args |->
                    Ground(t.args[i], var, value, (t.is = "Not") # invert)]
        all   == \A i \in DOMAIN parts : parts[i].consistent
        o     == [t EXCEPT !.args = [i \in DOMAIN parts |-> parts[i].t]]
        ready == t.is \in DOMAIN Swapped /\ \A i \in 1..2 : IsLit(o.args[i])
        \* an inverted order comparison is inverted before it is tried
        kind  == IF invert /\ t.is \in {"Gt", "Geq", "Lt", "Leq"}
                 THEN Swapped[t.is] ELSE t.is
        holds == Compares(kind, o.args[1].val, o.args[2].val)
        good  == IF invert /\ t.is \in {"Unify", "Eq", "Neq"}
                 THEN ~holds ELSE holds
    IN  IF t = var THEN Grounded(value, TRUE)
        ELSE IF ~ready THEN Grounded([o EXCEPT !.is = kind], all)
        ELSE Grounded(IF holds THEN TRUTH ELSE FALSITY, good)

\* add_constraint: a constraint that is already there is not added again.
Constrain(ops, op) == IF Contains(ops, op) THEN ops ELSE Append(ops, op)

=============================================================================
