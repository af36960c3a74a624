--------------------------- MODULE MC_BindingManager ---------------------------
(* Up to four variables and two values. *)
EXTENDS BindingManager, TLC

CONSTANTS w, x, y, z, c1, c2

\* Equations between variables, and equations and inequations between a
\* variable and a value.
MC_WithValues ==
    {Unify(VarT(p[1]), VarT(p[2])) : p \in {q \in Var \X Var : q[1] # q[2]}}
        \cup {Unify(VarT(v), ConstT(c)) : v \in Var, c \in Const}
        \cup {Neq(VarT(v), ConstT(c)) : v \in Var, c \in Const}

\* The same, and an inequation between two variables.
MC_BetweenVars == MC_WithValues \cup {Neq(VarT(x), VarT(y))}

\* Four variables that are unified one after the other, with two that differ
\* from a value: looking one of them up does not end.
MC_Joins ==
    {Neq(VarT(x), ConstT(c1)), Neq(VarT(y), ConstT(c1)),
     Unify(VarT(w), VarT(y)), Unify(VarT(w), VarT(z)),
     Unify(VarT(x), VarT(y)), Unify(VarT(z), VarT(x))}

\* A constraint on a variable that was tied to a value through a variable that
\* has been tied anew is met with the value.
MC_Retied ==
    {Neq(VarT(z), ConstT(c2)), Neq(VarT(x), ConstT(c2)), Unify(VarT(w), VarT(z)),
     Neq(VarT(z), ConstT(c1)), Unify(VarT(z), VarT(x)), Unify(VarT(x), ConstT(c1)),
     Neq(VarT(w), ConstT(c1))}

\* The values are interchangeable, and so are the variables: the order in
\* which the variables of one constraint are pushed is not seen through
\* their states.
MC_Symmetry == Permutations(Const) \cup Permutations(Var)
================================================================================
