------------------------------ MODULE MC_Inverter ------------------------------
(* Two variables and two values. *)
EXTENDS Inverter, TLC

CONSTANTS x, y, c1, c2

\* Equations and inequations of a variable and a value, and x = y, y = x.
MC_Goals ==
    {Unify(VarT(x), VarT(y)), Unify(VarT(y), VarT(x))}
        \cup {Unify(VarT(v), ConstT(c)) : v \in Var, c \in Const}
        \cup {Neq(VarT(v), ConstT(c)) : v \in Var, c \in Const}

\* The two values are interchangeable.
MC_Symmetry == Permutations(Const)
================================================================================
