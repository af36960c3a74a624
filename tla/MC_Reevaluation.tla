--------------------------- MODULE MC_Reevaluation ---------------------------
(* Up to three variables and two values. *)
EXTENDS Reevaluation

CONSTANTS x, y, z, c1, c2

MC_Goals ==
    {Unify(VarT(p[1]), VarT(p[2])) : p \in {q \in Var \X Var : q[1] # q[2]}}
        \cup {Unify(VarT(v), ConstT(c)) : v \in Var, c \in Const}
        \cup {Neq(VarT(v), ConstT(c)) : v \in Var, c \in Const}
================================================================================
