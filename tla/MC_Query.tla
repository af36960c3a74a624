-------------------------------- MODULE MC_Query --------------------------------
(* Policies of two rules of f and one of g, and the queries that use them. *)
EXTENDS QueryMeaning, TLC

\* One application: a field with a value, one that is an error, a class that
\* matches and one that does not, and an iterable of two elements.
MC_Worlds ==
    {[fields |-> [name |-> "n", broken |-> "error"],
      tags |-> [User |-> TRUE, Admin |-> FALSE],
      iterables |-> [roles |-> <<"r1", "r2">>, none |-> <<>>]]}

\* The conditions of a rule's body.
MC_Conditions ==
    {Fact("a"), False, Call("g"), Not(Call("g")), Or(<<Fact("b"), Call("g")>>),
     Dot("name", "n"), Dot("name", "m"), IsA("Admin"), In("roles")}

\* Bodies of up to two conditions, and those that cut, at the end or between.
MC_Bodies ==
    {<<>>} \cup {<<c>> : c \in MC_Conditions}
        \cup {<<c, Cut>> : c \in MC_Conditions}
        \cup {<<In("roles"), Cut, c>> : c \in MC_Conditions}

\* Rules that may not apply, in every order of how specific they are.
MC_Sorting ==
    {[f |-> [i \in 1 .. 3 |-> Rule(fits[i], ranks[i], <<Fact(<<"a", "b", "c">>[i])>>)],
      g |-> <<>>] :
        fits \in [1 .. 3 -> {"unify", "differ"}], ranks \in [1 .. 3 -> 1 .. 3]}

MC_Policies ==
    MC_Sorting \cup
    {[f |-> <<Rule("unify", 1, body), Rule("ground", rank, <<In("roles")>>),
              Rule("differ", 3, <<Fact("no")>>), Rule("arity", 3, <<Fact("no")>>)>>,
      g |-> g] :
        body \in MC_Bodies, rank \in {1, 2},
        g \in {<<>>, <<Rule("ground", 1, <<Fact("c")>>)>>,
               <<Rule("ground", 1, <<IsA("User")>>), Rule("unify", 1, <<Fact("d")>>)>>}}

MC_Queries ==
    {Call("f"), Not(Call("f")), And(<<Call("f"), Not(Not(Call("f")))>>),
     And(<<Or(<<Call("g"), Fact("b")>>), Call("f"), Dot("name", "n")>>),
     And(<<Call("f"), Dot("broken", "n")>>)}

\* Rules without a base case, and a query that has to undo some of them.
MC_Loops ==
    {<<Rule("ground", 1, body)>> : body \in
        {<<Call("loop")>>, <<Fact("a"), Call("loop")>>, <<Call("loop"), Fact("a")>>,
         <<In("roles"), Call("loop")>>, <<Or(<<Call("loop"), Fact("a")>>), False>>,
         <<Not(IsA("Admin")), Call("loop")>>}}
        \cup {<<Rule("unify", 1, <<Call("loop")>>), Rule("unify", 2, <<IsA("Admin")>>)>>}

MC_LoopPolicies == {[loop |-> r] : r \in MC_Loops}

MC_LoopQueries ==
    {Call("loop"), And(<<In("roles"), Call("loop")>>), Not(Call("loop")),
     Or(<<Fact("a"), Call("loop")>>), And(<<Or(<<Fact("a"), Fact("b")>>), False>>)}

MC_AllPolicies == MC_Policies \cup MC_LoopPolicies
MC_AllQueries == MC_Queries \cup MC_LoopQueries

\* loop() if not loop();
MC_NotLoop == {[loop |-> <<Rule("ground", 1, <<Not(Call("loop"))>>)>>]}

\* f() if (fact and cut) or fact;  f() if fact;
MC_NestedCut ==
    {[f |-> <<Rule("ground", 1, <<Or(<<And(<<Fact("a"), Cut>>), Fact("b")>>)>>),
              Rule("ground", 1, <<Fact("c")>>)>>]}

\* f() if fact;  f() if fact and cut;  and the query of f() and f().
MC_SecondCut ==
    {[f |-> <<Rule("ground", 1, <<Fact("a")>>),
              Rule("ground", 1, <<Fact("b"), Cut>>)>>]}

MC_CallF == {Call("f")}
MC_CallLoop == {Call("loop")}
MC_CallTwice == {And(<<Call("f"), Call("f")>>)}

\* not x.broken = "n"
MC_NotBroken == {Not(Dot("broken", "n"))}

\* The terms of these queries and policies, with those inside of them.
RECURSIVE MC_Inside(_)
MC_Inside(t) == {t} \cup UNION {MC_Inside(t.args[i]) : i \in DOMAIN t.args}

MC_RuleBodies(policy) ==
    UNION {{policy[p][i].body : i \in DOMAIN policy[p]} : p \in DOMAIN policy}

MC_Terms ==
    UNION {MC_Inside(t) : t \in MC_AllQueries \cup MC_CallTwice \cup MC_NotBroken
        \cup UNION {MC_RuleBodies(policy) : policy \in
                        MC_AllPolicies \cup MC_NotLoop \cup MC_NestedCut \cup MC_SecondCut}}
================================================================================
