--------------------------- MODULE MC_DataFiltering ---------------------------
(***************************************************************************)
(* A Foo has numbers n, a, b and c, tags, one bar and many subs; a Bar and *)
(* a Sub have a number.  Objects are integers apart from the numbers 1 and 2.         *)
(***************************************************************************)
EXTENDS DataFiltering

MCTypes ==
    [cf \in {<<"Foo", "n">>, <<"Foo", "a">>, <<"Foo", "b">>, <<"Foo", "c">>,
             <<"Foo", "tags">>, <<"Foo", "bar">>, <<"Foo", "subs">>, <<"Bar", "n">>,
             <<"Sub", "n">>} |->
       CASE cf = <<"Foo", "bar">>  -> Relation("one", "Bar", "bar_id", "id")
         [] cf = <<"Foo", "subs">> -> Relation("many", "Sub", "id", "foo_id")
         [] OTHER -> Base]

F1 == 11 F2 == 12 B1 == 21 B2 == 22 S1 == 31 S2 == 32

\* Two bars with the numbers 1 and 2, foo 1 and 2, and two subs.
DB(n1, n2, bar1, bar2, sub1, sub2) ==
    [of  |-> [c \in {"Foo", "Bar", "Sub"} |->
                CASE c = "Foo" -> {F1, F2} [] c = "Bar" -> {B1, B2} [] c = "Sub" -> {S1, S2}],
     col |-> [oc \in {F1, F2} \X {"n", "a", "b", "c", "tags", "bar_id"}
                     \cup {B1, B2} \X {"n"} \cup {S1, S2} \X {"n", "foo_id"} |->
                CASE oc = <<F1, "n">> -> {n1} [] oc = <<F2, "n">> -> {n2}
                  [] oc[1] \in {B1, S1} /\ oc[2] = "n" -> {1}
                  [] oc[1] \in {B2, S2} /\ oc[2] = "n" -> {2}
                  [] oc = <<F1, "tags">> -> {1, 2} [] oc = <<F2, "tags">> -> {n1}
                  [] oc = <<F1, "bar_id">> -> bar1 [] oc = <<F2, "bar_id">> -> bar2
                  [] oc = <<S1, "foo_id">> -> sub1 [] oc = <<S2, "foo_id">> -> sub2
                  [] oc[2] = "a" -> {n1}
                  [] OTHER -> {2}]]

MCDatabases ==
    {DB(n, 2, b, {B2}, s, {F2}) : n \in {1, 2}, b \in {{}, {B1}, {B2}}, s \in {{F1}, {F2}}}

\* The conditions of a body, by what its text says; i keeps its variables
\* apart from those of the others.
X(i, k) == Temp(50 + 10 * i + k)
R(f)    == Dot(Resource, f)
Is(a, b) == Op("Unify", <<a, b>>)

Says(what, i) ==
    CASE what = "n = 1"    -> <<Is(R("n"), Lit(1))>>
      [] what = "n = 2"    -> <<Is(R("n"), Lit(2))>>
      [] what = "n != 2"   -> <<Op("Neq", <<R("n"), Lit(2)>>)>>
      [] what = "1 <= n"   -> <<Op("Leq", <<Lit(1), R("n")>>)>>
      [] what = "n > 1"    -> <<Op("Gt", <<R("n"), Lit(1)>>)>>
      [] what = "bar = B1" -> <<Is(R("bar"), Lit(B1))>>
      [] what = "bar.n = 1" -> <<Is(Dot(R("bar"), "n"), Lit(1))>>
      [] what = "n = bar.n" -> <<Is(R("n"), Dot(R("bar"), "n"))>>
      [] what = "n != bar.n" -> <<Op("Neq", <<R("n"), Dot(R("bar"), "n")>>)>>
      [] what = "sub in subs, sub.n = 1" ->
           <<Op("In", <<X(i, 1), R("subs")>>), Is(Dot(X(i, 1), "n"), Lit(1))>>
      [] what = "1 in tags" -> <<Op("In", <<Lit(1), R("tags")>>)>>
      [] what = "n = 1 or bar = B1" ->
           <<Op("Or", <<Is(R("n"), Lit(1)), Is(R("bar"), Lit(B1))>>)>>
      [] what = "not n = 1" -> <<Not(Is(R("n"), Lit(1)))>>
      [] what = "not not n = 1" -> <<Not(Not(Is(R("n"), Lit(1))))>>
      [] what = "not (n = 1 or a = 2)" ->
           <<Not(Op("Or", <<Is(R("n"), Lit(1)), Is(R("a"), Lit(2))>>))>>
      [] what = "not (n != 1 and bar != B1)" ->
           <<Not(Conj(Op("Neq", <<R("n"), Lit(1)>>), Op("Neq", <<R("bar"), Lit(B1)>>)))>>
      [] what = "not S1 in subs" -> <<Not(Op("In", <<Lit(S1), R("subs")>>))>>
      [] what = "x = n, x != 1, x = 1" ->
           <<Is(X(i, 1), R("n")), Op("Neq", <<X(i, 1), Lit(1)>>), Is(X(i, 1), Lit(1))>>
      [] what = "x = n, x = 1" -> <<Is(X(i, 1), R("n")), Is(X(i, 1), Lit(1))>>
      [] what = "x = y, x = n, y = 1" ->
           <<Is(X(i, 1), X(i, 2)), Is(X(i, 1), R("n")), Is(X(i, 2), Lit(1))>>
      [] what = "x >= 2, y >= 1, x = y, x = n" ->
           <<Op("Geq", <<X(i, 1), Lit(2)>>), Op("Geq", <<X(i, 2), Lit(1)>>),
             Is(X(i, 1), X(i, 2)), Is(X(i, 1), R("n"))>>
      [] what = "x = n, not x = 1" -> <<Is(X(i, 1), R("n")), Not(Is(X(i, 1), Lit(1)))>>
      [] what = "x = n, (x = 1 or x = 2)" ->
           <<Is(X(i, 1), R("n")), Op("Or", <<Is(X(i, 1), Lit(1)), Is(X(i, 1), Lit(2))>>)>>
      [] what = "n in [1, 3]" -> <<Op("In", <<R("n"), List(<<Lit(1), Lit(3)>>)>>)>>
      [] what = "not n in [1, 3]" ->
           <<Not(Op("In", <<R("n"), List(<<Lit(1), Lit(3)>>)>>))>>
      [] what = "forall(n = 1, bar = B1)" ->
           <<Op("ForAll", <<Is(R("n"), Lit(1)), Is(R("bar"), Lit(B1))>>)>>
      [] what = "forall(x in [1, 2], n != x)" ->
           <<Op("ForAll", <<Op("In", <<X(i, 1), List(<<Lit(1), Lit(2)>>)>>),
                            Op("Neq", <<R("n"), X(i, 1)>>)>>)>>
      [] what = "b = bar, not b.n = 1" ->
           <<Is(X(i, 1), R("bar")), Not(Is(Dot(X(i, 1), "n"), Lit(1)))>>
      [] what = "resource = F1" -> <<Is(Resource, Lit(F1))>>
      [] what = "not resource = F1" -> <<Not(Is(Resource, Lit(F1)))>>
      \* where the program differs
      [] what = "not (x = x or n = 1)" ->
           <<Not(Op("Or", <<Is(X(i, 1), X(i, 1)), Is(R("n"), Lit(1))>>))>>
      [] what = "not (n = 1 and (a = 1 or a = 2))" ->
           <<Not(Conj(Is(R("n"), Lit(1)), Op("Or", <<Is(R("a"), Lit(1)), Is(R("a"), Lit(2))>>)))>>
      [] what = "x = n, y = a, x = y" ->
           <<Is(X(i, 1), R("n")), Is(X(i, 2), R("a")), Is(X(i, 1), X(i, 2))>>
      [] what = "b = bar, not (n = 1 and b.n = 1)" ->
           <<Is(X(i, 1), R("bar")), Not(Conj(Is(R("n"), Lit(1)), Is(Dot(X(i, 1), "n"), Lit(1))))>>

Simple == {"n = 1", "n != 2", "1 <= n", "bar = B1", "bar.n = 1", "n = bar.n",
           "sub in subs, sub.n = 1", "1 in tags", "n = 1 or bar = B1", "not n = 1",
           "not (n != 1 and bar != B1)", "x = n, x != 1, x = 1"}

\* Taken with each other and with simple ones,
Composed == {"x = n, x = 1", "x = n, (x = 1 or x = 2)", "forall(n = 1, bar = B1)"}

\* and alone.
More == {"not not n = 1", "not (n = 1 or a = 2)", "x = n, not x = 1", "n in [1, 3]", "not n in [1, 3]",
         "forall(x in [1, 2], n != x)", "x = y, x = n, y = 1",
         "x >= 2, y >= 1, x = y, x = n", "resource = F1", "not resource = F1"}

Both2(S)  == {<<Says(a, 1) \o Says(b, 2)>> : a, b \in S}
Either(S) == {<<Says(a, 1), Says(b, 2)>> : a, b \in S}
One(S)    == {<<Says(a, 1)>> : a \in S}

\* One rule with one or two conditions, or two rules with one each.
MCRequests == {<<>>} \cup One(Simple \cup Composed \cup More)
                     \cup Both2(Simple \cup Composed)
                     \cup Either(Simple \cup {"resource = F1"})

\* Requests for the runs that end in a violation.
MCMirrored   == Both2({"1 <= n", "n > 1"})
MCTwoValues  == Both2({"n = 1", "n = 2"})
MCNotIn      == One({"not S1 in subs"})
MCFieldNeq   == One({"n != bar.n"})
MCTwoFields  == One({"x = n, y = a, x = y"})
MCNotAnyOr   == One({"not (x = x or n = 1)"})
MCNotShared  == One({"not (n = 1 and (a = 1 or a = 2))"})
MCNotApart   == One({"b = bar, not (n = 1 and b.n = 1)"})

\* n = a and b = c and a = b, in this order.
MCChain == {<<<<Is(R("n"), R("a")), Is(R("b"), R("c")), Is(R("a"), R("b"))>>>>}

=============================================================================
