----------------------------- MODULE MC_RuleChoice -----------------------------
(***************************************************************************)
(* Bar is a subclass of Foo, and Qux one of Bar and Baz.  The field f of a *)
(* Foo is a Bar, and its field g a Baz.                                    *)
(***************************************************************************)
EXTENDS RuleChoice

MCMro == [Foo |-> <<"Foo">>, Bar |-> <<"Bar", "Foo">>, Baz |-> <<"Baz">>,
          Qux |-> <<"Qux", "Bar", "Foo", "Baz">>]
MCMembers == [Resource |-> {"Foo", "Baz"}, Actor |-> {"Bar"}]
MCFieldType == [cf \in {"Foo", "Bar", "Qux", "Baz"} \X {"f", "g"} |->
                  IF cf[2] = "f" THEN "Bar" ELSE "Baz"]

Value(n) == Argument("value", n, "", {}, {}, "", <<>>)
Instance(class, has) == Argument("instance", 0, class, has, {}, "", <<>>)
Partial(constraints) == Argument("partial", 0, "", {}, {"x", "y"}, "x", constraints)

F1 == <<"f", 1>>
G1 == <<"g", 1>>

Is(path, class) == Constraint("Isa", path, class)

\* Partials: of no type; of one or of two, under an alias or not, in both
\* orders; a field of a thing that has a type, or in such a field.
Partials ==
    {Partial(cs) : cs \in
       {<<>>, <<Is(<<"x">>, "Foo")>>, <<Is(<<"y">>, "Bar"), Is(<<"z">>, "Baz")>>,
        <<Is(<<"x">>, "Foo"), Is(<<"x">>, "Baz")>>, <<Is(<<"x">>, "Baz"), Is(<<"y">>, "Foo")>>,
        <<Is(<<"z">>, "Foo"), Constraint("Unify", <<"z", "f">>, "")>>,
        <<Constraint("In", <<"z", "g">>, ""), Is(<<"z">>, "Foo")>>,
        <<Is(<<"z">>, "Foo"), Constraint("Unify", <<"z", "f">>, ""), Is(<<"z", "f">>, "Qux")>>}}

P(val, is, tag, fields) == Parameter(val, Specializer(is, tag, fields))
Anything == Parameter(0, NoSpec)
Is1      == Parameter(1, NoSpec)
Is2      == Parameter(2, NoSpec)
Class(c) == P(0, "class", c, {})

ForValues    == {Anything, Is1, Is2, Class("Foo")}
ForInstances == {Anything, Is1, Class("Foo"), Class("Bar"), Class("Baz"),
                 P(0, "class", "Foo", {F1}), P(0, "class", "Foo", {F1, G1}),
                 P(0, "dict", "", {F1}), P(0, "dict", "", {F1, G1}),
                 P(0, "union", "Resource", {}), P(0, "union", "Actor", {})}
ForPartials  == {Anything, Is1, Class("Bar"), Class("Baz"), Class("Qux"),
                 P(0, "dict", "", {F1}), P(0, "union", "Resource", {})}

RuleLists(S) == {<<r, s, t>> : r, s, t \in S}
OneArg(S, args) ==
    {[rules |-> [i \in 1..3 |-> <<l[i]>>], args |-> <<a>>] : l \in RuleLists(S), a \in args}

\* Rules of two parameters, and one of one.
Pairs == {<<p, q>> : p \in {Anything, P(0, "dict", "", {F1}), P(0, "dict", "", {G1})},
                     q \in {Anything, Class("Foo"), Class("Bar")}}
TwoArgs == {[rules |-> <<l[1], <<Anything>>, l[2], l[3]>>,
             args |-> <<Instance("Bar", {F1, G1}), Instance("Bar", {F1})>>] :
              l \in RuleLists(Pairs)}

\* A number or a class for a partial, and a class or none for an instance.
Mixed == {<<p, q>> : p \in {Anything, Is1, Class("Bar")}, q \in {Anything, Class("Foo")}}
PartialAndInstance ==
    {[rules |-> l, args |-> <<a, Instance("Bar", {F1})>>] : l \in RuleLists(Mixed), a \in Partials}

MCCalls == OneArg(ForValues, {Value(1), Value(2)})
             \cup OneArg(ForInstances, {Instance("Bar", {F1}), Instance("Qux", {F1, G1})})
             \cup OneArg(ForPartials, Partials)
             \cup TwoArgs \cup PartialAndInstance

\* A thing that is a field of a field of z, whose field f is known to be a Baz.
MCDeepPath ==
    {[rules |-> <<<<Class("Foo")>>>>,
      args |-> <<Partial(<<Is(<<"z", "f">>, "Baz"), Constraint("Unify", <<"z", "f", "g">>, "")>>)>>]}

=============================================================================
