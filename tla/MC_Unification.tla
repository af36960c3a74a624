---------------------------- MODULE MC_Unification ----------------------------
(***************************************************************************)
(* Integers of four bits, floats with halves below four and only every     *)
(* second integer from there on: each case of the comparison of numbers    *)
(* occurs.  Lists of at most two items and a rest, dictionaries of two.    *)
(***************************************************************************)
EXTENDS Unification

MCFloats == {f \in -20..20 : (f >= 8 \/ f <= -8) => f % 4 = 0}

Units(n)  == Term("number", n, "", <<>>, NoFields)
One == Int_(1)   Two == Int_(2)   OneF == Float_(2)
X == Var("x")   Y == Var("y")   K == Var("k")
NoValues == [v \in {} |-> {}]

Q(gs, values) == [goals |-> gs, values |-> values]

\* Two numbers are compared, or one is looked for among others.
MCComparisons ==
    {Q(<<Goal(op, <<Int_(i), Float_(f)>>)>>, NoValues) :
        op \in {"Lt", "Leq", "Eq"}, i \in I64, f \in MCFloats}
    \cup {Q(<<Goal("Gt", <<Float_(f), Int_(i)>>)>>, NoValues) : i \in I64, f \in MCFloats}
    \cup {Q(<<Goal("In", <<Float_(f), List(<<Int_(i), Int_(j)>>)>>)>>, NoValues) :
            i, j \in {-8, -4, 3, 4, 5, 7}, f \in MCFloats}

\* What is compared with booleans, and what they unify with; strings.
MCBooleans ==
    {Q(<<Goal("In", <<X, List(<<Bool_(0), Bool_(1), One, OneF>>)>>), Goal(op, <<X, t>>)>> \o more,
       [v \in {"x"} |-> {Bool_(0), Bool_(1), Units(2)}]) :
        op \in DOMAIN Comparisons, t \in {Bool_(0), Bool_(1), OneF, Two},
        more \in {<<>>, <<Unify(X, One)>>, <<Unify(Bool_(1), X)>>}}

MCStrings ==
    {Q(<<Goal("In", <<K, List(<<Str("c"), Str("a"), Str("b")>>)>>), Goal(op, <<K, Str("b")>>)>>,
       [v \in {"k"} |-> {Str("a"), Str("b"), Str("c")}]) : op \in DOMAIN Comparisons}

\* x is what comes of an operation.  Left out are the moduli that overflow.
MCArithmetic ==
    {Q(<<Goal(op, <<Int_(i), Int_(j), X>>)>>, [v \in {"x"} |-> {Units(n * Unit) : n \in I64}]) :
        op \in {"Add", "Sub", "Mul", "Rem"}, i, j \in I64}
    \cup {Q(<<Goal("Mod", <<Int_(i), Int_(j), X>>)>>, [v \in {"x"} |-> {Units(n * Unit) : n \in I64}]) :
            i \in I64, j \in {n \in I64 : -4 <= n /\ n <= 4}}

\* Two lists, each with or without a rest.
Starts == UNION {[1..n -> {One, OneF, X}] : n \in 0..2}
Lists(rest) == {List(p) : p \in Starts} \cup {List(Append(p, Rest(rest))) : p \in Starts}

Rests == {List(p) : p \in UNION {[1..n -> {Units(2), Units(4)}] : n \in 0..2}}
MCValues ==
    [v \in {"x", "y", "k", "r", "s"} |->
       IF v \in {"r", "s"} THEN Rests
       ELSE IF v = "k" THEN {Str("a"), Str("b")} ELSE {Units(2), Units(4)}]
Of(vs) == [v \in vs |-> MCValues[v]]

MCLists ==
    {Q(<<Goal(is, <<l, r>>)>>, Of({"x", "r", "s"})) :
        is \in {"Unify", "Isa"}, l \in Lists("r"), r \in Lists("s")}

\* Goals in a row: those of the first group leave no operand unbound that
\* the second needs.
Fields(a, b) == [k \in {"a", "b"} |-> IF k = "a" THEN a ELSE b]
Key(k, t)    == [x \in {k} |-> t]

Earlier ==
    {Goal("In", <<X, List(<<One, Two, OneF>>)>>),
     Goal("In", <<List(<<K, X>>), Dict(Fields(One, Two))>>),
     Goal("Lookup", <<Dict(Fields(Two, OneF)), K, X>>),
     Goal("Unify", <<Dict(Fields(X, Two)), Dict(Fields(OneF, Y))>>),
     Goal("Unify", <<List(<<X, Rest("r")>>), List(<<Two, One>>)>>),
     Goal("Isa", <<Dict(Fields(Two, List(<<One, Two>>))),
                   Pattern(Key("b", List(<<X, Rest("r")>>)))>>)}

Later ==
    {Goal("Lt", <<OneF, X>>), Goal("Neq", <<X, One>>),
     Goal("Unify", <<X, Y>>), Goal("Unify", <<Dict(Fields(X, One)), Dict(Key("a", X))>>),
     Goal("In", <<X, List(<<Two, Y>>)>>), Goal("In", <<OneF, List(<<X, One, OneF>>)>>),
     Goal("Isa", <<Dict(Fields(X, One)), Pattern(Key("a", OneF))>>),
     Goal("Isa", <<Dict(Key("a", X)), Pattern(Fields(One, Two))>>),
     Goal("Lookup", <<Dict(Fields(X, Two)), Str("a"), One>>),
     Goal("Lookup", <<Dict(Key("a", X)), Str("b"), One>>),
     Goal("Lookup", <<Dict(Fields(One, X)), K, Y>>),
     Goal("Add", <<X, X, Y>>), Goal("Mod", <<X, Two, Y>>)}

Last2 == {Goal("Unify", <<X, Y>>), Goal("Lookup", <<Dict(Fields(One, X)), K, Y>>)}

\* The rest of the iterable has a value.
Searches ==
    {<<Unify(Rest("r"), List(<<X, Two>>)), Goal("In", <<item, List(<<One, Rest("r")>>)>>)>> :
        item \in {One, Y, OneF, Two}}

MCGoals ==
    {Q(<<g, h>>, Of({"x", "y", "k", "r"})) : g \in Earlier, h \in Later}
    \cup {Q(<<g, h, i>>, Of({"x", "y", "k", "r"})) : g \in Earlier, h \in Later, i \in Last2}
    \cup {Q(gs, Of({"x", "y", "r"})) : gs \in Searches}

MCStringOrder == <<"a", "b", "c">>

MCQueries == MCComparisons \cup MCBooleans \cup MCStrings \cup MCArithmetic \cup MCLists \cup MCGoals

\* A list with a rest turns its operands around: the pattern is asked whether
\* it is like the dictionary.
MCPatternWithRest ==
    {Q(<<Goal("Isa", <<List(<<Dict(Key("a", One))>>),
                       List(<<Pattern(Key("a", One)), Rest("r")>>)>>)>>, Of({"r"}))}

\* The modulus is added to the remainder.
MCLargeModulus ==
    {Q(<<Goal("Mod", <<Int_(6), Int_(7), X>>)>>, [v \in {"x"} |-> {Units(n * Unit) : n \in I64}])}
================================================================================
