------------------------------ MODULE Unification ------------------------------
(***************************************************************************)
(* Goals on terms with a structure (unify, isa, in, lookup, comparison and *)
(* arithmetic in polar-core/src/vm.rs): lists with a rest variable,        *)
(* dictionaries, patterns and numbers.  A goal on a list or a dictionary   *)
(* becomes goals on its items; what a goal demands of a variable is a      *)
(* binding; an item of a list, or an unknown field, is a choice.           *)
(*                                                                         *)
(* A term is a record: "is" says what it is; "num" is the value of a       *)
(* number or boolean, "name" that of a variable, a rest variable or a      *)
(* string, "items" those of a list, and "fields" maps the keys of a        *)
(* dictionary or pattern.                                                  *)
(* A query is a sequence of goals, and the values its variables may have.  *)
(*                                                                         *)
(* Abstractions.  Variables that are bound to each other share one root;   *)
(* how that is kept is the subject of Bindings, and so are constraints:    *)
(* here the operands that need a value have one.  Instances and classes    *)
(* are those of RuleChoice and Query.                                      *)
(***************************************************************************)
EXTENDS Numerics, Sequences, FiniteSets, SequencesExt

CONSTANTS
    Queries,
    StringOrder     \* the strings that are compared, in their order

ASSUME StringAssumption == Cardinality(ToSet(StringOrder)) = Len(StringOrder)

VARIABLES
    query,      \* the query
    goals,      \* the goals of the branch, the next one first
    bindings,   \* variable -> term
    choices,    \* the choices, the last one first: alternatives, goals, bindings
    answers,    \* the bindings of the answers so far
    status      \* "running", "failed" (backtracking), "done", "error"

vars == <<query, goals, bindings, choices, answers, status>>

Term(is, num, name, items, fields) ==
    [is |-> is, num |-> num, name |-> name, items |-> items, fields |-> fields]

NoFields   == [k \in {} |-> 0]
Int_(i)    == Term("int", i, "", <<>>, NoFields)
Float_(f)  == Term("float", f, "", <<>>, NoFields)
Bool_(i)   == Term("bool", i, "", <<>>, NoFields)
Str(s)     == Term("str", 0, s, <<>>, NoFields)
Var(v)     == Term("var", 0, v, <<>>, NoFields)
Rest(v)    == Term("rest", 0, v, <<>>, NoFields)
List(ts)   == Term("list", 0, "", ts, NoFields)
Dict(fs)   == Term("dict", 0, "", <<>>, fs)
Pattern(fs) == Term("pattern", 0, "", <<>>, fs)

IsVar(t)    == t.is \in {"var", "rest"}
IsNumber(t) == t.is \in {"int", "float"}

Goal(is, args) == [is |-> is, args |-> args]
Unify(l, r)    == Goal("Unify", <<l, r>>)
IsaOf(l, r)    == Goal("Isa", <<l, r>>)

HasRestVar(list) == list # <<>> /\ Last(list).is = "rest"

RECURSIVE IsGround(_)
IsGround(t) ==
    /\ ~IsVar(t)
    /\ \A i \in DOMAIN t.items : IsGround(t.items[i])
    /\ \A k \in DOMAIN t.fields : IsGround(t.fields[k])

\* Whether two terms are equal (Value::eq): numbers by their comparison.
RECURSIVE Equal(_, _)
Equal(a, b) ==
    IF IsNumber(a) /\ IsNumber(b) THEN PartialCmp(a, b) = "Equal"
    ELSE /\ a.is = b.is /\ a.num = b.num /\ a.name = b.name
         /\ DOMAIN a.items = DOMAIN b.items /\ DOMAIN a.fields = DOMAIN b.fields
         /\ \A i \in DOMAIN a.items : Equal(a.items[i], b.items[i])
         /\ \A k \in DOMAIN a.fields : Equal(a.fields[k], b.fields[k])

\* The value of a variable, or the root of its class.
RECURSIVE ValueOf(_, _)
ValueOf(b, v) ==
    IF v \notin DOMAIN b THEN Var(v) ELSE IF IsVar(b[v]) THEN ValueOf(b, b[v].name) ELSE b[v]

Deref(b, t) == IF IsVar(t) THEN ValueOf(b, t.name) ELSE t

(***************************************************************************)
(* What a goal does: it is replaced by other goals, binds a variable,      *)
(* leaves a choice of goals, none of which is a failure, or is an error.   *)
(***************************************************************************)
Does(alternatives, bound, ok) ==
    [alternatives |-> alternatives, bound |-> bound, ok |-> ok]

Become(gs)     == Does(<<gs>>, NoFields, TRUE)
Choose1(alts)  == Does(alts, NoFields, TRUE)
Backtrack      == Does(<<>>, NoFields, TRUE)
Bind(v, t)     == Does(<<<<>>>>, [x \in {v} |-> t], TRUE)
Failure        == Does(<<>>, NoFields, FALSE)
When(holds)    == IF holds THEN Become(<<>>) ELSE Backtrack

Pairs(is, ls, rs, n) == [i \in 1..n |-> Goal(is, <<ls[i], rs[i]>>)]

\* WithRest, but for the place at which the rest begins.
WithRestFrom(is, list, other) ==
    LET n == Len(list) - 1
    IN  IF Len(other) < n THEN Backtrack
        ELSE Become(Append(Pairs(is, list, other, n),
                           Goal(is, <<Last(list), List(SubSeq(other, n + 2, Len(other)))>>)))

\* A list that ends with a rest variable, and one that does not or that is
\* not shorter: the variable takes what is left of the other one.
WithRest(is, list, other) ==
    LET n == Len(list) - 1
    IN  IF Len(other) < n THEN Backtrack
        ELSE Become(Append(Pairs(is, list, other, n),
                           Goal(is, <<Last(list), List(SubSeq(other, n + 1, Len(other)))>>)))

TwoRests(is, ls, rs) ==
    IF Len(ls) = Len(rs)
    THEN Become(Append(Pairs(is, rs, ls, Len(rs) - 1), Goal(is, <<Last(rs), Last(ls)>>)))
    ELSE IF Len(ls) < Len(rs) THEN WithRest(is, ls, rs) ELSE WithRest(is, rs, ls)

UnifyLists(is, ls, rs) ==
    CASE HasRestVar(ls) /\ HasRestVar(rs)   -> TwoRests(is, ls, rs)
      [] HasRestVar(ls) /\ ~HasRestVar(rs)  -> WithRest(is, ls, rs)
      [] ~HasRestVar(ls) /\ HasRestVar(rs)  -> WithRest(is, rs, ls)
      [] OTHER -> IF Len(ls) = Len(rs) THEN Become(Pairs(is, ls, rs, Len(ls))) ELSE Backtrack

\* A goal for each of some fields of two dictionaries.
ForFields(is, keys, l, r) ==
    LET order == SetToSeq(keys)
    IN  Become([i \in DOMAIN order |-> Goal(is, <<l.fields[order[i]], r.fields[order[i]]>>)])

\* A variable, and any term: it is bound unless both have a value.
UnifyVariable(b, l, r) ==
    LET x == Deref(b, l)
        y == Deref(b, r)
    IN  CASE l.name = r.name /\ IsVar(r) -> Become(<<>>)
          [] ~IsVar(x) /\ ~IsVar(y)      -> Become(<<Unify(x, y)>>)
          [] IsVar(x) /\ x # y           -> Bind(x.name, y)
          [] ~IsVar(x) /\ IsVar(y)       -> Bind(y.name, x)
          [] OTHER                       -> Become(<<>>)

UnifyTerms(b, l, r) ==
    CASE IsVar(l)                       -> UnifyVariable(b, l, r)
      [] ~IsVar(l) /\ IsVar(r)          -> UnifyVariable(b, r, l)
      [] l.is = "list" /\ r.is = "list" -> UnifyLists("Unify", l.items, r.items)
      [] l.is = "dict" /\ r.is = "dict" ->
           IF DOMAIN l.fields = DOMAIN r.fields
           THEN ForFields("Unify", DOMAIN l.fields, l, r) ELSE Backtrack
      [] OTHER                          -> When(Equal(l, r))

\* A pattern demands its fields and allows others.  A dictionary is none, and
\* the machine panics where one is asked for.
IsaTerms(b, l, r) ==
    CASE r.is = "dict"                     -> Failure
      [] l.is = "list" /\ r.is = "list"    -> UnifyLists("Isa", l.items, r.items)
      [] l.is = "dict" /\ r.is = "pattern" ->
           IF DOMAIN r.fields \subseteq DOMAIN l.fields
           THEN ForFields("Isa", DOMAIN r.fields, l, r) ELSE Backtrack
      [] IsVar(l) /\ ~IsVar(Deref(b, l))   -> Become(<<IsaOf(Deref(b, l), r)>>)
      [] ~IsVar(l) /\ IsVar(r) /\ ~IsVar(Deref(b, r)) -> Become(<<IsaOf(l, Deref(b, r))>>)
      [] OTHER                             -> Become(<<Unify(l, r)>>)

\* The items of an iterable; those of a dictionary are pairs.
ItemsOf(t) ==
    IF t.is = "list" THEN t.items
    ELSE LET keys == SetToSeq(DOMAIN t.fields)
         IN  [i \in DOMAIN keys |-> List(<<Str(keys[i]), t.fields[keys[i]]>>)]

\* An item is unified with each of them, but for those that are known to be
\* others; the rest of a list is asked in turn.
InTerms(b, item, iterable) ==
    LET x == Deref(b, item)
        may == SelectSeq(ItemsOf(iterable),
                         LAMBDA t : IsGround(x) /\ IsGround(t) => Equal(t, x))
    IN  IF iterable.is \notin {"list", "dict"} THEN Failure
        ELSE Choose1([i \in DOMAIN may |->
               IF may[i].is = "rest" THEN <<Goal("In", <<x, Var(may[i].name)>>)>>
               ELSE <<Unify(x, may[i])>>])

\* Looking up a field that is known, or any.
LookupTerms(b, dict, field, value) ==
    LET f == Deref(b, field)
        keys == SetToSeq(DOMAIN dict.fields)
    IN  CASE dict.is # "dict" -> Failure
          [] dict.is = "dict" /\ IsVar(f) ->
               Choose1([i \in DOMAIN keys |->
                          <<Unify(Str(keys[i]), f), Unify(dict.fields[keys[i]], value)>>])
          [] dict.is = "dict" /\ f.is = "str" ->
               IF f.name \in DOMAIN dict.fields
               THEN Become(<<Unify(dict.fields[f.name], value)>>) ELSE Backtrack
          [] OTHER -> Failure

Comparisons == [Lt |-> {"Less"}, Leq |-> {"Less", "Equal"}, Gt |-> {"Greater"},
                Geq |-> {"Greater", "Equal"}, Eq |-> {"Equal"}, Neq |-> {"Less", "Greater"}]

Place(s) == CHOOSE i \in DOMAIN StringOrder : StringOrder[i] = s

\* A boolean is compared as an integer, though it is equal to none.
ToInt(t) == IF t.is = "bool" THEN Int_(t.num) ELSE t

\* Numbers and booleans, or strings, by their order.
Compare(op, l, r) ==
    CASE IsNumber(ToInt(l)) /\ IsNumber(ToInt(r)) ->
           When(PartialCmp(ToInt(l), ToInt(r)) \in Comparisons[op])
      [] l.is = "str" /\ r.is = "str" ->
           When(Order(Place(l.name), Place(r.name)) \in Comparisons[op])
      [] OTHER -> Failure

Operators == {"Add", "Sub", "Mul", "Mod", "Rem"}

Calculate(op, l, r, result) ==
    IF l.is = "int" /\ r.is = "int" /\ Arithmetic(op, l.num, r.num) # {}
    THEN Become(<<Unify(Int_(CHOOSE n \in Arithmetic(op, l.num, r.num) : TRUE), result)>>)
    ELSE Failure

(***************************************************************************)
(* The machine                                                             *)
(***************************************************************************)
Init ==
    /\ query \in Queries
    /\ goals = query.goals
    /\ bindings = NoFields
    /\ choices = <<>>
    /\ answers = {}
    /\ status = "running"

\* The first alternative is taken; what is left is a choice.
Continue(does) ==
    LET rest == Tail(goals)
    IN  CASE ~does.ok ->
               status' = "error" /\ UNCHANGED <<goals, bindings, choices>>
          [] does.ok /\ does.alternatives = <<>> ->
               status' = "failed" /\ UNCHANGED <<goals, bindings, choices>>
          [] OTHER ->
               /\ goals' = Head(does.alternatives) \o rest
               /\ bindings' = does.bound @@ bindings
               /\ choices' = IF Len(does.alternatives) = 1 THEN choices
                             ELSE <<[alternatives |-> Tail(does.alternatives),
                                     goals |-> rest, bindings |-> bindings]>> \o choices
               /\ UNCHANGED status

\* The next goal is one of some kinds; does says what becomes of it.
Run(kinds, does) ==
    /\ status = "running" /\ goals # <<>> /\ Head(goals).is \in kinds
    /\ \E d \in {does} : Continue(d)
    /\ UNCHANGED <<query, answers>>

Arg(i)   == Head(goals).args[i]
Value(i) == Deref(bindings, Arg(i))

UnifyNext   == Run({"Unify"}, UnifyTerms(bindings, Arg(1), Arg(2)))
IsaNext     == Run({"Isa"}, IsaTerms(bindings, Arg(1), Arg(2)))
InNext      == Run({"In"}, InTerms(bindings, Arg(1), Value(2)))
LookupNext  == Run({"Lookup"}, LookupTerms(bindings, Value(1), Arg(2), Arg(3)))
CompareNext == Run(DOMAIN Comparisons, Compare(Head(goals).is, Value(1), Value(2)))
ArithmeticNext ==
    Run(Operators, Calculate(Head(goals).is, Value(1), Value(2), Arg(3)))

\* No goal is left: an answer, and the search goes on for others.
Result ==
    /\ status = "running" /\ goals = <<>>
    /\ answers' = answers \cup {bindings}
    /\ status' = "failed"
    /\ UNCHANGED <<query, goals, bindings, choices>>

\* The next alternative of the last choice, with the bindings of that time.
BacktrackNext ==
    /\ status = "failed"
    /\ IF choices = <<>>
       THEN status' = "done" /\ UNCHANGED <<goals, bindings, choices>>
       ELSE LET last == Head(choices)
            IN  /\ status' = "running"
                /\ goals' = Head(last.alternatives) \o last.goals
                /\ bindings' = last.bindings
                /\ choices' = IF Len(last.alternatives) = 1 THEN Tail(choices)
                              ELSE <<[last EXCEPT !.alternatives = Tail(@)]>> \o Tail(choices)
    /\ UNCHANGED <<query, answers>>

Next ==
    \/ UnifyNext \/ IsaNext \/ InNext \/ LookupNext \/ CompareNext \/ ArithmeticNext
    \/ Result \/ BacktrackNext

Spec == Init /\ [][Next]_vars

(***************************************************************************)
(* What the goals mean.  A solution gives each variable a ground term; a   *)
(* number means what it is worth, in units, a list its items and those of  *)
(* its rest.                                                               *)
(***************************************************************************)
RECURSIVE Meaning(_, _)
Meaning(sol, t) ==
    CASE IsVar(t)      -> sol[t.name]
      [] t.is = "int"   -> Term("number", t.num * Unit, "", <<>>, NoFields)
      [] t.is = "float" -> Term("number", t.num, "", <<>>, NoFields)
      [] t.is = "list"  ->
           IF HasRestVar(t.items)
           THEN List([i \in 1..Len(t.items) - 1 |-> Meaning(sol, t.items[i])]
                        \o sol[Last(t.items).name].items)
           ELSE List([i \in DOMAIN t.items |-> Meaning(sol, t.items[i])])
      [] OTHER -> [t EXCEPT !.fields = [k \in DOMAIN @ |-> Meaning(sol, @[k])]]

\* Whether a ground term is what a pattern, or another term, says.
RECURSIVE IsLike(_, _)
IsLike(l, r) ==
    CASE r.is = "pattern" -> /\ l.is = "dict" /\ DOMAIN r.fields \subseteq DOMAIN l.fields
                             /\ \A k \in DOMAIN r.fields : IsLike(l.fields[k], r.fields[k])
      [] r.is = "list"    -> /\ l.is = "list" /\ DOMAIN l.items = DOMAIN r.items
                             /\ \A i \in DOMAIN r.items : IsLike(l.items[i], r.items[i])
      [] OTHER            -> l = r

\* The integer a number of units is worth, and what mathematics says.
Exactly(op, a, b) ==
    LET m == a \div Unit
        n == b \div Unit
    IN  Unit * CASE op = "Add" -> m + n
                 [] op = "Sub" -> m - n
                 [] op = "Mul" -> m * n
                 [] op = "Mod" -> IF n > 0 THEN m % n ELSE -((-m) % (-n))
                 [] op = "Rem" -> CHOOSE r \in -Magnitude(n)..Magnitude(n) :
                                    /\ Magnitude(r) < Magnitude(n) /\ r * m >= 0
                                    /\ (m - r) % Magnitude(n) = 0

\* What is compared of a term: true is worth a one.
WorthOf(t) ==
    CASE t.is = "bool" -> t.num * Unit
      [] t.is = "str"  -> Place(t.name)
      [] OTHER         -> t.num

Holds(is, m) ==
    CASE is = "Unify"  -> m[1] = m[2]
      [] is = "Isa"    -> IsLike(m[1], m[2])
      [] is = "In"     -> m[1] \in ToSet(ItemsOf(m[2]))
      [] is = "Lookup" -> \E k \in DOMAIN m[1].fields :
                            m[2] = Str(k) /\ m[3] = m[1].fields[k]
      [] is \in DOMAIN Comparisons ->
           Order(WorthOf(m[1]), WorthOf(m[2])) \in Comparisons[is]
      [] is \in Operators ->
           /\ is \in {"Mod", "Rem"} => m[2].num # 0
           /\ m[3].num = Exactly(is, m[1].num, m[2].num)

\* The values the variables of the query may have together.
Assignments ==
    {sol \in [DOMAIN query.values -> UNION {query.values[v] : v \in DOMAIN query.values}] :
        \A v \in DOMAIN sol : sol[v] \in query.values[v]}

Solutions(sols, gs, b) ==
    {sol \in sols :
        /\ \A v \in DOMAIN b : sol[v] = Meaning(sol, b[v])
        /\ \A i \in DOMAIN gs :
              Holds(gs[i].is, [k \in DOMAIN gs[i].args |-> Meaning(sol, gs[i].args[k])])}

\* No step loses a solution of the query, or makes one up: as long as there
\* is no error, the branch, the choices and the answers have together those
\* the query has, however its goals are taken apart, whatever is skipped
\* beforehand, and whatever the representation of a number.  It is about
\* unify, unify_lists, isa, lookup and the helpers of the operators in vm.rs,
\* and the comparison and arithmetic of numerics.rs.
SolutionsKept ==
    status # "error" =>
        \E sols \in {Assignments} :
            Solutions(sols, query.goals, NoFields) =
                (IF status = "running" THEN Solutions(sols, goals, bindings) ELSE {})
                \cup UNION {UNION {Solutions(sols, alt \o c.goals, c.bindings) :
                                       alt \in ToSet(c.alternatives)} : c \in ToSet(choices)}
                \cup UNION {Solutions(sols, <<>>, b) : b \in answers}
================================================================================
