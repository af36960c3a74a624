--------------------------------- MODULE Filter ---------------------------------
(***************************************************************************)
(* Filters over a data source (polar-core/src/filter.rs): the partial of a *)
(* variable becomes relations to join and a disjunction of sets of         *)
(* conditions on columns, by its disjunctive normal form (polar-core/src/  *)
(* normalize.rs).                                                          *)
(***************************************************************************)
EXTENDS DataModel

CONSTANT Root       \* the class the filter is for

(***************************************************************************)
(* The disjunctive normal form: connectives become binary, negations go    *)
(* inside, and the conjunctions are distributed over the disjunctions.     *)
(***************************************************************************)

\* An empty connective is lifted to a boolean, which the filter takes for
\* a term that is not an expression.
Boolean(b) == Term("lit", IF b THEN "true" ELSE "false", 0, <<>>)

\* A conjunct that reaches only the first disjunct.
RECURSIVE DistributeFirst(_)
DistributeFirst(t) ==
    IF ~IsOp(t) THEN t
    ELSE LET d == [i \in DOMAIN t.args |-> DistributeFirst(t.args[i])]
         IN  IF t.is = "And" /\ d[2].is = "Or"
             THEN Op("Or", <<DistributeFirst(Op("And", <<d[1], d[2].args[1]>>)),
                             d[2].args[2]>>)
             ELSE [t EXCEPT !.args = d]

RECURSIVE AsBinaryTree(_), Negated(_), NegationNormalForm(_), Distribute(_),
          OrOfAnds(_), Ands(_)

AsBinaryTree(t) ==
    IF t.is \notin {"And", "Or"} THEN t
    ELSE IF t.args = <<>> THEN Boolean(t.is = "And")
    ELSE FoldLeft(LAMBDA m, x : Op(t.is, <<m, AsBinaryTree(x)>>),
                  AsBinaryTree(t.args[1]), Tail(t.args))

Negated(t) ==
    CASE IsLit(t) /\ t.name \in {"true", "false"} -> Boolean(t.name = "false")
      [] t.is = "Not" -> t.args[1]
      [] t.is \in {"And", "Or"} ->
           Op(IF t.is = "And" THEN "Or" ELSE "And",
              <<Negated(t.args[1]), Negated(t.args[2])>>)
      [] OTHER -> Not(t)

NegationNormalForm(t) ==
    CASE ~IsOp(t) -> t
      [] t.is = "Not" -> Negated(NegationNormalForm(t.args[1]))
      [] OTHER -> [t EXCEPT !.args = [i \in DOMAIN t.args |->
                                        NegationNormalForm(t.args[i])]]

Distribute(t) ==
    IF ~IsOp(t) THEN t
    ELSE LET d == [i \in DOMAIN t.args |-> Distribute(t.args[i])]
             or(lhs, rhs) == Distribute(Op("Or", <<lhs, rhs>>))
         IN  CASE t.is = "And" /\ d[1].is = "Or" ->
                    or(Op("And", <<d[1].args[1], d[2]>>),
                          Op("And", <<d[1].args[2], d[2]>>))
               [] t.is = "And" /\ d[1].is # "Or" /\ d[2].is = "Or" ->
                    or(Op("And", <<d[1], d[2].args[1]>>),
                          Op("And", <<d[1], d[2].args[2]>>))
               [] OTHER -> [t EXCEPT !.args = d]

DisjunctiveNormalForm(t) == Distribute(NegationNormalForm(AsBinaryTree(t)))

\* vec_of_ands (filter.rs): the conjuncts of each disjunct.
Ands(t) == IF t.is = "And" THEN FlattenSeq([i \in DOMAIN t.args |-> Ands(t.args[i])])
           ELSE <<t>>
OrOfAnds(t) == IF t.is = "Or"
               THEN FlattenSeq([i \in DOMAIN t.args |-> OrOfAnds(t.args[i])])
               ELSE <<Ands(t)>>
VecOfAnds(t) == OrOfAnds(DisjunctiveNormalForm(t))

(***************************************************************************)
(* Columns and relations                                                   *)
(***************************************************************************)

\* a.b.c of a term, or nothing when the term is not one.
PathVar(v, path) == [var |-> v, path |-> path]

RECURSIVE IsPath(_), PathOf(_)
IsPath(t) == IsVar(t) \/ (t.is = "Dot" /\ IsPath(t.args[1]))
PathOf(t) == IF IsVar(t) THEN PathVar(t, <<>>)
             ELSE LET p == PathOf(t.args[1])
                  IN [p EXCEPT !.path = Append(@, t.name)]

\* The class at the end of a path of relations, "" when there is none.
EndOf(class, path) ==
    FoldLeft(LAMBDA c, f : IF IsRelation(c, f) THEN Types[c, f].other ELSE "",
             class, path)

\* entities: the class of the variables it is known for.
TypeOf(entities, pv) ==
    IF pv.var \in DOMAIN entities THEN EndOf(entities[pv.var], pv.path) ELSE ""

Rel(from, field)          == [from |-> from, field |-> field,
                              to |-> Types[from, field].other]
Projection(class, field)  == [is |-> "field", class |-> class, field |-> field, val |-> 0]
Immediate(t)              == [is |-> "value", class |-> "", field |-> t.name,
                              val |-> t.val]
Condition(left, cmp, right) == [left |-> left, cmp |-> cmp, right |-> right]

\* pathvar2proj.  Every field but the last names a relation; when the last
\* one does too the projection is of the record it leads to.
Relations(class, path) ==
    {Rel(EndOf(class, SubSeq(path, 1, i - 1)), path[i]) :
       i \in {j \in DOMAIN path :
                IsRelation(EndOf(class, SubSeq(path, 1, j - 1)), path[j])}}

Found(ok, datum, rels) == [ok |-> ok, datum |-> datum, rels |-> rels]

\* front and end: the class before the last field of the path, and at its end.
FieldDatum(class, path, front, end) ==
    IF end # "" THEN Found(TRUE, Projection(end, ""), Relations(class, path))
    ELSE IF front # "" THEN Found(TRUE, Projection(front, Last(path)), Relations(class, path))
    ELSE Found(FALSE, Projection("", ""), {})

PathDatum(class, path) ==
    FieldDatum(class, path, IF path = <<>> THEN "" ELSE EndOf(class, Front(path)),
               EndOf(class, path))

Datum(entities, t, pv) ==
    IF IsPath(t) THEN PathDatum(TypeOf(entities, PathVar(pv.var, <<>>)), pv.path)
    ELSE Found(TRUE, Immediate(t), {})

TermDatum(entities, t) == Datum(entities, t, PathOf(t))

Comparisons == [Unify |-> "Eq", Neq |-> "Neq", In |-> "In", Nin |-> "Nin",
                Lt |-> "Lt", Leq |-> "Leq", Gt |-> "Gt", Geq |-> "Geq"]

IsRecord(d) == d.is = "field" /\ d.field = ""

\* "x in r" where r leads to records says that x is the record.
ComparisonOf(o, l, r) ==
    IF o = "In" /\ IsRecord(r) /\ (l.is = "value" \/ IsRecord(l)) THEN "Eq"
    ELSE Comparisons[o]

\* A comparison of a thing with itself goes when it always holds.
Conditions(l, cmp, r) ==
    IF cmp \in {"Eq", "Leq", "Geq"} /\ l = r THEN {} ELSE {Condition(l, cmp, r)}

Digested(o, left, right) ==
    [ok         |-> left.ok /\ right.ok,
     conditions |-> Conditions(left.datum, ComparisonOf(o, left.datum, right.datum),
                               right.datum),
     relations  |-> left.rels \cup right.rels]

Unsupported == [ok |-> FALSE, conditions |-> {}, relations |-> {}]

\* add_constraint: one operation; the only negation is that of an In.
Digest(entities, op) ==
    LET of(o, args) == Digested(o, TermDatum(entities, args[1]), TermDatum(entities, args[2]))
    IN  IF op.is = "Not"
        THEN IF op.args[1].is = "In" THEN of("Nin", op.args[1].args) ELSE Unsupported
        ELSE IF op.is \in DOMAIN Comparisons THEN of(op.is, op.args) ELSE Unsupported

\* validate: no two relations lead to one class, and none to the root.
Validated(relations) ==
    \A r \in relations : /\ r.to # Root
                         /\ \A q \in relations : q.to = r.to => q = r

-----------------------------------------------------------------------------
\* The pairs of paths that an operation makes equal: those of a HashSet of
\* operations, and so in any order.
Equals(ops) ==
    {{PathOf(op.args[1]), PathOf(op.args[2])} :
       op \in {o \in ops : o.is \in {"Unify", "In"} /\ \A i \in 1..2 : IsPath(o.args[i])}}

RootEntities == [v \in {This} |-> Root]

\* A class of equal paths gives its members the type any of them has.
Entities(classes) ==
    LET typesOf(i) == {TypeOf(RootEntities, pv) : pv \in classes[i]} \ {""}
        of(v) == {i \in DOMAIN classes : typesOf(i) # {} /\ PathVar(v, <<>>) \in classes[i]}
        vars  == {pv.var : pv \in UNION Range(classes)} \ {This}
    IN  [v \in {This} \cup {w \in vars : of(w) # {}} |->
           IF v = This THEN Root ELSE CHOOSE c \in typesOf(Max(of(v))) : TRUE]

NoFilter == [ok |-> FALSE, conditions |-> {}, relations |-> {}]

MadeOf(digested, relations) ==
    IF (\A d \in digested : d.ok) /\ Validated(relations)
    THEN [ok |-> TRUE, conditions |-> {UNION {d.conditions : d \in digested}},
          relations |-> relations]
    ELSE NoFilter

DigestAll(parts, entities) == {Digest(entities, op) : op \in parts}

\* build_filter: one conjunction, with the pairs in the order given.
Gathered(digested) == MadeOf(digested, UNION {d.relations : d \in digested})
Conjunction(parts, pairs) == Gathered(DigestAll(parts, Entities(PartitionEquivs(pairs))))

\* from_partial: the operations of a disjunct; an instance, or whatever is
\* not an operation, is what _this is equal to.  Isa is left out.
PartsOf(ands) ==
    {IF IsOp(ands[i]) THEN ands[i] ELSE Op("Unify", <<This, ands[i]>>) :
       i \in {j \in DOMAIN ands : ands[j].is # "Isa"}}

\* empty: a filter no record passes, for a query without results.
Never == Condition(Immediate(Boolean(TRUE)), "Eq", Immediate(Boolean(FALSE)))
EmptyFilter == [ok |-> TRUE, conditions |-> {{Never}}, relations |-> {}]

\* union: conditions and relations are put together, and not validated.
FilterUnionLast(f, g) ==
    IF ~f.ok \/ ~g.ok THEN NoFilter
    ELSE [ok |-> TRUE, conditions |-> g.conditions,
          relations |-> f.relations \cup g.relations]

FilterUnion(f, g) ==
    IF ~f.ok \/ ~g.ok THEN NoFilter
    ELSE [ok |-> TRUE, conditions |-> f.conditions \cup g.conditions,
          relations |-> f.relations \cup g.relations]

-----------------------------------------------------------------------------
(***************************************************************************)
(* What the host does with a filter (data/adapter/sqlalchemy_adapter.py):  *)
(* the root and every relation are joined, a row of the join has one       *)
(* record of each class, and the records of the root in the rows that pass *)
(* some set of conditions are returned.                                    *)
(***************************************************************************)
Joins(db, filter, row) ==
    \A r \in filter.relations :
       LET t == Types[r.from, r.field]
       IN Column(db, row[r.from], t.mine) \cap Column(db, row[r.to], t.theirs) # {}

Rows(db, filter) ==
    LET classes == {Root} \cup {r.to : r \in filter.relations}
                          \cup {r.from : r \in filter.relations}
    IN  {row \in [classes -> Objects(db)] :
           /\ \A c \in classes : row[c] \in db.of[c]
           /\ Joins(db, filter, row)}

Side(db, row, d) ==
    IF d.is = "value" THEN {IF d.field = "" THEN d.val ELSE -1}
    ELSE IF d.field = "" THEN {row[d.class]}
    ELSE Column(db, row[d.class], d.field)

Passes(db, row, c) ==
    LET a == Side(db, row, c.left)
        b == Side(db, row, c.right)
    IN  CASE c = Never     -> FALSE
          [] c.cmp = "Eq"  -> \E x \in a : x \in b
          [] c.cmp = "In"  -> \E x \in a : x \in b
          [] c.cmp = "Nin" -> \A x \in a : x \notin b
          [] OTHER -> \E x \in a, y \in b : Compares(c.cmp, x, y)

Fetched(db, filter) ==
    {row[Root] : row \in {r \in Rows(db, filter) :
                            \E conditions \in filter.conditions :
                               \A c \in conditions : Passes(db, r, c)}}

=============================================================================
