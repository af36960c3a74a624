------------------------------- MODULE FilterPlan -------------------------------
(***************************************************************************)
(* Filter plans (polar-core/src/data_filtering.rs), the older way to       *)
(* filter data: a result becomes a set of requests, each for the records   *)
(* of one class under constraints on their columns, that the host resolves *)
(* in order (python polar/data_filtering.py).  Sets and maps are walked in *)
(* an order that the hash gives: "up" chooses one of two here.             *)
(***************************************************************************)
EXTENDS DataModel

CONSTANT PlanRoot   \* the class the plan is for

Walk(S, up) == IF up THEN SetToSeq(S) ELSE Reverse(SetToSeq(S))

-----------------------------------------------------------------------------
(***************************************************************************)
(* VarInfo: what the operations of a result say, by kind, with a name for  *)
(* every lookup and every literal that needs one.                          *)
(***************************************************************************)
NoInfo == [cycles |-> <<>>, uncycles |-> <<>>, types |-> <<>>, eqs |-> <<>>,
           contained |-> <<>>, fields |-> <<>>, ins |-> <<>>, n |-> 1, ok |-> TRUE]

Named(info, v) == [info |-> info, v |-> v]
Fresh(info, name) == Term("var", name, info.n, <<>>)

First(S) == CHOOSE i \in S : \A j \in S : i <= j

\* The pairs of a name and a literal that have this literal.
ValuesNamed(info, t) == {i \in DOMAIN info.eqs : info.eqs[i][2] = t}

RECURSIVE Symbolize(_, _), DotVar(_, _, _)
Symbolize(info, t) ==
    LET hits == ValuesNamed(info, t)
        v    == Fresh(info, "_sym")
    IN  CASE IsVar(t)     -> Named(info, t)
          [] t.is = "Dot" -> DotVar(info, t.args[1], t.name)
          [] ~IsVar(t) /\ t.is # "Dot" ->
               IF hits # {} THEN Named(info, info.eqs[First(hits)][1])
               ELSE Named([info EXCEPT !.n = @ + 1, !.eqs = Append(@, <<v, t>>)], v)

DotVar(info, base, field) ==
    LET b    == Symbolize(info, base)
        hits == {i \in DOMAIN b.info.fields :
                   b.info.fields[i][1] = b.v /\ b.info.fields[i][2] = field}
        v    == Fresh(b.info, "_dot")
    IN  IF hits # {} THEN Named(b.info, b.info.fields[First(hits)][3])
        ELSE Named([b.info EXCEPT !.n = @ + 1,
                                  !.fields = Append(@, <<b.v, field, v>>)], v)

Undot(info, t) == IF t.is = "Dot" THEN DotVar(info, t.args[1], t.name)
                  ELSE Named(info, t)

Refused(info) == [info EXCEPT !.ok = FALSE]

DoIsa(info, op) == LET l == Symbolize(info, op.args[1])
                   IN [l.info EXCEPT !.types = Append(@, <<l.v, op.name>>)]

\* The two sides of a binary operation, lookups replaced by their names.
Sides(info, op, P(_, _, _)) ==
    LET l == Undot(info, op.args[1])
        r == Undot(l.info, op.args[2])
    IN  P(r.info, l.v, r.v)

DoUnify(info, op) ==
    Sides(info, op, LAMBDA i, l, r :
      IF IsVar(l) /\ IsVar(r) THEN [i EXCEPT !.cycles = Append(@, {l, r})]
      ELSE IF IsVar(l) THEN [i EXCEPT !.eqs = Append(@, <<l, r>>)]
      ELSE IF IsVar(r) THEN [i EXCEPT !.eqs = Append(@, <<r, l>>)]
      ELSE Refused(i))

DoNeq(info, op) ==
    Sides(info, op, LAMBDA i, l, r :
      IF ~IsVar(l) /\ ~IsVar(r) THEN Refused(i)
      ELSE LET a == Symbolize(i, l)
               b == Symbolize(a.info, r)
           IN [b.info EXCEPT !.uncycles = Append(@, <<a.v, b.v>>)])

DoIn(info, op) ==
    Sides(info, op, LAMBDA i, l, r :
      IF ~IsVar(r) THEN Refused(i)
      ELSE IF IsVar(l) THEN [i EXCEPT !.ins = Append(@, <<l, r>>)]
      ELSE [i EXCEPT !.contained = Append(@, <<l, r>>)])

RECURSIVE ProcessExp(_, _)
ProcessExp(info, op) ==
    CASE op.is = "And"   -> FoldLeft(ProcessExp, info, op.args)
      [] op.is = "Dot"   -> DotVar(info, op.args[1], op.name).info
      [] op.is = "Isa"   -> DoIsa(info, op)
      [] op.is = "Neq"   -> DoNeq(info, op)
      [] op.is = "In"    -> DoIn(info, op)
      [] op.is \in {"Unify", "Eq"} -> DoUnify(info, op)
      [] OTHER -> Refused(info)

-----------------------------------------------------------------------------
(***************************************************************************)
(* Vars: the same by class of equal variables.  A class, the set of its    *)
(* variables, stands for the id the code gives it.                         *)
(***************************************************************************)
IdOf(classes, v, up) ==
    LET hits == {i \in DOMAIN classes : v \in classes[i]}
    IN  IF hits = {} THEN {v}
        ELSE classes[IF up THEN Min(hits) ELSE Max(hits)]

VarsOfInfo(info, up) ==
    LET classes == PartitionEquivs(info.cycles)
        id(v)   == IdOf(classes, v, up)
        valued  == {id(info.eqs[i][1]) : i \in DOMAIN info.eqs}
        \* a class that has two values keeps the last
        last(c) == Max({i \in DOMAIN info.eqs : id(info.eqs[i][1]) = c})
        both(i) == {<<id(info.uncycles[i][1]), id(info.uncycles[i][2])>>,
                    <<id(info.uncycles[i][2]), id(info.uncycles[i][1])>>}
    IN  [uncycles  |-> UNION {both(i) : i \in DOMAIN info.uncycles},
         ins       |-> {<<id(info.ins[i][1]), id(info.ins[i][2])>> : i \in DOMAIN info.ins},
         eqs       |-> [c \in valued |-> info.eqs[last(c)][2]],
         contained |-> {<<info.contained[i][1], id(info.contained[i][2])>> :
                          i \in DOMAIN info.contained},
         fields    |-> {<<id(info.fields[i][1]), info.fields[i][2], id(info.fields[i][3])>> :
                          i \in DOMAIN info.fields},
         this      |-> id(This)]

-----------------------------------------------------------------------------
(***************************************************************************)
(* ResultSetBuilder: requests by id, and the order to resolve them in.     *)
(* The constraints of a request are a set; a constraint compares a column  *)
(* of the record, or the record itself (column ""), with a term, with      *)
(* another column or with a column of the records another request got.     *)
(***************************************************************************)
Constraint(kind, column, from, id, other, val) ==
    [kind |-> kind, column |-> column, from |-> from, id |-> id, other |-> other,
     val |-> val]
ToTerm(kind, column, t)      == Constraint(kind, column, "term", {}, "", t.val)
ToField(kind, column, other) == Constraint(kind, column, "field", {}, other, 0)
ToRef(kind, column, id, other) == Constraint(kind, column, "ref", id, other, 0)

Add(b, id, cs) == [b EXCEPT !.requests[id].constraints = @ \cup cs]

Unequal(vars, id) == {d \in {p[2] : p \in vars.uncycles} : <<id, d>> \in vars.uncycles}
Valued(vars, id)  == id \in DOMAIN vars.eqs

\* A base field: constrain_field_eq, _neq, _contained and the two _others.
OnField(vars, id, field, child) ==
    LET eq  == IF Valued(vars, child) THEN {ToTerm("Eq", field, vars.eqs[child])} ELSE {}
        neq == IF Valued(vars, child) THEN {}
               ELSE {IF Valued(vars, d) THEN ToTerm("Neq", field, vars.eqs[d])
                     ELSE ToRef("Nin", field, d, "") : d \in Unequal(vars, child)}
        contained == {ToTerm("Contains", field, c[1]) :
                        c \in {c \in vars.contained : c[2] = child}}
        other(f)  == IF f[1] = id THEN "field" ELSE "ref"
        others(kind, S) == {Constraint(kind, field, other(f),
                                       IF f[1] = id THEN {} ELSE f[1], f[2], 0) : f \in S}
        elsewhere == {f \in vars.fields : f[1] # id \/ f[2] # field}
    IN  eq \cup neq \cup contained
          \cup others("Eq", {f \in elsewhere : f[3] = child})
          \cup others("Neq", {f \in elsewhere : /\ f[3] # child
                                                /\ <<f[3], child>> \in vars.uncycles})

\* constrain_eq_vars and constrain_neq_vars: the record as a whole.
EqNothing(vars, id) == {}
EqVars(vars, id) ==
    IF Valued(vars, id) THEN {ToTerm("Eq", "", vars.eqs[id])} ELSE {}
NeqVars(vars, id) ==
    {IF Valued(vars, d) THEN ToTerm("Neq", "", vars.eqs[d]) ELSE ToRef("Nin", "", d, "") :
       d \in Unequal(vars, id)}

RECURSIVE ConstrainVar(_, _, _, _, _)

ConstrainFields(vars, up, b, id, class) ==
    FoldLeft(LAMBDA acc, f :
               LET t    == Types[class, f[2]]
                   base == OnField(vars, id, f[2], f[3])
               IN  IF ~Known(class, f[2]) THEN [acc EXCEPT !.ok = FALSE]
                   ELSE IF t.is = "relation"
                   THEN Add(ConstrainVar(vars, up, acc, f[3], t.other), id,
                            {ToRef("In", t.mine, f[3], t.theirs)})
                   \* ensure_added_constraint
                   ELSE [Add(acc, id, base) EXCEPT !.ok = @ /\ base # {}],
             b, Walk({f \in vars.fields : f[1] = id}, up))

\* The constraints of what is in this variable are its constraints.  Its
\* request is out of the map while those are made.
ConstrainIns(vars, up, b, id, class) ==
    LET mine == b.requests[id]
        out  == [b EXCEPT !.requests = Restrict(@, DOMAIN @ \ {id})]
        members == Walk({p[1] : p \in {q \in vars.ins : q[2] = id}}, up)
        step(acc, l) ==
            LET c == ConstrainVar(vars, up, acc.b, l, class)
            IN  [b |-> c, got |-> acc.got \cup (IF l \in DOMAIN c.requests
                                               THEN c.requests[l].constraints ELSE {})]
        all == FoldLeft(step, [b |-> out, got |-> {}], members)
        contained == {ToTerm("Eq", "", c[1]) : c \in {c \in vars.contained : c[2] = id}}
    IN  [all.b EXCEPT !.requests =
           [i \in DOMAIN @ \cup {id} |->
              IF i = id THEN [mine EXCEPT !.constraints = @ \cup all.got \cup contained]
              ELSE @[i]]]

ConstrainVar(vars, up, b, id, class) ==
    LET opened == [b EXCEPT !.seen = @ \cup {id},
                            !.requests = [i \in DOMAIN @ \cup {id} |->
                                            IF i = id THEN [class |-> class, constraints |-> {}]
                                            ELSE @[i]]]
        done == ConstrainIns(vars, up, ConstrainFields(vars, up, opened, id, class), id, class)
    IN  IF id \in b.seen THEN b
        ELSE [Add(done, id, EqVars(vars, id) \cup NeqVars(vars, id)) EXCEPT !.order = Append(@, id)]

\* into_result_set: a reference to what is not resolved before is dropped.
Ordered(b) ==
    LET before(id) == {b.order[i] : i \in {i \in DOMAIN b.order :
                                            \A j \in 1..i : b.order[j] # id}}
    IN  [b EXCEPT !.requests =
           [id \in DOMAIN @ |->
              [@[id] EXCEPT !.constraints =
                 {c \in @ : c.from = "ref" => c.id \in before(id)}]]]

ResultSet(b, id) == [ok |-> b.ok, requests |-> b.requests, order |-> b.order, id |-> id]

\* A result whose value is no conjunction is the record itself.
ImmediateSet(t) ==
    ResultSet([ok |-> TRUE, order |-> <<{This}>>,
               requests |-> [id \in {{This}} |->
                  [class |-> PlanRoot, constraints |-> {ToTerm("Eq", "", t)}]]], {This})

BuildResultSet(t, up) ==
    LET info == ProcessExp(NoInfo, t)
        vars == VarsOfInfo(info, up)
        b    == [requests |-> [i \in {} |-> 0], order |-> <<>>, seen |-> {}, ok |-> TRUE]
    IN  IF t.is # "And" THEN ImmediateSet(t)
        ELSE IF ~info.ok \/ This \notin VariablesOf(t) THEN ResultSet([b EXCEPT !.ok = FALSE], {})
        ELSE ResultSet(Ordered(ConstrainVar(vars, up, b, vars.this, PlanRoot)), vars.this)

-----------------------------------------------------------------------------
(***************************************************************************)
(* The host's resolver: requests in order, references replaced by the      *)
(* records fetched for them.  The references of a request to one other     *)
(* are taken together, row by row.                                         *)
(***************************************************************************)
Cell(db, o, column) == IF column = "" THEN {o} ELSE Column(db, o, column)

Checks(db, o, c) ==
    LET mine  == Cell(db, o, c.column)
        value == IF c.from = "term" THEN {c.val} ELSE Cell(db, o, c.other)
    IN  IF c.kind = "Neq" THEN mine # value ELSE mine \cap value # {}

MatchesAll(db, o, group, rows) ==
    \A r \in rows : \A c \in group :
       Cell(db, o, c.column) \cap Cell(db, r, c.other) # {}

Matches(db, o, group, rows) ==
    \E r \in rows : \A c \in group :
       Cell(db, o, c.column) \cap Cell(db, r, c.other) # {}

ExecQuery(db, request, results) ==
    LET refs  == {c \in request.constraints : c.from = "ref"}
        yes(id) == {c \in refs : c.id = id /\ c.kind \in {"In", "Eq"}}
        no(id)  == {c \in refs : c.id = id /\ c.kind \in {"Nin", "Neq"}}
    IN  {o \in db.of[request.class] :
           /\ \A c \in request.constraints \ refs : Checks(db, o, c)
           /\ \A id \in {c.id : c \in refs} :
                /\ yes(id) # {} => Matches(db, o, yes(id), results[id])
                /\ no(id) # {} => ~Matches(db, o, no(id), results[id])}

Resolve(db, rs) ==
    FoldLeft(LAMBDA results, id :
               [i \in DOMAIN results \cup {id} |->
                  IF i = id THEN ExecQuery(db, rs.requests[id], results) ELSE results[i]],
             [i \in {} |-> {}], rs.order)[rs.id]

\* combine_query: the union of the result sets of the plan.
Planned(db, plan) == UNION {Resolve(db, rs) : rs \in plan}

=============================================================================
