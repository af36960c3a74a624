------------------------------ MODULE PartialQuery ------------------------------
(***************************************************************************)
(* The virtual machine on the body of a rule when the resource is a        *)
(* variable: what its goals leave of constraints (query_for_operation and  *)
(* its helpers in polar-core/src/vm.rs, BindingManager in bindings.rs), a  *)
(* "not" included (inverter.rs).  A machine is a record:                   *)
(*    ops      the constraints, each on one or more variables              *)
(*    bound    the variables with a value                                  *)
(*    ties     pairs of variables that were unified without a value        *)
(*    log      what was added and bound, and the choices that were taken   *)
(*    next     the next temporary variable                                 *)
(* and the answers to a query are a sequence of machines.  Constraints     *)
(* that share a variable, directly or through others, are one partial.     *)
(* Values are asked nothing of: no body looks a field of a value up.       *)
(***************************************************************************)
EXTENDS Simplifier

(***************************************************************************)
(* How the body of a rule is rewritten when it is loaded                   *)
(* (polar-core/src/rewrites.rs): a lookup inside of another term becomes a *)
(* conjunct of its own, which gives its value to a temporary variable that *)
(* takes its place.  The conjunct stays within the nearest connective, so  *)
(* that it is made when, and only when, its term is.  Of the operations    *)
(* that are rewritten these are the lookups.                               *)
(***************************************************************************)

\* A lookup that is a conjunct, with the variable for its value.
Lookup(t, field, value) == Term("Dot", field, 0, <<t, value>>)

NeedsRewrite(t) == t.is = "Dot" /\ Len(t.args) = 1

\* And of two terms.
Conj(l, r) == Op("And", <<l, r>>)

\* Where the lookups of an argument go: after a unification, so that a value
\* is there when they are made, and before anything else; in a forall, after.
Hoisted(connective, t, lookups) ==
    IF t.is = "Unify" \/ connective = "ForAll" THEN FoldLeft(Conj, t, lookups)
    ELSE FoldRight(Conj, lookups, t)

\* A term without its lookups, these, and the next temporary variable.
Folded(t, lookups, next) == [t |-> t, lookups |-> lookups, next |-> next]

\* The lookups of an operand are those of its operation, but an argument of
\* a connective keeps its own.
FoldArgs(t, lookups, next, Fold(_, _, _)) ==
    FoldLeft(LAMBDA done, a : LET f == Fold(a, done.lookups, done.next)
                              IN  [f EXCEPT !.t = Append(done.t, f.t)],
             Folded(<<>>, lookups, next), t.args)
FoldConnective(t, lookups, next, Fold(_, _, _)) ==
    FoldLeft(LAMBDA done, a : LET f == Fold(a, <<>>, done.next)
                              IN  [done EXCEPT !.t = Append(@, Hoisted(t.is, f.t, f.lookups)),
                                               !.next = f.next],
             Folded(<<>>, lookups, next), t.args)

RECURSIVE FoldTerm(_, _, _)
FoldTerm(t, lookups, next) ==
    LET f == IF t.is \in {"And", "Or", "Not", "ForAll"}
             THEN FoldConnective(t, lookups, next, FoldTerm)
             ELSE FoldArgs(t, lookups, next, FoldTerm)
        temp == Temp(f.next)
    IN  IF NeedsRewrite(t)
        THEN Folded(temp, Append(f.lookups, Lookup(f.t[1], t.name, temp)), f.next + 1)
        ELSE [f EXCEPT !.t = [t EXCEPT !.args = f.t]]

\* The body of a rule, a conjunction.
RewriteBody(body) == FoldTerm(Op("And", body), <<>>, 1).t

(***************************************************************************)
(* The machine                                                             *)
(***************************************************************************)

Machine(ops) ==
    [ops |-> ops, bound |-> [v \in {} |-> TRUTH], ties |-> {}, log |-> <<>>, next |-> 100]

Logged(m, do, op) == [m EXCEPT !.log = Append(@, [do |-> do, op |-> op])]

ValueOf(m, t) == IF t \in DOMAIN m.bound THEN m.bound[t] ELSE t

RECURSIVE Reach(_, _)
Reach(ops, vs) ==
    LET more == vs \cup UNION {VariablesOf(op) : op \in
                                 {o \in ops : VariablesOf(o) \cap vs # {}}}
    IN  IF more = vs THEN vs ELSE Reach(ops, more)

\* get_constraints, for a variable without a value.
Touches(op, vs)  == VariablesOf(op) \cap vs # {}
Constraints(m, v) == LET vs == Reach(Range(m.ops), {v})
                     IN  SelectSeq(m.ops, LAMBDA op : Touches(op, vs))
IsPartial(m, v)  == \E op \in Range(m.ops) : v \in VariablesOf(op)
IsTied(m, v)     == \E tie \in m.ties : v \in VariablesOf(tie)

-----------------------------------------------------------------------------
\* add_constraint: along with what its variables are tied to, and with the
\* values of those that have one.
GroundAll(op, bound) ==
    FoldLeft(LAMBDA g, v : LET h == Ground(g.t, v, bound[v], FALSE)
                           IN  Grounded(h.t, g.consistent /\ h.consistent),
             Grounded(Op("And", <<op>>), TRUE),
             SetToSeq(DOMAIN bound \cap VariablesOf(op)))

AddConstraint(m, op) ==
    LET vs   == Reach(m.ties, VariablesOf(op))
        tied == {tie \in m.ties : Touches(tie, vs)}
        g    == GroundAll(op, m.bound)
    IN  IF ~g.consistent THEN <<>>
        ELSE <<Logged([m EXCEPT !.ops = Constrain(SetToSeq(tied) \o @, g.t.args[1]),
                                !.ties = @ \ tied], "add", op)>>

Bound(m, goal) == [m |-> m, goal |-> goal]

\* A value alone: the constraints do not come to know it.
BindAlone(m, v, value) ==
    <<Bound([m EXCEPT !.bound = [x \in DOMAIN @ \cup {v} |->
                                   IF x = v THEN value ELSE @[x]]], TRUTH)>>

\* A value for a variable and those it is tied to.  The goal is to query the
\* constraints on it again, with the value (partial_bind).
BindValue(m, v, value) ==
    LET vs == Reach(m.ties, {v})
        g  == Ground(Op("And", m.ops), v, value, FALSE)
        again == Ground(Op("And", Constraints(m, v)), v, value, FALSE).t
    IN  IF ~g.consistent THEN <<>>
        ELSE <<Bound([m EXCEPT !.ops = g.t.args,
                               !.ties = {tie \in @ : ~Touches(tie, vs)},
                               !.bound = [x \in DOMAIN @ \cup vs |->
                                            IF x \in vs THEN value ELSE @[x]]],
                     again)>>

\* Two variables without a value (bind_variables).  Two partials that are
\* one already are left alone, two others are tied and queried again.
BindVariables(m, l, r) ==
    LET tie  == Op("Unify", <<l, r>>)
        both == IsPartial(m, l) /\ IsPartial(m, r)
    IN  IF both /\ r \in Reach(Range(m.ops), {l}) THEN <<Bound(m, TRUTH)>>
        ELSE IF both
             THEN <<Bound([m EXCEPT !.ops = <<tie>> \o @],
                          Op("And", Constraints(m, l) \o Constraints(m, r)))>>
        ELSE IF IsPartial(m, l) \/ IsPartial(m, r)
             THEN <<Bound(AddConstraint(m, tie)[1], TRUTH)>>
        ELSE <<Bound([m EXCEPT !.ties = @ \cup {tie}], TRUTH)>>

\* bind: of a variable to a value or another variable, which may have one.
BindTerms(m, l, r) ==
    LET lv == ValueOf(m, l)
        rv == ValueOf(m, r)
    IN  CASE lv = rv -> <<Bound(m, TRUTH)>>
          [] lv # rv /\ IsVar(lv) /\ IsVar(rv) -> BindVariables(m, l, r)
          [] lv # rv /\ IsLit(lv) /\ IsLit(rv) -> <<>>
          [] IsLit(lv) # IsLit(rv) ->
               BindValue(m, IF IsLit(lv) THEN r ELSE l, IF IsLit(lv) THEN lv ELSE rv)

Each(ms, Do(_)) == FlattenSeq([i \in DOMAIN ms |-> Do(ms[i])])

\* ... of which the followers hear.
BindTo(m, v, t) ==
    Each(BindTerms(m, v, t),
         LAMBDA b : <<[b EXCEPT !.m = Logged(@, "bind", Op("Unify", <<v, t>>))]>>)

-----------------------------------------------------------------------------
(***************************************************************************)
(* The goals: what each does, and the goal it pushes.                      *)
(***************************************************************************)
Plain(ms) == [i \in DOMAIN ms |-> Bound(ms[i], TRUTH)]

\* A lookup of a field of a variable.
DotOp(m, object, field, value) ==
    AddConstraint(m, Op("Unify", <<ValueOf(m, value), Dot(object, field)>>))

\* A lookup in a unification is made again, values are compared, and a
\* variable without a value is bound.
Unify(m, t) ==
    LET l == t.args[1]
        r == t.args[2]
        lv == ValueOf(m, l)
    IN  CASE r.is = "Dot" -> Plain(DotOp(m, r.args[1], r.name, l))
          [] r.is # "Dot" /\ l.is = "Dot" -> Plain(DotOp(m, l.args[1], l.name, r))
          [] r.is # "Dot" /\ l.is # "Dot" ->
               IF IsLit(lv) /\ IsLit(ValueOf(m, r))
               THEN Plain(IF lv = ValueOf(m, r) THEN <<m>> ELSE <<>>)
               ELSE BindTo(m, IF IsVar(l) THEN l ELSE r, IF IsVar(l) THEN r ELSE l)

\* A comparison, or "in": of values it is decided, of variables kept; a
\* lookup in it, which the simplifier leaves, gets a variable first.
Compare(m, t) ==
    LET args   == [i \in 1..2 |-> ValueOf(m, t.args[i])]
        dots   == {i \in 1..2 : args[i].is = "Dot"}
        first  == CHOOSE i \in dots : \A j \in dots : i <= j
        rwdot  == Temp(m.next)
        found  == Op("Unify", <<rwdot, args[first]>>)
    IN  IF dots # {}
        THEN <<Bound([m EXCEPT !.next = @ + 1],
                     Op("And", <<found, [t EXCEPT !.args[first] = rwdot]>>))>>
        ELSE Plain(IF IsVar(args[1]) \/ IsVar(args[2])
                   THEN AddConstraint(m, [t EXCEPT !.args = args])
                   ELSE IF Compares(t.is, args[1].val, args[2].val) THEN <<m>> ELSE <<>>)

-----------------------------------------------------------------------------
(***************************************************************************)
(* The inverter.  A follower of the bindings hears of what the operand     *)
(* adds and binds; each answer takes it away and puts a new one in its     *)
(* place, which hears of what comes after the choice that is tried next.   *)
(***************************************************************************)
Follow(f, e) ==
    LET heard == CASE e.do = "add"    -> AddConstraint(f, e.op)
                   [] e.do = "choice" -> <<>>
                   [] e.do = "bind"   -> Each(BindTo(f, e.op.args[1], e.op.args[2]),
                                              LAMBDA b : <<b.m>>)
    IN  IF heard = <<>> THEN f ELSE heard[1]

\* How much of its way an answer shares with the one before.
Shared(answers, i) ==
    IF i = 1 THEN 0
    ELSE LET log    == answers[i].log
             before == answers[i - 1].log
             differ == {n \in DOMAIN log : n > Len(before) \/ log[n] # before[n]}
         IN  CHOOSE n \in 0..Len(log) : /\ \A k \in differ : n < k
                                        /\ n = Len(log) \/ n + 1 \in differ

Follower(answers, i) ==
    FoldLeft(Follow, Machine(<<>>),
             SubSeq(answers[i].log, Shared(answers, i) + 1, Len(answers[i].log)))

\* invert_partials: what a follower has for a variable, inverted.
Has(f, v) == v \in DOMAIN f.bound \/ IsPartial(f, v) \/ IsTied(f, v)
Inverted(v, t) == IF IsOp(t) THEN Not(t) ELSE Op("Neq", <<v, t>>)
InvertPartial(f, v) ==
    Inverted(v, IF v \in DOMAIN f.bound THEN f.bound[v]
                ELSE Simplified(v, {v}, Op("And", Constraints(f, v))))

\* results_to_constraints: what the answers have for a variable, each
\* inverted.
AsConstraint(v, t) == IF IsOp(t) THEN t ELSE Op("Unify", <<v, t>>)
ResultsToConstraint(followers, v) ==
    LET having == SelectSeq(followers, LAMBDA f : Has(f, v))
    IN  AsConstraint(v, Simplified(v, {v},
            Op("And", [i \in DOMAIN having |-> InvertPartial(having[i], v)])))

\* Without an answer "not" succeeds.  With answers it does only if they have
\* something for a variable that was constrained before.
AddInverted(m, followers) ==
    LET told == {v \in UNION {VariablesOf(op) : op \in Range(m.ops) \cup m.ties} :
                   \E f \in Range(followers) : Has(f, v)}
        tell(ms, v) == Each(ms, LAMBDA n : AddConstraint(n, ResultsToConstraint(followers, v)))
    IN  IF followers = <<>> THEN <<m>>
        ELSE IF told = {} THEN <<>>
        ELSE FoldLeft(tell, <<m>>, SetToSeq(told))

Followers(answers) == [i \in DOMAIN answers |-> Follower(answers, i)]

-----------------------------------------------------------------------------
\* Every disjunct is an alternative of its own.
Chosen(m, i) == Logged(m, "choice", Lit(i))

\* "in" of a list: to be any of its members, of those that can be.
AnyMember(item, list) ==
    LET members == SelectSeq(list.args, LAMBDA x : IsVar(item) \/ x = item)
    IN  Op("Or", [i \in DOMAIN members |-> Op("Unify", <<item, members[i]>>)])

\* forall is the double negation.
NoCounterexample(t) == Not(Op("And", <<t.args[1], Not(t.args[2])>>))

RECURSIVE Query(_, _)
Query(m, t) ==
    CASE t.is = "And" -> FoldLeft(LAMBDA ms, a : Each(ms, LAMBDA n : Query(n, a)), <<m>>, t.args)
      [] t.is = "Or"  -> FlattenSeq([i \in DOMAIN t.args |-> Query(Chosen(m, i), t.args[i])])
      [] t.is = "Not" -> AddInverted(m, Followers(Query([m EXCEPT !.log = <<>>], t.args[1])))
      [] t.is = "Dot" -> DotOp(m, t.args[1], t.name, t.args[2])
      [] t.is = "Isa" -> <<m>>
      [] t.is = "ForAll" -> Query(m, NoCounterexample(t))
      [] t.is = "In" /\ t.args[2].is = "List" ->
           Query(m, AnyMember(ValueOf(m, t.args[1]), t.args[2]))
      [] t.is \notin {"And", "Or", "Not", "Dot", "Isa", "ForAll", "In"}
           \/ (t.is = "In" /\ t.args[2].is # "List") ->
           Each(IF t.is = "Unify" THEN Unify(m, t) ELSE Compare(m, t),
                LAMBDA b : Query(b.m, b.goal))

=============================================================================
