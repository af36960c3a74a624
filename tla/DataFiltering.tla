----------------------------- MODULE DataFiltering -----------------------------
(***************************************************************************)
(* A data filtering request from end to end.  The host asks for the        *)
(* resources an actor may act on; the bodies of the rules that match leave *)
(* constraints on the resource; every result is simplified and turned into *)
(* a filter (Filter), and, in the older interface, into a plan             *)
(* (FilterPlan); the host then fetches the records.                        *)
(*                                                                         *)
(* A body is a sequence of conditions, as the policy has them: it is       *)
(* rewritten, and the machine queries it (both PartialQuery).              *)
(***************************************************************************)
EXTENDS Filter, FilterPlan, PartialQuery

CONSTANTS
    Requests,   \* sequences of rule bodies
    Databases   \* what the host may have stored

ASSUME RootAssumption == PlanRoot = Root

VARIABLES
    bodies,     \* the bodies of the request
    next,       \* the body to try next
    results,    \* the simplified constraints of those that succeeded
    todo,       \* the disjuncts that are not in the filter yet
    filter,     \* the filter, NoFilter after an error
    plan,       \* the plan: its result sets, one of them not ok after an error
    phase       \* "query", "filter" or "done"

vars == <<bodies, next, results, todo, filter, plan, phase>>

Resource == Var("resource")
Outputs  == {Resource, Var("actor"), Var("action")}

-----------------------------------------------------------------------------
\* The constraint the request starts with: the resource is of the class.
Initial == <<Isa(Resource, Root)>>

\* The result event of an answer: the value of the resource or its partial,
\* simplified and told of _this instead of the resource.
ResultOf(m) ==
    LET partial == Op("And", Constraints(m, Resource))
    IN  IF Resource \in DOMAIN m.bound THEN m.bound[Resource]
        ELSE SubThis(Resource, Simplified(Resource, Outputs, partial))

\* The results of each body, computed once.
Bodies  == UNION {Range(r) : r \in Requests}
Results == [b \in Bodies |->
    LET answers == Query(Machine(Initial), RewriteBody(b))
    IN  [i \in DOMAIN answers |-> ResultOf(answers[i])]]

\* The disjuncts of all results, in normal form (Filter::build).
Disjunction(ts) == FoldLeft(LAMBDA l, t : Op("Or", <<l, t>>), ts[1], Tail(ts))
Disjuncts(ts)   == IF ts = <<>> THEN <<>> ELSE VecOfAnds(Disjunction(ts))

Init ==
    /\ bodies \in Requests
    /\ next = 1
    /\ results = <<>> /\ todo = <<>>
    /\ filter = EmptyFilter
    /\ plan = {}
    /\ phase = "query"

\* The next body is tried: it has an answer, several or none.
Answer ==
    /\ phase = "query" /\ next <= Len(bodies)
    /\ results' = results \o Results[bodies[next]]
    /\ next' = next + 1
    /\ UNCHANGED <<bodies, todo, filter, plan, phase>>

StartFilter ==
    /\ phase = "query" /\ next > Len(bodies)
    /\ phase' = "filter"
    /\ todo' = Disjuncts(results)
    /\ UNCHANGED <<bodies, next, results, filter, plan>>

\* One conjunction: its operations are a set, walked in any order.
AddConjunction ==
    /\ phase = "filter" /\ todo # <<>>
    /\ \E parts \in {PartsOf(Head(todo))} : \E pairs \in SetToSeqs(Equals(parts)) :
         \E f \in {Conjunction(parts, pairs)} :
            filter' = IF filter = EmptyFilter THEN f ELSE FilterUnion(filter, f)
    /\ todo' = Tail(todo)
    /\ UNCHANGED <<bodies, next, results, plan, phase>>

\* FilterPlan::build, and the duplicates that optimize removes.
BuildPlan ==
    /\ phase = "filter" /\ todo = <<>>
    /\ phase' = "done"
    /\ \E up \in BOOLEAN :
         plan' = {BuildResultSet(results[i], up) : i \in DOMAIN results}
    /\ UNCHANGED <<bodies, next, results, todo, filter>>

Next == Answer \/ StartFilter \/ AddConjunction \/ BuildPlan

Spec == Init /\ [][Next]_vars

-----------------------------------------------------------------------------
\* What a body says: all of its conditions at once; and the records of a
\* database it is true of.
Said(body) == Op("And", Initial \o body)
Permits == [b \in Bodies |-> [db \in Databases |->
              {o \in db.of[Root] : Satisfies(db, o, Resource, Said(b))}]]

Permitted(db) == UNION {Permits[bodies[i]][db] : i \in DOMAIN bodies}

\* The results so far mean what the bodies tried so far say: rewriting, the
\* goals of the machine, grounding, negation and simplification neither lose
\* a constraint nor invent one.  Each rewrites terms by cases, and they must
\* agree on the variables that they remove.
ResultsMean ==
    phase = "query" =>
       \A db \in Databases :
          {o \in db.of[Root] : \E t \in Range(results) : Satisfies(db, o, This, t)}
            = UNION {Permits[bodies[i]][db] : i \in 1..(next - 1)}

PlanOK == \A rs \in plan : rs.ok

\* Every record of the relations the filter joins has a row to join.
NoGaps(db) ==
    \A r \in filter.relations : \A o \in db.of[r.from] :
       Related(db, o, Types[r.from, r.field]) # {}

\* No record is fetched through a filter that the policy does not permit.
FilterSound ==
    phase = "done" /\ filter.ok =>
       \A db \in Databases : Fetched(db, filter) \subseteq Permitted(db)

\* Where every record has its related records, none that is permitted is
\* missing.
FilterComplete ==
    phase = "done" /\ filter.ok =>
       \A db \in Databases : NoGaps(db) => Permitted(db) \subseteq Fetched(db, filter)

\* The same of every database: a record need not have what the relation of
\* another result asks for (filter.rs:214 joins the relations of all).
FilterMissesNone ==
    phase = "done" /\ filter.ok =>
       \A db \in Databases : Permitted(db) \subseteq Fetched(db, filter)

\* A result that says of one path that it is a value, and that it is, or is
\* not, another one: it permits nothing.
Literal(op) == op.is \in {"Unify", "Neq"} /\ \E i \in 1..2 : IsLit(op.args[i])
PathIn(op)  == op.args[IF IsLit(op.args[1]) THEN 2 ELSE 1]
Contradicts(t) ==
    \E p, q \in Range(Ands(t)) : /\ p # q /\ Literal(p) /\ Literal(q)
                                 /\ PathIn(p) = PathIn(q) /\ p.is = "Unify"

\* The same for a plan, of results that do not contradict themselves.
PlanSound ==
    phase = "done" /\ PlanOK /\ (\A i \in DOMAIN results : ~Contradicts(results[i])) =>
       \A db \in Databases : Planned(db, plan) \subseteq Permitted(db)

\* A request of an older host is never told of more than the policy permits.
PlanNeverWider ==
    phase = "done" /\ PlanOK =>
       \A db \in Databases : Planned(db, plan) \subseteq Permitted(db)

\* Nor is anything that is permitted missing from what a plan fetches.
PlanComplete ==
    phase = "done" /\ PlanOK =>
       \A db \in Databases : Permitted(db) \subseteq Planned(db, plan)

=============================================================================
