----------------------------- MODULE VirtualMachine -----------------------------
(***************************************************************************)
(* The instructions of the virtual machine of polar-core/src/vm.rs, as     *)
(* operators on one machine: its stacks of goals, choices, queries and     *)
(* bindings.  The module Query runs them.                                  *)
(*                                                                         *)
(* A stack is a sequence whose last element is on top.  A binding is an    *)
(* entry of an answer variable (its call id) or of a fact's parameter      *)
(* (NoId).  Tracing, logging and the debugger are left out, and with them  *)
(* the goals TraceStackPush, TraceStackPop, TraceRule, Debug and Noop.     *)
(*                                                                         *)
(* Terms are ground: what unification does is the subject of the modules   *)
(* Bindings and BindingManager.  Fact(b) stands for the call of a fact     *)
(* with a parameter, which succeeds and leaves the binding b; the          *)
(* application is asked for a field (Dot), a class (IsA) and the elements  *)
(* of an iterable (In).  A rule has no variables of its own, so renaming   *)
(* them changes nothing.                                                   *)
(***************************************************************************)
EXTENDS Integers, Sequences, FiniteSets, SequencesExt

CONSTANT StackLimit     \* stack_limit: of goals, and of choices

ASSUME StackLimitAssumption == StackLimit \in Nat \ {0}

NoId == 0
Never == 0 - 1

(***************************************************************************)
(* Terms and rules                                                         *)
(***************************************************************************)

Operators == {"Fact", "False", "Cut", "Call", "Dot", "Isa", "In", "And", "Or", "Not"}

Term(op, name, val, args) == [op |-> op, name |-> name, val |-> val, args |-> args]

Fact(b) == Term("Fact", b, "", <<>>)
False == Term("False", "", "", <<>>)
Cut == Term("Cut", "", "", <<>>)
Call(p) == Term("Call", p, "", <<>>)
Dot(field, value) == Term("Dot", field, value, <<>>)
IsA(tag) == Term("Isa", tag, "", <<>>)
In(iterable) == Term("In", iterable, "", <<>>)
And(args) == Term("And", "", "", args)
Or(args) == Term("Or", "", "", args)
Not(arg) == Term("Not", "", "", <<arg>>)

\* How a rule's head and the arguments of a call fit: its parameters are
\* ground and have been compared by the index of rules; they unify; they do
\* not; their number differs.
Fits == {"ground", "unify", "differ", "arity"}

\* rank: how specific its specializers are for the arguments of the call.
\* The body is a conjunction, as the parser makes it.
Rule(fit, rank, body) == [fit |-> fit, rank |-> rank, body |-> And(body)]

(***************************************************************************)
(* Machines                                                                *)
(***************************************************************************)

\* PolarVirtualMachine::new.  calls is the domain of call_id_symbols, error
\* is external_error, started is query_start_time, yielded says that run has
\* returned a result, and fault is what ends the query with an error.  The
\* machine of an inverter has the call id of the answer it is run for, and
\* the number of its results; the query's own machine has NoId.
Machine(goals, bindings, id) ==
    [goals |-> goals, choices |-> <<>>, queries |-> <<>>, bindings |-> bindings,
     calls |-> {}, error |-> FALSE, started |-> Never, yielded |-> FALSE,
     fault |-> "", id |-> id, results |-> 0]

QueryG(t) == [goal |-> "Query", term |-> t]
CutG(i) == [goal |-> "Cut", choice_index |-> i]
RunG(t) == [goal |-> "Run", term |-> t]
UnifyG(id, val) == [goal |-> "Unify", id |-> id, val |-> val]
LookupExternalG(id, t) == [goal |-> "LookupExternal", id |-> id, name |-> t.name]
NextExternalG(id, t) == [goal |-> "NextExternal", id |-> id, name |-> t.name]
IsaExternalG(t) == [goal |-> "IsaExternal", name |-> t.name]
FilterRulesG(applicable, unfiltered) ==
    [goal |-> "FilterRules", applicable |-> applicable, unfiltered |-> unfiltered]
SortRulesG(rules, outer, inner) ==
    [goal |-> "SortRules", rules |-> rules, outer |-> outer, inner |-> inner]
IsMoreSpecificG(left, right) ==
    [goal |-> "IsMoreSpecific", left |-> left, right |-> right]
CheckG(rule) == [goal |-> "CheckRule", rule |-> rule]
PopQueryG == [goal |-> "PopQuery"]
BacktrackG == [goal |-> "Backtrack"]
HaltG == [goal |-> "Halt"]
CheckErrorG == [goal |-> "CheckError"]
AddConstraintsBatchG == [goal |-> "AddConstraintsBatch"]

(***************************************************************************)
(* Goals and choices                                                       *)
(***************************************************************************)

Faulty(m, fault) == [m EXCEPT !.fault = fault]

PushGoal(m, goal) ==
    IF Len(m.goals) >= StackLimit THEN Faulty(m, "StackOverflow")
    ELSE [m EXCEPT !.goals = Append(@, goal)]

\* A mutant of AppendGoals: there is no limit.
AppendGoalsUnlimited(m, goals) == [m EXCEPT !.goals = @ \o Reverse(goals)]

\* append_goals: the first of them ends up on top.
AppendGoals(m, goals) ==
    IF Len(m.goals) + Len(goals) > StackLimit THEN Faulty(m, "StackOverflow")
    ELSE [m EXCEPT !.goals = @ \o Reverse(goals)]

PushChoice(m, alternatives) ==
    IF Len(m.choices) >= StackLimit THEN Faulty(m, "StackOverflow")
    ELSE [m EXCEPT !.choices = Append(@,
            [alternatives |-> alternatives, bsp |-> Len(m.bindings),
             goals |-> m.goals, queries |-> m.queries])]

\* A mutant of Backtrack: the query stack is left as it is.
BacktrackKeepQueries(m) ==
    LET open == {i \in DOMAIN m.choices : m.choices[i].alternatives # <<>>}
        top == CHOOSE i \in open : \A j \in open : j <= i
        choice == m.choices[top]
    IN  IF open = {} THEN PushGoal([m EXCEPT !.choices = <<>>], HaltG)
        ELSE [m EXCEPT
                !.goals = choice.goals \o Reverse(Head(choice.alternatives)),
                !.bindings = SubSeq(@, 1, choice.bsp),
                !.choices = SubSeq(@, 1, top - 1)
                    \o IF Len(choice.alternatives) = 1 THEN <<>>
                       ELSE <<[choice EXCEPT !.alternatives = Tail(@)]>>]

\* A mutant of Backtrack: the last alternative of a choice is not used up.
BacktrackAgain(m) ==
    LET choice == Last(m.choices)
    IN  CASE m.choices = <<>> -> PushGoal(m, HaltG)
          [] m.choices # <<>> /\ choice.alternatives = <<>> ->
                PushGoal([m EXCEPT !.choices = <<>>], HaltG)
          [] OTHER ->
                [m EXCEPT
                    !.goals = choice.goals \o Reverse(Head(choice.alternatives)),
                    !.queries = choice.queries,
                    !.bindings = SubSeq(@, 1, choice.bsp)]

\* The next alternative of the last choice that has one, with the stacks of
\* the time it was made.
Backtrack(m) ==
    LET open == {i \in DOMAIN m.choices : m.choices[i].alternatives # <<>>}
        top == CHOOSE i \in open : \A j \in open : j <= i
        choice == m.choices[top]
    IN  IF open = {} THEN PushGoal([m EXCEPT !.choices = <<>>], HaltG)
        ELSE [m EXCEPT
                !.goals = choice.goals \o Reverse(Head(choice.alternatives)),
                !.queries = choice.queries,
                !.bindings = SubSeq(@, 1, choice.bsp),
                !.choices = SubSeq(@, 1, top - 1)
                    \o IF Len(choice.alternatives) = 1 THEN <<>>
                       ELSE <<[choice EXCEPT !.alternatives = Tail(@)]>>]

Choose(m, alternatives) ==
    IF alternatives = <<>> THEN Backtrack(m)
    ELSE AppendGoals(PushChoice(m, Tail(alternatives)), Head(alternatives))

\* Both branches are entered by backtracking, so that the bindings of the
\* conditional are undone; each cuts the other.
ChooseConditional(m, conditional, consequent, alternative) ==
    LET pushed == PushChoice(m, <<consequent>>)
    IN  Choose(pushed,
               << conditional \o <<CutG(Len(pushed.choices)), BacktrackG>>,
                  <<CutG(Len(m.choices))>> \o alternative >>)

(***************************************************************************)
(* Queries                                                                 *)
(***************************************************************************)

\* A mutant of CutIndex: the choice of the rules is not cut.
CutIndexOfBody(m) ==
    LET rule == SubSeq(m.queries, 1, Len(m.queries) - 1)
        kept == {i \in DOMAIN m.choices : ~IsPrefix(rule, m.choices[i].queries)}
    IN  IF kept = {} THEN 0 ELSE CHOOSE i \in kept : \A j \in kept : j <= i

\* Choices are cut from the top as long as their queries start with the
\* current ones, but for the body of the rule and the cut itself.
CutIndex(m) ==
    LET rule == SubSeq(m.queries, 1, Len(m.queries) - 2)
        kept == {i \in DOMAIN m.choices : ~IsPrefix(rule, m.choices[i].queries)}
    IN  IF kept = {} THEN 0 ELSE CHOOSE i \in kept : \A j \in kept : j <= i

\* With no body around it, queries.len() - 2 underflows at the first choice.
QueryCut(m) ==
    IF m.choices # <<>> /\ Len(m.queries) < 2 THEN Faulty(m, "Panic")
    ELSE PushGoal(m, CutG(CutIndex(m)))

NewCallId(m, id) == [m EXCEPT !.calls = @ \cup {id}]

\* new_call_var: an answer variable that is false until there is an answer.
NewCallVar(m, id) ==
    [NewCallId(m, id) EXCEPT !.bindings = Append(@, [var |-> id, val |-> "false"])]

\* Goal::Query, by the kind of the term: query, query_for_predicate,
\* query_for_operation, dot_op_helper and in_op_helper.
Query(m, t, rules, id) ==
    LET q == PushGoal([m EXCEPT !.queries = Append(@, t)], PopQueryG) IN
    CASE t.op = "Fact" ->
            [q EXCEPT !.bindings = Append(@, [var |-> NoId, val |-> t.name])]
      [] t.op = "False" -> PushGoal(q, BacktrackG)
      [] t.op = "Cut" -> QueryCut(q)
      [] t.op = "And" -> AppendGoals(q, [i \in DOMAIN t.args |-> QueryG(t.args[i])])
      [] t.op = "Or" -> Choose(q, [i \in DOMAIN t.args |-> <<QueryG(t.args[i])>>])
      [] t.op = "Not" ->
            ChooseConditional(q, <<RunG(t.args[1])>>,
                              <<AddConstraintsBatchG>>, <<BacktrackG>>)
      [] t.op = "Call" /\ t.name \notin DOMAIN rules ->
            Faulty(q, "QueryForUndefinedRule")
      [] t.op = "Call" /\ t.name \in DOMAIN rules ->
            PushGoal(q, FilterRulesG(<<>>, rules[t.name]))
      [] t.op = "Dot" ->
            AppendGoals(NewCallId(q, id),
                <<LookupExternalG(id, t), CheckErrorG, UnifyG(id, t.val)>>)
      [] t.op = "In" ->
            AppendGoals(NewCallId(q, id), <<NextExternalG(id, t), UnifyG(id, "")>>)
      [] t.op = "Isa" -> PushGoal(q, IsaExternalG(t))

\* The last entry of an answer variable counts; "" stands for a free variable.
Unify(m, g) ==
    LET entries == SelectSeq(m.bindings, LAMBDA e : e.var = g.id)
    IN  CASE entries = <<>> ->
                [m EXCEPT !.bindings = Append(@, [var |-> g.id, val |-> g.val])]
          [] entries # <<>> /\ g.val \in {"", Last(entries).val} -> m
          [] OTHER -> PushGoal(m, BacktrackG)

(***************************************************************************)
(* Rules                                                                   *)
(***************************************************************************)

\* filter_rules: the last of the rules that are left is tried, by unifying
\* its parameters in a conditional (CheckRule).
FilterRules(m, g) ==
    IF g.unfiltered = <<>> THEN PushGoal(m, SortRulesG(Reverse(g.applicable), 1, 1)) ELSE
    LET rule == Last(g.unfiltered)
        inapplicable == FilterRulesG(g.applicable, Front(g.unfiltered))
        applicable == FilterRulesG(Append(g.applicable, rule), Front(g.unfiltered))
    IN  CASE rule.fit = "arity" -> PushGoal(m, inapplicable)
          [] rule.fit = "ground" -> PushGoal(m, applicable)
          [] OTHER ->
                ChooseConditional(m, <<CheckG(rule)>>, <<applicable>>, <<inapplicable>>)

SwapRules(rules, i, j) == [rules EXCEPT ![i] = rules[j], ![j] = rules[i]]

\* sort_rules: an insertion sort by steps, each a conditional; the indices
\* of the code start at zero.  Sorted rules are the alternatives of a choice.
SortRules(m, g) ==
    LET next == SortRulesG(g.rules, g.outer + 1, g.outer + 1) IN
    CASE g.rules = <<>> -> PushGoal(m, BacktrackG)
      [] g.rules # <<>> /\ (g.outer > Len(g.rules) \/ g.inner > g.outer) ->
            Faulty(m, "InvalidState")
      [] g.outer < Len(g.rules) /\ g.inner > 0 ->
            ChooseConditional(m,
                <<IsMoreSpecificG(g.rules[g.inner + 1], g.rules[g.inner])>>,
                <<SortRulesG(SwapRules(g.rules, g.inner, g.inner + 1),
                             g.outer, g.inner - 1)>>,
                <<next>>)
      [] g.outer < Len(g.rules) /\ g.inner = 0 -> PushGoal(m, next)
      [] OTHER ->
            Choose(m, [i \in DOMAIN g.rules |-> <<QueryG(g.rules[i].body)>>])

Test(m, holds) == IF holds THEN m ELSE PushGoal(m, BacktrackG)

(***************************************************************************)
(* The application                                                         *)
(***************************************************************************)

CheckError(m) ==
    IF m.error THEN Faulty([m EXCEPT !.error = FALSE], "Application") ELSE m

\* external_question_result.
QuestionResult(m, id, answer) ==
    IF id \notin m.calls THEN Faulty(m, "Panic")
    ELSE [m EXCEPT !.calls = @ \ {id},
                   !.bindings = Append(@, [var |-> id, val |-> answer])]

\* external_call_result with a value, which is unified with the answer variable.
CallResult(m, id, val) ==
    IF id \notin m.calls THEN Faulty(m, "Panic")
    ELSE PushGoal(m, UnifyG(id, val))

\* A mutant of NoCallResult: the choice of the call is not cut out.
NoCallResultUncut(m, id) ==
    IF id \notin m.calls THEN Faulty(m, "Panic")
    ELSE PushGoal([m EXCEPT !.calls = @ \ {id}], BacktrackG)

\* external_call_result without a value: the choice of the call is cut out,
\* and an error of the application comes first.
NoCallResult(m, id) ==
    LET check == m.goals # <<>> /\ Last(m.goals) = CheckErrorG
        goals == (IF check THEN <<CheckErrorG>> ELSE <<>>)
                    \o <<CutG(Len(m.choices) - 1), BacktrackG>>
    IN  IF id \notin m.calls \/ m.choices = <<>> THEN Faulty(m, "Panic")
        ELSE AppendGoals([m EXCEPT !.calls = @ \ {id}], goals)

(***************************************************************************)
(* One goal, popped off the goal stack (next).  It changes the machine and *)
(* may raise an event.                                                     *)
(***************************************************************************)

NoEvent == [kind |-> "None"]

Silent(m) == [vm |-> m, event |-> NoEvent]
Raise(m, kind, id, name) ==
    [vm |-> [m EXCEPT !.error = FALSE],
     event |-> [kind |-> kind, id |-> id, name |-> name]]

Perform(m, g, rules, id) ==
    CASE g.goal = "Query" -> Silent(Query(m, g.term, rules, id))
      [] g.goal = "PopQuery" -> Silent([m EXCEPT !.queries = Front(@)])
      [] g.goal = "Backtrack" -> Silent(Backtrack(m))
      [] g.goal = "Cut" ->
            Silent([m EXCEPT !.choices = SubSeq(@, 1, g.choice_index)])
      [] g.goal = "Unify" -> Silent(Unify(m, g))
      [] g.goal = "FilterRules" -> Silent(FilterRules(m, g))
      [] g.goal = "SortRules" -> Silent(SortRules(m, g))
      [] g.goal = "IsMoreSpecific" -> Silent(Test(m, g.left.rank > g.right.rank))
      [] g.goal = "CheckRule" -> Silent(Test(m, g.rule.fit = "unify"))
      [] g.goal = "CheckError" -> Silent(CheckError(m))
      [] g.goal = "AddConstraintsBatch" -> Silent(m)
      [] g.goal = "LookupExternal" ->
            Raise(PushChoice(m, <<>>), "ExternalCall", g.id, g.name)
      [] g.goal = "NextExternal" ->
            Raise(PushChoice(m, <<<<g>>>>), "NextExternal", g.id, g.name)
      [] g.goal = "IsaExternal" ->
            Raise(PushGoal(NewCallVar(m, id), UnifyG(id, "true")),
                  "ExternalIsa", id, g.name)
      [] g.goal = "Run" ->
            [vm |-> PushGoal(NewCallVar(m, id), UnifyG(id, "true")),
             event |-> [kind |-> "Run", id |-> id, term |-> g.term]]
      [] g.goal = "Halt" ->
            [vm |-> [m EXCEPT !.goals = <<>>, !.choices = <<>>],
             event |-> [kind |-> "Done"]]
================================================================================
