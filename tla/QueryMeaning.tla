------------------------------ MODULE QueryMeaning ------------------------------
(***************************************************************************)
(* What a query of a policy means, by a definition that knows of no goals, *)
(* choices or stacks, and that the module Query gives the answers of it.   *)
(***************************************************************************)
EXTENDS Query

CONSTANT Endless    \* names of rules without a base case, whose calls never end

VARIABLE outcome    \* history: what the query promises

(***************************************************************************)
(* The answers of a query.  An answer is the sequence of the bindings that *)
(* it leaves; an outcome has the answers in their order, and whether they  *)
(* end in a cut that commits to the rule, or in an error.                  *)
(*                                                                         *)
(* env has the rules of the policy, the names of those without a base case *)
(* (endless: the first way into them never ends), and the world of the     *)
(* application: the value (or "error") of a field, the truth of a class    *)
(* test, and the elements of an iterable.  A call of a rule that is not    *)
(* there, or that never ends, is an error.                                 *)
(***************************************************************************)

Answers(seq) == [answers |-> seq, cut |-> FALSE, error |-> FALSE]
Nothing == Answers(<<>>)
Once(bindings) == Answers(<<bindings>>)
Commit == [Once(<<>>) EXCEPT !.cut = TRUE]
Error == [Nothing EXCEPT !.error = TRUE]

Extend(answer, answers) == [i \in DOMAIN answers |-> answer \o answers[i]]

\* The answers of the second for each of the first, up to a cut or an error.
Then(first, second) ==
    CASE first.answers = <<>> -> first
      [] second.cut \/ second.error ->
            [answers |-> Extend(first.answers[1], second.answers),
             cut |-> first.cut \/ second.cut,
             error |-> second.error]
      [] OTHER ->
            [first EXCEPT !.answers =
                FlattenSeq([i \in DOMAIN @ |-> Extend(@[i], second.answers)])]

\* The answers of the first, and those of the second unless it is cut off.
Else(first, second) ==
    IF first.cut \/ first.error THEN first
    ELSE [second EXCEPT !.answers = first.answers \o @]

Negation(negated) ==
    CASE negated.error -> Error
      [] negated.answers = <<>> -> Once(<<>>)
      [] OTHER -> Nothing

Field(value, expected) ==
    CASE value = "error" -> Error
      [] value = expected -> Once(<<value>>)
      [] OTHER -> Nothing

Applies(rule) == rule.fit \in {"ground", "unify"}

\* Most specific first, and in the order of the source among equals.
Ordered(candidates) ==
    LET applicable == SelectSeq(candidates, Applies)
        ranks == SetToSortSeq({applicable[i].rank : i \in DOMAIN applicable}, >)
        ofRank(n) == SelectSeq(applicable, LAMBDA r : r.rank = n)
    IN  FlattenSeq([i \in DOMAIN ranks |-> ofRank(ranks[i])])

RECURSIVE Solve(_, _), Conjoin(_, _), Disjoin(_, _)

Conjoin(terms, env) ==
    IF terms = <<>> THEN Once(<<>>)
    ELSE Then(Solve(Head(terms), env), Conjoin(Tail(terms), env))

Disjoin(terms, env) ==
    IF terms = <<>> THEN Nothing
    ELSE Else(Solve(Head(terms), env), Disjoin(Tail(terms), env))

\* A cut commits to the rule whose body it is in: it goes no further.
Bodies(tried) == [i \in DOMAIN tried |-> tried[i].body]

Solve(t, env) ==
    CASE t.op = "Fact" -> Once(<<t.name>>)
      [] t.op = "False" -> Nothing
      [] t.op = "Cut" -> Commit
      [] t.op = "And" -> Conjoin(t.args, env)
      [] t.op = "Or" -> Disjoin(t.args, env)
      [] t.op = "Not" -> Negation(Solve(t.args[1], env))
      [] t.op = "Call" /\ t.name \notin DOMAIN env.rules \ env.endless -> Error
      [] t.op = "Call" /\ t.name \in DOMAIN env.rules \ env.endless ->
            [Disjoin(Bodies(Ordered(env.rules[t.name])), env) EXCEPT !.cut = FALSE]
      [] t.op = "Dot" -> Field(env.world.fields[t.name], t.val)
      [] t.op = "Isa" -> IF env.world.tags[t.name] THEN Once(<<>>) ELSE Nothing
      [] t.op = "In" ->
            LET elements == env.world.iterables[t.name]
            IN  Answers([i \in DOMAIN elements |-> <<elements[i]>>])

(***************************************************************************)
(* The query, and beside it what it promises, which nothing changes        *)
(***************************************************************************)

PromiseInit ==
    /\ Init
    /\ outcome = Solve(query, [rules |-> rules, world |-> world,
                               endless |-> Endless])

PromiseNext ==
    \/ RunGoal /\ UNCHANGED outcome
    \/ Result /\ UNCHANGED outcome
    \/ Resume /\ UNCHANGED outcome
    \/ AnswerCall /\ UNCHANGED outcome
    \/ AnswerNext /\ UNCHANGED outcome
    \/ AnswerIsa /\ UNCHANGED outcome
    \/ NextEvent /\ UNCHANGED outcome

PromiseSpec ==
    PromiseInit /\ [][PromiseNext]_<<vars, outcome>> /\ WF_<<vars, outcome>>(PromiseNext)

(***************************************************************************)
(* Properties                                                              *)
(***************************************************************************)

\* The query gives the answers its term has, in the order of the rules, no
\* more and, unless it times out, no fewer, and fails when evaluating the term
\* fails: backtracking, cut, `not` and the sorting of rules add up to the
\* meaning of the policy.
Promise == INSTANCE QueryAnswers WITH
    status <- IF status \in {"running", "done", "QueryTimeout"} THEN status
              ELSE "error"

ImplementsAnswers == Promise!AnswersSpec

\* "Committing to the enclosing rule definition: the query engine will not run
\* any others" (polar-syntax, Cut): every answer is one of those promised.
CutCommits == IsPrefix(emitted, outcome.answers)

\* Cut removes "all choices created before this cut that are in the current
\* rule body" (vm.rs) and no others: a query that is done has all its answers.
NothingLost == status = "done" => emitted = outcome.answers

\* "We'd get an error at query time [...] Application error" (guides/policies):
\* a query that meets an error of the application does not end as if it had
\* met none.
ErrorsSurface == outcome.error => status # "done"
================================================================================
