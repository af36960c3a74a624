------------------------------ MODULE Simplifier ------------------------------
(***************************************************************************)
(* The simplifier (polar-core/src/partial/simplify.rs), which turns the    *)
(* constraints of a result into an expression on its output variables.     *)
(* It rewrites a term in place and binds variables as it goes; here each   *)
(* step takes a simplifier and a term and returns both:                    *)
(*    bound    the bindings made so far (Simplifier.bindings)              *)
(*    outputs  the output variables, which are never replaced by a term    *)
(*    seen     the terms that are being simplified, not entered again      *)
(***************************************************************************)
EXTENDS Partials, Functions

NewSimplifier(outputs) ==
    [bound |-> [v \in {} |-> TRUTH], outputs |-> outputs, seen |-> {}]

Both(s, t) == [s |-> s, t |-> t]

Deref(s, t) == IF t \in DOMAIN s.bound THEN s.bound[t] ELSE t

\* The first binding of a variable stays.
Bind(s, v, t) ==
    IF v \in DOMAIN s.bound THEN s
    ELSE [s EXCEPT !.bound = [x \in DOMAIN @ \cup {v} |->
                                IF x = v THEN Deref(s, t) ELSE @[x]]]

Trivial(op) == op.is \in {"Unify", "Eq"} /\ op.args[1] = op.args[2]

\* What maybe_bind_constraint decides about one conjunct.
Verdict(do, v, t) == [do |-> do, var |-> v, term |-> t]
Keep == Verdict("keep", This, This)

MaybeBind(s, op) ==
    LET l       == op.args[1]
        r       == op.args[2]
        free(t) == IsVar(t) /\ t \notin DOMAIN s.bound
        out(t)  == IsVar(t) /\ t \in s.outputs
    IN  CASE op = TRUTH -> Verdict("drop", This, This)
          [] op # TRUTH /\ op.is \notin {"Unify", "Eq"} -> Keep
          [] OTHER ->
               IF l = r THEN Verdict("drop", This, This)
               ELSE IF out(l) /\ out(r) THEN Keep
               ELSE IF free(l) /\ ~out(l) THEN Verdict("bind", l, r)
               ELSE IF free(r) /\ ~out(r) THEN Verdict("bind", r, l)
               ELSE IF free(l) /\ IsGround(r) THEN Verdict("check", l, r)
               ELSE IF free(r) /\ IsGround(l) THEN Verdict("check", r, l)
               ELSE Keep

(* Go through the conjuncts in order.  "check" binds, and drops the         *)
(* conjunct, only when another one mentions the variable; the first of     *)
(* those is kept whatever its own verdict.                                 *)
Choose1(args, acc, i) ==
    LET m     == MaybeBind(acc.s, args[i])
        users == {j \in DOMAIN args \ {i} : m.var \in VariablesOf(args[j])}
    IN  CASE m.do = "keep" -> acc
          [] m.do = "drop" -> [acc EXCEPT !.dropped = @ \cup {i}]
          [] m.do = "bind" -> [acc EXCEPT !.dropped = @ \cup {i},
                                          !.s = Bind(@, m.var, m.term)]
          [] m.do = "check" ->
               IF users = {} THEN acc
               ELSE [s       |-> Bind(acc.s, m.var, m.term),
                     dropped |-> acc.dropped \cup {i},
                     kept    |-> acc.kept \cup
                                 {CHOOSE j \in users : \A k \in users : j <= k}]

ChooseConjuncts(s, args) ==
    LET chosen == FoldLeft(LAMBDA acc, i : Choose1(args, acc, i),
                           [s |-> s, dropped |-> {}, kept |-> {}],
                           [i \in DOMAIN args |-> i])
        stay == [i \in DOMAIN args |->
                   i \notin chosen.dropped \/ i \in chosen.kept]
    IN  [s |-> chosen.s,
         args |-> FoldLeft(LAMBDA kept, i : IF stay[i] THEN Append(kept, args[i])
                                            ELSE kept,
                           <<>>, [i \in DOMAIN args |-> i])]

\* preprocess_and: duplicates, truths and mirrors of what came before go.
Deduplicate(args) ==
    FoldLeft(LAMBDA kept, a : IF a = TRUTH \/ Contains(kept, Mirror(a))
                                 \/ Contains(kept, a)
                              THEN kept ELSE Append(kept, a),
             <<>>, args)

(***************************************************************************)
(* The code passes the simplifier of sub-terms to the rules of the two     *)
(* passes; Do is that parameter here.  Do(job, s, t) does one of           *)
(*    "variables", "duplicates"     a pass over the term t                 *)
(*    "operation", "deduplication"  the rule of a pass on the operation t  *)
(*    "settle", "partial"           passes until t no longer changes       *)
(***************************************************************************)
\* simplify_term: a variable becomes what it is bound to, unless that
\* mentions the variable; operations go to the rule of the pass.
SimplifyTerm(rule, s, t, Do(_, _, _)) ==
    LET d     == Deref(s, t)
        inner == [s EXCEPT !.seen = @ \cup {t}]
        r     == IF IsOp(d) THEN Do(rule, inner, d) ELSE Both(inner, d)
    IN  IF t \in s.seen THEN Both(s, t)
        ELSE Both([r.s EXCEPT !.seen = @ \ {t}],
                  IF IsVar(t) /\ t \in VariablesOf(r.t) THEN t ELSE r.t)

SimplifyArgs(pass, s, op, Do(_, _, _)) ==
    LET simplify(acc, a) == LET r == Do(pass, acc.s, a)
                            IN  [s |-> r.s, args |-> Append(acc.args, r.t)]
        done == FoldLeft(simplify, [s |-> s, args |-> <<>>], op.args)
    IN  Both(done.s, [op EXCEPT !.args = done.args])

Connective(op) == op.is \in {"And", "Or"}

\* simplify_operation_variables
SimplifyOperation(s, op, Do(_, _, _)) ==
    LET o == IF Connective(op)
             THEN [op EXCEPT !.args = SelectSeq(@, LAMBDA c : ~Trivial(c))] ELSE op
        chosen == IF o.is = "And" THEN ChooseConjuncts(s, o.args)
                  ELSE [s |-> s, args |-> o.args]
    IN  CASE Connective(o) /\ o.args = <<>>    -> Both(s, o)
          [] Connective(o) /\ Len(o.args) = 1 -> Do("operation", s, o.args[1])
          \* bindings made under a negation stay there
          [] o.is = "Not" -> Both(s, InvertOperation(Do("partial", s, o.args[1]).t))
          [] OTHER -> SimplifyArgs("variables", chosen.s,
                                   [o EXCEPT !.args = chosen.args], Do)

\* deduplicate_operation
DeduplicateOp(s, op, Do(_, _, _)) ==
    LET o == IF op.is = "And" THEN [op EXCEPT !.args = Deduplicate(@)] ELSE op
    IN  CASE Connective(o) /\ o.args = <<>>    -> Both(s, o)
          [] Connective(o) /\ Len(o.args) = 1 -> Do("deduplication", s, o.args[1])
          [] OTHER -> SimplifyArgs("duplicates", s, o, Do)

\* The loop of simplify_partial: until neither term nor bindings change.
Settle(s, t, Do(_, _, _)) ==
    LET r == Do("variables", s, t)
    IN  IF r.t = t /\ DOMAIN r.s.bound = DOMAIN s.bound THEN r
        ELSE Do("settle", r.s, r.t)

RECURSIVE Simplify(_, _, _)
Simplify(job, s, t) ==
    CASE job = "variables"     -> SimplifyTerm("operation", s, t, Simplify)
      [] job = "duplicates"    -> SimplifyTerm("deduplication", s, t, Simplify)
      [] job = "operation"     -> SimplifyOperation(s, t, Simplify)
      [] job = "deduplication" -> DeduplicateOp(s, t, Simplify)
      [] job = "settle"        -> Settle(s, t, Simplify)
      [] job = "partial"       -> LET r == Simplify("settle", s, t)
                                  IN  SimplifyTerm("deduplication", r.s, r.t, Simplify)

-----------------------------------------------------------------------------
\* simplify_trivial_constraint: x = 1 becomes 1.
TrivialConstraint(this, t) ==
    IF t.is # "Unify" THEN t
    ELSE IF Trivial(t) /\ IsVar(t.args[1]) THEN TRUTH
    ELSE IF t.args[1] = this /\ IsGround(t.args[2]) THEN t.args[2]
    ELSE IF t.args[2] = this /\ IsGround(t.args[1]) THEN t.args[1]
    ELSE t

\* The value a result has for var: an And, a literal or another variable.
Wrapped(t) == IF IsOp(t) /\ t.is # "And" THEN Op("And", <<t>>) ELSE t
Simplified(var, outputs, t) ==
    Wrapped(TrivialConstraint(var, Simplify("partial", NewSimplifier(outputs), t).t))

\* sub_this: the variable of the partial is called _this from here on.
RECURSIVE SubThis(_, _)
SubThis(this, t) ==
    IF t = this THEN This
    ELSE [t EXCEPT !.args = [i \in DOMAIN t.args |-> SubThis(this, t.args[i])]]

=============================================================================
