------------------------------- MODULE IsaCheck -------------------------------
(***************************************************************************)
(* Whether a partial may be of a class (isa_expr in polar-core/src/vm.rs   *)
(* and the runnable IsaConstraintCheck of partial/isa_constraint_check.rs).*)
(* The types the partial is known to have, and those of the things it is a *)
(* field of, are compared with the class one by one; the host knows the    *)
(* classes and answers.                                                    *)
(***************************************************************************)
EXTENDS RuleSpecificity

CONSTANT FieldType   \* the class of a field of a class

\* A constraint of a partial: "Isa" says that what the path leads to is of a
\* class, "Unify" and "In" that the variable is, or is in, what it leads to.
\* A path is a variable and the fields to look up.
Constraint(op, path, class) == [op |-> op, path |-> path, class |-> class]

\* The n-th of a set of numbers.
Nth(S, n) == CHOOSE i \in S : Cardinality({j \in S : j <= i}) = n

\* The paths the proposed class is checked for: those of the fields the
\* variable is said to be, in their order, and that of the variable itself.
LhssOfMatches(arg) ==
    LET fields == {i \in DOMAIN arg.constraints : arg.constraints[i].op # "Isa"}
        count  == Cardinality(fields)
    IN  [n \in 1..(count + 1) |-> IF n > count THEN <<arg.var>>
                                 ELSE arg.constraints[Nth(fields, n)].path]

\* path: what is left of the last dot, and the field right of it.
PathOf(path) == IF Len(path) = 1 THEN <<path>> ELSE <<Front(path), <<Last(path)>>>>

\* The questions for one constraint, none to two.
Question(q, left, path, right) == [q |-> q, left |-> left, path |-> path, right |-> right]
SubclassQuestion(left, right) == Question("subclass", left, <<>>, right)

Zipped(p, q) == 1..(IF Len(p) < Len(q) THEN Len(p) ELSE Len(q))

SubclassCompare(existing, proposed) ==
    IF existing.class = proposed.class THEN <<>>
    ELSE <<SubclassQuestion(proposed.class, existing.class),
           SubclassQuestion(existing.class, proposed.class)>>

PathCompare(existing, proposed, cpath, ppath) ==
    LET fields == SubSeq(ppath, Len(cpath) + 1, Len(ppath))
    IN  <<Question("path", existing.class, [i \in DOMAIN fields |-> fields[i][1]],
                   proposed.class)>>

CheckConstraint(existing, proposed, names) ==
    LET cpath    == PathOf(existing.path)
        ppath    == PathOf(proposed.path)
        justVars == Len(cpath) = 1 /\ Len(ppath) = 1
        related  == IF justVars THEN existing.path[1] \in names
                    ELSE \A i \in Zipped(cpath, ppath) : cpath[i] = ppath[i]
    IN  CASE existing.op # "Isa" \/ ~related -> <<>>
          [] existing.op = "Isa" /\ related /\ (cpath = ppath \/ justVars) ->
               SubclassCompare(existing, proposed)
          [] existing.op = "Isa" /\ related /\ Len(cpath) < Len(ppath) ->
               PathCompare(existing, proposed, cpath, ppath)
          [] OTHER -> <<>>

\* The host's answers.
HostIsSubclass(left, right) == right \in Range(Mro[left])
HostIsaWithPath(base, path, class) ==
    HostIsSubclass(FoldLeft(LAMBDA c, f : FieldType[c, f], base, path), class)
HostAnswer(q) == IF q.q = "path" THEN HostIsaWithPath(q.left, q.path, q.right)
                 ELSE HostIsSubclass(q.left, q.right)

-----------------------------------------------------------------------------
(***************************************************************************)
(* The runnable: the constraints that are left, the question it has asked, *)
(* the other one of two, and the last answer.                              *)
(***************************************************************************)
NewCheck(constraints, proposed, names) ==
    [existing |-> constraints, proposed |-> proposed, names |-> names,
     asked |-> <<>>, alternative |-> <<>>, result |-> "none", done |-> "no"]

\* A mutant of Retried: the second question is asked whatever the first gave.
RetriedAlways(c) == c.alternative # <<>>

\* The first answer was no, and there is another question.
Retried(c) == c.alternative # <<>> /\ c.result # "yes"

RunCheck(c) ==
    LET asks == {i \in DOMAIN c.existing :
                   CheckConstraint(c.existing[i], c.proposed, c.names) # <<>>}
        last == CHOOSE i \in asks : \A j \in asks : j <= i
        questions == CheckConstraint(c.existing[last], c.proposed, c.names)
    IN  CASE c.result = "no" /\ c.alternative = <<>> -> [c EXCEPT !.done = "false"]
          [] Retried(c) -> [c EXCEPT !.asked = c.alternative, !.alternative = <<>>,
                                     !.result = "none"]
          [] OTHER ->
               IF asks = {} THEN [c EXCEPT !.existing = <<>>, !.alternative = <<>>,
                                           !.done = "true"]
               ELSE [c EXCEPT !.existing = SubSeq(@, 1, last - 1),
                              !.asked = <<questions[1]>>,
                              !.alternative = Tail(questions), !.result = "none"]

\* external_question_result
Told(c, answer) == [c EXCEPT !.asked = <<>>, !.result = IF answer THEN "yes" ELSE "no"]

=============================================================================
