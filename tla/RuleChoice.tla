------------------------------ MODULE RuleChoice ------------------------------
(***************************************************************************)
(* How the machine chooses the rules of a call (filter_rules and           *)
(* sort_rules in polar-core/src/vm.rs).  The index gives the rules that    *)
(* may apply; each of them is tried on the arguments, the last one first;  *)
(* those that apply are sorted, the most specific first, by an insertion   *)
(* sort whose every comparison is a goal of its own; and the rules become  *)
(* the alternatives of a choice.  A rule is its number in the policy.      *)
(***************************************************************************)
EXTENDS IsaCheck

CONSTANT Calls   \* records of the rules of a name and the args of a call

\* The fields of a specializer are finitely many, the class of an instance is
\* one the host knows, and the classes it belongs to are listed.
ASSUME CallsAssumption ==
    \A c \in Calls :
       /\ DOMAIN c.rules \subseteq Nat /\ DOMAIN c.args \subseteq Nat \ {0}
       /\ \A rule \in Range(c.rules) : \A i \in DOMAIN rule :
             IsFiniteSet(rule[i].spec.fields)
       /\ \A i \in DOMAIN c.args :
             c.args[i].is = "instance" => c.args[i].class \in DOMAIN Mro

\* An instance of a class belongs to the class.
ASSUME MroAssumption ==
    \A c \in DOMAIN Mro : DOMAIN Mro[c] \subseteq Nat /\ c \in Range(Mro[c])

VARIABLES
    call,        \* the rules and arguments of the call
    unfiltered,  \* the rules that have not been tried
    applicable,  \* those that apply, the last one of the policy first
    checks,      \* the checks left for the rule that is tried on a partial
    check,       \* the one that is under way
    classes,     \* the classes of a union that are still to be tried
    order,       \* the rules as far as they are sorted
    outer, inner, \* how many are, and where the next one is among them
    stage        \* "filter", "check", "sort", "called" or "failed"

filtering == <<unfiltered, applicable, checks, check, classes>>
sorting   == <<order, outer, inner>>
vars      == <<call, filtering, sorting, stage>>

\* An argument: a number, an instance of a class that has fields, or a
\* partial; a partial without constraints is an unbound variable.
Argument(is, val, class, has, names, var, constraints) ==
    [is |-> is, val |-> val, class |-> class, has |-> has, names |-> names,
     var |-> var, constraints |-> constraints]

Rules == call.rules
Args  == call.args
NoCheck == NewCheck(<<>>, Constraint("Isa", <<>>, ""), {})

-----------------------------------------------------------------------------
\* What is known of the class of a partial itself, by one of its names.
HasType(arg) ==
    \E i \in DOMAIN arg.constraints :
       LET c == arg.constraints[i]
       IN  c.op = "Isa" /\ Len(c.path) = 1 /\ c.path[1] \in arg.names

\* Unifying an argument with the value of a parameter.  A partial is bound to
\* it, and its constraints are queried again: a number is of no class, but it
\* may be a field of another partial, or be in one.
Unifies(arg, p) ==
    \/ p.val = 0
    \/ arg.is = "value" /\ arg.val = p.val
    \/ arg.is = "partial" /\ ~HasType(arg)

\* isa of an instance and a specializer of one class: its class, then its
\* fields.
IsaClass(arg, tag, fields) ==
    arg.is = "instance" /\ HostIsSubclass(arg.class, tag) /\ fields \subseteq arg.has

\* isa, but for a partial and a class: the fields of a dictionary become
\* constraints of a partial.
IsaTerm(arg, spec) ==
    CASE spec.is = "none"  -> TRUE
      [] spec.is = "class" -> IsaClass(arg, spec.tag, spec.fields)
      [] spec.is = "union" -> \E m \in Members[spec.tag] : IsaClass(arg, m, {})
      [] spec.is = "dict"  -> arg.is = "partial" \/ spec.fields \subseteq arg.has

\* The parameters that ask for a check of a partial.
Checked(id) == {i \in DOMAIN Args : /\ Args[i].is = "partial"
                                    /\ Rules[id][i].spec.is \in {"class", "union"}}
SameArity(id) == DOMAIN Rules[id] = DOMAIN Args
Passes(id) ==
    /\ SameArity(id)
    /\ \A i \in DOMAIN Args :
                 /\ Unifies(Args[i], Rules[id][i])
                 /\ i \notin Checked(id) => IsaTerm(Args[i], Rules[id][i].spec)

\* The classes that a parameter takes.
ClassesOf(spec) == IF spec.is = "union" THEN Members[spec.tag] ELSE {spec.tag}

NewChecks(arg, class) ==
    LET lhss == LhssOfMatches(arg)
    IN  [i \in DOMAIN lhss |->
           NewCheck(arg.constraints, Constraint("Isa", lhss[i], class), arg.names)]

-----------------------------------------------------------------------------
Init ==
    /\ call \in Calls
    /\ unfiltered = GetApplicableRules(IndexOf(call.rules), call.args)
    /\ applicable = <<>>
    /\ checks = <<>> /\ check = NoCheck /\ classes = {}
    /\ order = <<>> /\ outer = 1 /\ inner = 1
    /\ stage = "filter"

\* The rule to try next, if there is one: the last of the policy.
NextRule == {id \in unfiltered : \A other \in unfiltered : other <= id}

Skip(id)  == unfiltered' = unfiltered \ {id} /\ UNCHANGED applicable
Apply(id) == unfiltered' = unfiltered \ {id} /\ applicable' = Append(applicable, id)

\* A rule is tried whose applicability the machine can tell by itself.  The
\* index is trusted with ground rules.
FilterRule ==
    /\ stage = "filter"
    /\ \E id \in NextRule :
          \/ IsGroundRule(Rules[id]) /\ SameArity(id) /\ Apply(id)
          \/ ~IsGroundRule(Rules[id]) /\ Passes(id) /\ Checked(id) = {} /\ Apply(id)
          \/ ~IsGroundRule(Rules[id]) /\ ~Passes(id) /\ Skip(id)
    /\ UNCHANGED <<call, checks, check, classes, sorting, stage>>

\* A rule is tried on a partial: one class of a union after the other.  One
\* argument of a call is a partial.
StartCheck ==
    /\ stage = "filter"
    /\ \E id \in NextRule :
          /\ ~IsGroundRule(Rules[id]) /\ Passes(id)
          /\ \E i \in Checked(id) : \E class \in ClassesOf(Rules[id][i].spec) :
                \E new \in {NewChecks(Args[i], class)} :
                   /\ check' = new[1] /\ checks' = Tail(new)
                   /\ classes' = ClassesOf(Rules[id][i].spec) \ {class}
    /\ stage' = "check"
    /\ UNCHANGED <<call, unfiltered, applicable, sorting>>

\* The check runs until it asks the host or is done.
Run ==
    /\ stage = "check" /\ check.asked = <<>> /\ check.done = "no"
    /\ check' = RunCheck(check)
    /\ UNCHANGED <<call, unfiltered, applicable, checks, classes, sorting, stage>>

HostAnswers ==
    /\ stage = "check" /\ check.asked # <<>>
    /\ check' = Told(check, HostAnswer(check.asked[1]))
    /\ UNCHANGED <<call, unfiltered, applicable, checks, classes, sorting, stage>>

NextCheck ==
    /\ stage = "check" /\ check.done = "true" /\ checks # <<>>
    /\ check' = Head(checks) /\ checks' = Tail(checks)
    /\ UNCHANGED <<call, unfiltered, applicable, classes, sorting, stage>>

EndCheck == check' = NoCheck /\ checks' = <<>> /\ classes' = {} /\ stage' = "filter"

CheckPasses ==
    /\ stage = "check" /\ check.done = "true" /\ checks = <<>>
    /\ \E id \in NextRule : Apply(id)
    /\ EndCheck
    /\ UNCHANGED <<call, sorting>>

CheckFails ==
    /\ stage = "check" /\ check.done = "false" /\ classes = {}
    /\ \E id \in NextRule : Skip(id)
    /\ EndCheck
    /\ UNCHANGED <<call, sorting>>

\* Backtracking tries another class of the union.
NextClass ==
    /\ stage = "check" /\ check.done = "false"
    /\ \E id \in NextRule : \E i \in Checked(id) : \E class \in classes :
          \E new \in {NewChecks(Args[i], class)} :
             /\ check' = new[1] /\ checks' = Tail(new)
             /\ classes' = classes \ {class}
    /\ UNCHANGED <<call, unfiltered, applicable, sorting, stage>>

-----------------------------------------------------------------------------
StartSort ==
    /\ stage = "filter" /\ unfiltered = {}
    /\ order' = Reverse(applicable)
    /\ outer' = 1 /\ inner' = 1
    /\ stage' = "sort"
    /\ UNCHANGED <<call, filtering>>

NoRules ==
    /\ stage = "sort" /\ order = <<>>
    /\ stage' = "failed"
    /\ UNCHANGED <<call, filtering, sorting>>

\* A rule is more specific than another one of the call; rules of another
\* arity are not compared.
More(l, r) == IsMoreSpecific(Rules[l], Rules[r], Args)

Swapped(s, i) == [s EXCEPT ![i] = s[i + 1], ![i + 1] = s[i]]

\* A mutant of SwapAllowed: the rule goes in front of its equals, too.
SwapUnlessLess(l, r) == ~More(r, l)
SwapAllowed(l, r) == More(l, r)

\* The next rule against the one before it: it goes in front, or stays.
Swap ==
    /\ stage = "sort" /\ outer < Len(order) /\ inner > 0
    /\ SwapAllowed(order[inner + 1], order[inner])
    /\ order' = Swapped(order, inner)
    /\ inner' = inner - 1
    /\ UNCHANGED <<call, filtering, outer, stage>>

NextOuter ==
    /\ stage = "sort" /\ outer < Len(order)
    /\ inner > 0 => ~SwapAllowed(order[inner + 1], order[inner])
    /\ outer' = outer + 1 /\ inner' = outer + 1
    /\ UNCHANGED <<call, filtering, order, stage>>

\* The rules are sorted: they are the alternatives of a choice.
CallRules ==
    /\ stage = "sort" /\ order # <<>> /\ outer >= Len(order)
    /\ stage' = "called"
    /\ UNCHANGED <<call, filtering, sorting>>

Next == \/ FilterRule \/ StartCheck \/ Run \/ HostAnswers \/ NextCheck
        \/ CheckPasses \/ CheckFails \/ NextClass
        \/ StartSort \/ NoRules \/ Swap \/ NextOuter \/ CallRules

Spec == Init /\ [][Next]_vars

-----------------------------------------------------------------------------
\* Two classes a thing and one of its fields, or twice the same thing, may
\* have: one is a subclass of the other, or the field has the class.
Fits(existing, proposed, names) ==
    LET p == proposed.path
        e == existing.path
        same == e = p \/ (Len(e) = 1 /\ Len(p) = 1 /\ e[1] \in names)
    IN  CASE existing.op = "Isa" /\ same ->
               \/ HostIsSubclass(proposed.class, existing.class)
               \/ HostIsSubclass(existing.class, proposed.class)
          [] existing.op = "Isa" /\ ~same /\ IsStrictPrefix(e, p) ->
               HostIsaWithPath(existing.class, SubSeq(p, Len(e) + 1, Len(p)), proposed.class)
          [] OTHER -> TRUE

FitsAll(arg, path, class) ==
    \A i \in DOMAIN arg.constraints :
       Fits(arg.constraints[i], Constraint("Isa", path, class), arg.names)

\* A check of a partial says no exactly if one of the types that are known,
\* of the same thing or of what it is a field of, is incompatible with the
\* class, whatever the order of the constraints, and however many of the
\* questions to the host were answered with no (isa_constraint_check.rs).
CheckDecides ==
    check.done # "no" =>
       \A i \in DOMAIN Args :
          Args[i].is = "partial" =>
             (check.done = "true"
                <=> FitsAll(Args[i], check.proposed.path, check.proposed.class))

\* What a rule of the policy demands of the arguments of a call.
MaybeOf(arg, class) == \A path \in Range(LhssOfMatches(arg)) : FitsAll(arg, path, class)
Matches(id) ==
    /\ SameArity(id)
    /\ \A i \in DOMAIN Args :
          /\ Unifies(Args[i], Rules[id][i])
          /\ IF i \in Checked(id)
             THEN \E class \in ClassesOf(Rules[id][i].spec) : MaybeOf(Args[i], class)
             ELSE IsaTerm(Args[i], Rules[id][i].spec)

\* The rules that are called are those whose parameters match: the index and
\* the trials lose none.  Those that do not match are ground ones, which the
\* index lets through for an argument that is not ground.
CallsMatching ==
    stage \in {"called", "failed"} =>
       /\ \A id \in DOMAIN Rules : Matches(id) => id \in Range(order)
       /\ \A id \in Range(order) : Matches(id) \/ IsGroundRule(Rules[id])

\* A rule goes in front of an earlier one of the policy only if it is the
\* more specific one of the two.
OvertakesJustly ==
    \A i, j \in DOMAIN order : i < j /\ order[j] < order[i] => More(order[i], order[j])

\* No rule is more specific than the one it is tried right after.
NeighboursInOrder ==
    stage = "called" =>
       \A i \in 1..(Len(order) - 1) : ~More(order[i + 1], order[i])

\* Rules that are called are in the order of the policy but where
\* specificity justifies another one, and neighbours are never the wrong way
\* round, even where a comparison of rules is no order.
SortedBySpecificity == OvertakesJustly /\ NeighboursInOrder

\* What the documentation says of the order: a rule is tried before all that
\* are less specific.
MostSpecificFirst ==
    stage = "called" =>
       \A i, j \in DOMAIN order : i < j => ~More(order[j], order[i])

=============================================================================
