---------------------------- MODULE RuleSpecificity ----------------------------
(***************************************************************************)
(* Which of two rules is the more specific one for the arguments of a call *)
(* (is_more_specific and is_subspecializer in polar-core/src/vm.rs).  The  *)
(* first parameter whose specializers differ decides, whether it can tell  *)
(* the two apart or not.                                                   *)
(***************************************************************************)
EXTENDS Naturals, FiniteSets, SequencesExt

CONSTANTS
    Mro,     \* the classes an instance of a class belongs to, nearest first
    Members  \* the classes of a union

(***************************************************************************)
(* The index of a generic rule (polar-core/src/rules.rs): a tree with a    *)
(* branch for every ground value of a parameter and one for parameters     *)
(* that are not ground.  A rule is kept at the node its parameters lead    *)
(* to; a node is the sequence of branches from the root.                   *)
(***************************************************************************)

\* A specializer: "none", a "class" with fields, a "dict" of fields or the
\* "union" Actor or Resource.  A field is a pair of a name and a value.
Specializer(is, tag, fields) == [is |-> is, tag |-> tag, fields |-> fields]
NoSpec == Specializer("none", "", {})

\* A parameter: the value 0 stands for a variable.
Parameter(val, spec) == [val |-> val, spec |-> spec]
IsGroundParameter(p) == p.spec.is = "none" /\ p.val # 0
IsGroundRule(rule)   == \A p \in Range(rule) : IsGroundParameter(p)

\* The branch of a parameter.
Branch(p) == IF IsGroundParameter(p) THEN p.val ELSE 0

\* A rule is its sequence of parameters and has an id, its place in the
\* policy.  GenericRule::new puts every rule at its node.
NodeOf(rule) == [i \in DOMAIN rule |-> Branch(rule[i])]
IndexOf(rules) ==
    [node \in {NodeOf(rules[id]) : id \in DOMAIN rules} |->
       {id \in DOMAIN rules : NodeOf(rules[id]) = node}]

\* The branches to follow for an argument: for one that is ground its own
\* and that of the rules that are not, for any other all.
IsGroundArg(arg) == arg.is = "value"
\* (FollowedExactly is a mutant that leaves the latter out.)
FollowedExactly(arg, branch) == IsGroundArg(arg) => branch = arg.val
Followed(arg, branch) == IsGroundArg(arg) => branch \in {0, arg.val}

GetApplicableRules(index, args) ==
    UNION {index[node] : node \in
             {n \in DOMAIN index : /\ DOMAIN n = DOMAIN args
                                   /\ \A i \in DOMAIN args : Followed(args[i], n[i])}}

(***************************************************************************)
(* The comparison of two rules                                             *)
(***************************************************************************)

IndexIn(seq, x) == CHOOSE i \in DOMAIN seq : seq[i] = x

\* The host's answer, from the order of the classes of the instance.
HostIsSubspecializer(class, left, right) ==
    /\ {left, right} \subseteq Range(Mro[class])
    /\ IndexIn(Mro[class], left) < IndexIn(Mro[class], right)

MoreFields(l, r) == Cardinality(r.fields) < Cardinality(l.fields)

IsSubspecializer(l, r, arg) ==
    CASE arg.is = "instance" /\ l.is = "class" /\ r.is = "class" ->
           IF l.tag = r.tag THEN MoreFields(l, r)
           ELSE HostIsSubspecializer(arg.class, l.tag, r.tag)
      [] l.is = "dict" /\ r.is = "dict"  -> MoreFields(l, r)
      [] l.is = "class" /\ r.is = "dict" -> TRUE
      [] OTHER -> FALSE

Alike(l, r) == l = r \/ (l.is = "union" /\ r.is = "union")

\* Two specializers that are not alike.
Beats(l, r, arg) ==
    /\ l.is # "none"
    /\ \/ r.is = "none"
       \/ l.is # "union" /\ (r.is = "union" \/ IsSubspecializer(l, r, arg))

\* A mutant of IsMoreSpecific: one parameter that is more specific is enough.
IsMoreSpecificAnywhere(left, right, args) ==
    \E i \in DOMAIN args : /\ ~Alike(left[i].spec, right[i].spec)
                           /\ Beats(left[i].spec, right[i].spec, args[i])

IsMoreSpecific(left, right, args) ==
    \E i \in DOMAIN args :
       /\ \A j \in 1..(i - 1) : Alike(left[j].spec, right[j].spec)
       /\ ~Alike(left[i].spec, right[i].spec)
       /\ Beats(left[i].spec, right[i].spec, args[i])

=============================================================================
