----------------------------- MODULE KnowledgeBase -----------------------------
(***************************************************************************)
(* The knowledge base (polar-core/src/kb.rs) as its application sees it:   *)
(* classes are registered, sources are loaded and validated                *)
(* (polar-core/src/polar.rs), and the rules are cleared.  What the core    *)
(* knows of the ancestors of classes is what the library has told it at    *)
(* the last load.                                                          *)
(*                                                                         *)
(* Here a call is one step.  What the threads of an application can do to  *)
(* each other between the locks of a load is the subject of PolicyLoad;    *)
(* here is what PolicyLoad abstracts: what is in a source, what is made of *)
(* it (PolicySources), and what the validation says.                       *)
(***************************************************************************)
EXTENDS PolicySources

CONSTANTS
    Class,      \* name of a class -> [id, mro]: its id, and those of its ancestors
    Builtins,   \* the classes that the library registers when it starts
    Loads,      \* the sequences of sources that may be loaded
    World,      \* the values that queries may be about
    MaxChain    \* bound: the steps in which facts are derived from facts

Sources == UNION {{load[i] : i \in DOMAIN load} : load \in Loads}

ASSUME KbAssumption ==
    /\ Builtins \subseteq DOMAIN Class
    /\ \A c \in DOMAIN Class : /\ Class[c].id \in Class[c].mro
                               /\ Class[c].id # NotAClass
                               /\ ~IsUnion(c)
    \* The ancestors of an ancestor are ancestors.
    /\ \A c, d \in DOMAIN Class :
            Class[d].id \in Class[c].mro => Class[d].mro \subseteq Class[c].mro
    \* A library registers the classes of all primitive values.
    /\ \A v \in World : v.is # "Object" => v.is \in Builtins
    /\ Loads \subseteq Seq(Sources)
    /\ \A source \in Sources : source.src \in Contents
    /\ MaxChain \in Nat

VARIABLES
    kb,         \* the knowledge base
    loaded      \* history: the sources of the loads that made it, <<>> if none

vars == <<kb, loaded>>

(***************************************************************************)
(* What an application does                                                *)
(***************************************************************************)

\* register_mros: of each class, the ancestors that are registered too.
RegisterMros(base) ==
    LET ids == {base.constants[d] : d \in DOMAIN base.constants}
    IN  [base EXCEPT !.mro = [c \in DOMAIN base.constants |-> Class[c].mro \cap ids]]

Init ==
    /\ kb = [EmptyKb EXCEPT !.constants = [c \in Builtins |-> Class[c].id]]
    /\ loaded = <<>>

\* register_constant, as a library calls it for a class.
RegisterClass(name) ==
    /\ name \notin DOMAIN kb.constants
    /\ kb' = [kb EXCEPT !.constants =
                [c \in DOMAIN kb.constants \cup {name} |-> Class[c].id]]
    /\ UNCHANGED loaded

\* A library registers the ancestors and calls Polar::load, which loads only
\* where there are no rules, and all or nothing.
Load(sources) ==
    /\ kb.rules = {}
    /\ \E result \in DiagnosticLoad(RegisterMros(kb), sources) :
            IF Errors(result.diagnostics) = {}
            THEN kb' = result.kb /\ loaded' = loaded \o sources
            ELSE kb' = Cleared(RegisterMros(kb)) /\ loaded' = <<>>

\* A load where there are rules: MultipleLoadError, whatever the sources.
RefusedLoad ==
    /\ kb.rules # {}
    /\ kb' = RegisterMros(kb)
    /\ UNCHANGED loaded

\* Polar::clear_rules.
ClearRules ==
    /\ kb' = Cleared(kb)
    /\ loaded' = <<>>

Next ==
    \/ \E name \in DOMAIN Class : RegisterClass(name)
    \/ \E sources \in Loads : Load(sources)
    \/ RefusedLoad
    \/ ClearRules

Spec == Init /\ [][Next]_vars

(***************************************************************************)
(* What parameters accept and what rules derive, by the meaning of classes *)
(* and rules: no index, no comparison of specializers                      *)
(***************************************************************************)

ClassOf(v) == IF v.is = "Object" THEN v.name ELSE v.is

\* The host's own answer, whatever it has told the core.
HasClass(v, name) ==
    /\ {name, ClassOf(v)} \subseteq DOMAIN kb.constants
    /\ kb.constants[name] \in Class[ClassOf(v)].mro

HasTag(v, tag) ==
    IF IsUnion(tag) THEN \E member \in GetUnionMembers(tag, kb) : HasClass(v, member)
    ELSE HasClass(v, tag)

\* A variable takes any value that its specializer allows; a value, itself.
Allows(specializer, v) ==
    CASE specializer = NoTerm -> TRUE
      [] specializer.is = "Instance" ->
            HasTag(v, specializer.name) /\ specializer.fields \subseteq v.fields
      [] specializer.is = "DictPattern" -> specializer.fields \subseteq v.fields
      [] OTHER -> v = specializer

Accepts(param, v) ==
    IF param.parameter.is = "Variable" THEN Allows(param.specializer, v)
    ELSE v = param.parameter

AcceptsCall(params, args) ==
    Len(params) = Len(args) /\ \A i \in DOMAIN args : Accepts(params[i], args[i])

\* What a parameter names: a specializer, none, or a value.
Asked(param) ==
    IF param.parameter.is = "Variable" THEN param.specializer ELSE param.parameter

\* The values of the world that this may stand for.
Candidates(term) ==
    CASE term.is = "Instance" ->
            {v \in World : ClassOf(v) = term.name /\ term.fields \subseteq v.fields}
      [] term.is = "DictPattern" ->
            {v \in World : v.is = "Dictionary" /\ term.fields \subseteq v.fields}
      [] OTHER -> World \cap {term}

\* Some of them are there, unless it asks for a class that there is not.
Possible(param) ==
    LET asked == Asked(param)
    IN  \/ asked = NoTerm
        \/ asked.is = "Instance" /\ asked.name \notin DOMAIN Class
        \/ Candidates(asked) # {}

\* The world has what the rules about relations ask for.
ASSUME WorldAssumption ==
    \A c \in Contents : \A i \in DOMAIN Text[c].lines :
        LET line == Text[c].lines[i]
        IN  line.is = "rule" /\ line.it.name = "has_relation" =>
                \A j \in DOMAIN line.it.params : Possible(line.it.params[j])

\* A rule type asks for what its parameter accepts, or a list or a dictionary
\* that has more than its own ("equal to or more specific than the list in the
\* rule type head", check_value_param).  If it asks for a Dictionary, a pattern
\* of a dictionary will do, which other values with these fields fit as well
\* (check_pattern_param).
HasMore(v, value) ==
    \/ {v.is, value.is} = {"List"} /\ Items(value) \subseteq Items(v)
    \/ {v.is, value.is} = {"Dictionary"} /\ value.fields \subseteq v.fields

AsksForDictionary(param) ==
    param.specializer.is = "Instance" /\ param.specializer.name = "Dictionary"

Asks(param, v) ==
    \/ Accepts(param, v)
    \/ HasMore(v, Asked(param))
    \/ AsksForDictionary(param) /\ param.specializer.fields \subseteq v.fields

AsksCall(params, args) ==
    Len(params) = Len(args) /\ \A i \in DOMAIN args : Asks(params[i], args[i])

Calls(n) == [1 .. n -> World]

Objects == {v \in World : v.is = "Object"}

\* A fact <<rule, actor, name, resource>>, and what follows from facts by the
\* rules with a body.
Derive(facts) ==
    LET value(variable, a, x, y) ==
            CASE variable = "actor" -> a [] variable = "this" -> x [] variable = "related" -> y
        holds(call, a, x, y) ==
            <<call.name, value(call.args[1], a, x, y), call.args[2],
              value(call.args[3], a, x, y)>> \in facts
        step(rule) ==
            {<<rule.name, q[1], rule.params[2].parameter.name, q[2]>> : q \in
                {p \in Objects \X Objects :
                    /\ Accepts(rule.params[1], p[1]) /\ Accepts(rule.params[3], p[2])
                    /\ \E y \in Objects : \A i \in DOMAIN rule.body :
                            holds(rule.body[i], p[1], p[2], y)}}
    IN  facts \cup UNION {step(rule) : rule \in {r \in kb.rules : r.body # <<>>}}

\* What the blocks say, of tuples <<actor, name, resource>> whatever the name
\* is declared as: an actor has the head on a resource of the block if it has
\* the implier on it, or on a resource that is related to it.
Imply(tuples) ==
    LET has(s, a, x) ==
            IF s.relation = NoRelation THEN <<a, s.implier, x>> \in tuples
            ELSE \E y \in Objects : /\ <<y, s.relation, x>> \in tuples
                                    /\ <<a, s.implier, y>> \in tuples
    IN  tuples \cup
        UNION {{<<r[1], p[2].head, r[2]>> : r \in
                    {q \in Objects \X Objects : /\ HasTag(q[1], "Actor")
                                                /\ HasTag(q[2], p[1])
                                                /\ has(p[2], q[1], q[2])}} :
               p \in AllShorthand(kb)}

AllDerived(facts) ==
    LET after[n \in 0 .. MaxChain] == IF n = 0 THEN facts ELSE Derive(after[n - 1])
    IN  after[MaxChain]

AllImplied(tuples) ==
    LET after[n \in 0 .. MaxChain] == IF n = 0 THEN tuples ELSE Imply(after[n - 1])
    IN  after[MaxChain]

\* The facts that the data of the application may make true: those that a
\* rule without a body accepts, for names that the resource's block declares.
Facts ==
    {f \in {"has_role", "has_relation"} \X Objects
                \X (UNION {DOMAIN kb.decls[d] : d \in DOMAIN kb.decls}) \X Objects :
        /\ IsDeclared(f[3], ClassOf(f[4]), kb)
        /\ RuleName(f[3], ClassOf(f[4]), kb) = f[1]
        /\ \E rule \in Named(f[1], kb.rules) :
                rule.body = <<>> /\ AcceptsCall(rule.params, <<f[2], Str(f[3]), f[4]>>)}

(***************************************************************************)
(* Properties                                                              *)
(***************************************************************************)

\* Whatever blocks have been opened, reopened and refused, what is known of
\* a resource is known everywhere: in the unions, the declarations and the
\* shorthand rules (ResourceBlocks::add).
BlocksAgree ==
    /\ DOMAIN kb.decls = kb.resources /\ DOMAIN kb.shorthand = kb.resources
    /\ kb.actors \subseteq kb.resources
    /\ DOMAIN kb.mro \subseteq DOMAIN kb.constants

\* What the rule types are for: each call that a rule of a policy without
\* errors accepts is one that a rule type of its name asks for, by the classes
\* of the arguments, whatever classes are registered later.
RulesCovered ==
    \A rule \in kb.rules :
        LET types == Named(rule.name, kb.types)
        IN  types # {} =>
                \A args \in Calls(Len(rule.params)) :
                    AcceptsCall(rule.params, args) =>
                        \E type \in types : AsksCall(type.params, args)

\* The relations that a rewritten rule goes along are implemented, for the
\* classes at both ends, when the policy has no errors: the call does not
\* just find a rule of that name ("validate types first to surface missing
\* required rule implementations", validate_rules).
RelationsImplemented ==
    loaded # <<>> => \A pair \in AllShorthand(kb) :
        LET resource == pair[1]
            s == pair[2]
            implemented(name, object) ==
                \E rule \in Named("has_relation", kb.rules), args \in Calls(3) :
                    /\ AcceptsCall(rule.params, args)
                    /\ HasTag(args[1], RelationType(name, object, kb))
                    /\ args[2] = Str(name)
                    /\ HasTag(args[3], object)
            where == IF s.relation = NoRelation THEN resource
                     ELSE RelationType(s.relation, resource, kb)
        IN  /\ s.relation # NoRelation => implemented(s.relation, resource)
            /\ IsRelation(s.implier, where, kb) => implemented(s.implier, where)

\* The rewritten rules derive what the blocks say, from whatever roles and
\* relations the application's data has.
BlocksMean ==
    loaded # <<>> => \A facts \in SUBSET Facts :
        {Tail(f) : f \in AllDerived(facts)} = AllImplied({Tail(f) : f \in facts})

\* A policy is the same in whatever order its sources are loaded, in one load
\* or in several: without errors in one order it is without errors in another,
\* it has the same rules and unions, and asks for and requires the same rules
\* by its types.  (A relation that is declared in one load and used in a second
\* one has two types, one of which is required: the types are compared by what
\* they ask for.)  Here the other order is the reverse one, in one load.
Heads(types) == {[name |-> t.name, params |-> t.params] : t \in types}

WithoutSources(base) ==
    [rules |-> {[r EXCEPT !.at = NoSource] : r \in base.rules},
     types |-> Heads(base.types), required |-> Heads({t \in base.types : t.required}),
     actors |-> base.actors, resources |-> base.resources]

OrderIrrelevant ==
    loaded # <<>> =>
        \E result \in DiagnosticLoad(Cleared(RegisterMros(kb)), Reverse(loaded)) :
            /\ Errors(result.diagnostics) = {}
            /\ WithoutSources(result.kb) = WithoutSources(kb)
================================================================================
