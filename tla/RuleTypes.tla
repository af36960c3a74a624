------------------------------- MODULE RuleTypes -------------------------------
(***************************************************************************)
(* Rule types: whether the parameters of a rule fit a rule type, and what  *)
(* the validation of a policy against its rule types finds                 *)
(* (polar-core/src/kb.rs, polar-core/src/rules.rs).                        *)
(*                                                                         *)
(* A knowledge base is a record.  Of it this module reads                  *)
(*   constants  name -> id of the class, or NotAClass for another value    *)
(*   mro        name of a class -> the ids of the class and its ancestors  *)
(*   actors, resources   the members of the unions                         *)
(*   rules, types        what is validated                                 *)
(*                                                                         *)
(* Abstractions.  A term is a record of what it is, its name (the tag of a *)
(* pattern, the text of an atom), the items of a list, and the fields of a *)
(* dictionary or a pattern as a set of pairs.  Items and the values of     *)
(* fields are atoms, by their text.  Messages are left out, and the errors *)
(* that a step may end in are the names of their kinds.                    *)
(***************************************************************************)
EXTENDS Integers, Sequences, FiniteSets

NotAClass == 0

Term(is, name, items, fields) ==
    [is |-> is, name |-> name, items |-> items, fields |-> fields]

NoTerm == Term("none", "", <<>>, {})
Variable(name) == Term("Variable", name, <<>>, {})
Instance(tag, fields) == Term("Instance", tag, <<>>, fields)
DictPattern(fields) == Term("DictPattern", "", <<>>, fields)
Str(text) == Term("String", text, <<>>, {})
List(items) == Term("List", "", items, {})
Dictionary(fields) == Term("Dictionary", "", <<>>, fields)

Patterns == {"Instance", "DictPattern"}
Primitives == {"String", "Integer", "Float", "Boolean", "List", "Dictionary"}

\* The rest variable of a list is its last item.
RestVariable == "*rest"
HasRestVar(term) == \E i \in DOMAIN term.items : term.items[i] = RestVariable
Items(term) == {term.items[i] : i \in DOMAIN term.items}

Param(parameter, specializer) ==
    [parameter |-> parameter, specializer |-> specializer]

Bound(name, specializer) == Param(Variable(name), specializer)
Given(value) == Param(value, NoTerm)

(***************************************************************************)
(* Unions and classes                                                      *)
(***************************************************************************)

IsUnion(tag) == tag \in {"Actor", "Resource"}

GetUnionMembers(tag, kb) == IF tag = "Actor" THEN kb.actors ELSE kb.resources

\* What the comparison of a parameter comes to: a match, or not, or an error
\* that ends the validation.
Bool(b) == IF b THEN "match" ELSE "differ"
IsError(result) == result \notin {"match", "differ"}

\* A mutant of ParamFieldsMatch: the fields of the type are a superset.
ParamFieldsContained(typeFields, ruleFields) == ruleFields \subseteq typeFields

\* The fields of a rule are a superset of those of the type.
ParamFieldsMatch(typeFields, ruleFields) == typeFields \subseteq ruleFields

\* check_rule_instance_is_subclass_of_rule_type_instance: by the resolution
\* order that the application has registered for the class of the rule.
CheckSubclass(ruleTag, ruleFields, typeTag, typeFields, kb) ==
    IF typeTag \notin DOMAIN kb.constants THEN "UnregisteredClass"
    ELSE Bool(/\ kb.constants[typeTag] # NotAClass
              /\ ruleTag \in DOMAIN kb.mro
              /\ kb.constants[typeTag] \in kb.mro[ruleTag]
              /\ ParamFieldsMatch(typeFields, ruleFields))

\* A member of the union, or a subclass of one; an error about any member is
\* the result.  No union is a member of another.
CheckUnion(rule, type, kb) ==
    LET members == GetUnionMembers(type.name, kb)
        subclassOf(member) ==
            CheckSubclass(rule.name, rule.fields, member, type.fields, kb)
    IN  IF IsUnion(rule.name) THEN "differ"
        ELSE IF rule.name \in members
        THEN Bool(ParamFieldsMatch(type.fields, rule.fields))
        ELSE IF \E m \in members : IsError(subclassOf(m)) THEN "UnregisteredClass"
        ELSE Bool(\E m \in members : subclassOf(m) = "match")

\* check_pattern_param.
CheckPatternParam(rule, type, kb) ==
    CASE type.is = "Instance" /\ rule.is = "Instance" ->
            IF type.name = rule.name
            THEN Bool(ParamFieldsMatch(type.fields, rule.fields))
            ELSE IF IsUnion(type.name) THEN CheckUnion(rule, type, kb)
            ELSE CheckSubclass(rule.name, rule.fields, type.name, type.fields, kb)
      [] type.is = "DictPattern" ->
            Bool(ParamFieldsMatch(type.fields, rule.fields))
      [] OTHER ->    \* a dictionary, where an instance is asked for
            Bool(type.name = "Dictionary" /\ ParamFieldsMatch(type.fields, rule.fields))

(***************************************************************************)
(* Values and parameters                                                   *)
(***************************************************************************)

\* check_value_param: lists and dictionaries may have more than the type has.
CheckValueParam(rule, type) ==
    CASE type.is = "List" /\ rule.is = "List" ->
            IF HasRestVar(type) THEN "InvalidRuleType"
            ELSE Bool(Items(type) \subseteq Items(rule))
      [] type.is = "Dictionary" /\ rule.is = "Dictionary" ->
            Bool(ParamFieldsMatch(type.fields, rule.fields))
      [] OTHER -> Bool(rule = type)

\* A value where the type has a pattern stands for the class of the value.
CheckValueAgainstPattern(value, pattern, kb) ==
    CASE pattern.is = "DictPattern" ->
            Bool(value.is = "Dictionary" /\ ParamFieldsMatch(pattern.fields, value.fields))
      [] pattern.is = "Instance" /\ value.is \in Primitives ->
            CheckPatternParam(Instance(value.is, value.fields), pattern, kb)
      [] OTHER -> "InvalidRule"

\* A mutant of CheckParam: a parameter without a specializer is any value.
CheckSpecializedParam(rule, type, kb) ==
    IF rule.specializer = NoTerm \/ type.specializer = NoTerm THEN "match"
    ELSE CheckPatternParam(rule.specializer, type.specializer, kb)

\* check_param.  A parameter is a variable, perhaps with a specializer (a
\* pattern or a value), or a value.
CheckParam(rule, type, kb) ==
    LET isVar(param) == param.parameter.is = "Variable"
        spec(param) == param.specializer
        value(param) == IF isVar(param) /\ spec(param) # NoTerm
                        THEN spec(param) ELSE param.parameter
    IN  CASE isVar(type) /\ spec(type) = NoTerm -> "match"
          [] isVar(type) /\ spec(type) # NoTerm /\ isVar(rule) /\ spec(rule) = NoTerm ->
                "differ"
          [] ~isVar(type) /\ isVar(rule) /\ spec(rule) # NoTerm -> "differ"
          [] isVar(type) /\ spec(type).is \in Patterns /\ value(rule).is \in Patterns ->
                CheckPatternParam(spec(rule), spec(type), kb)
          [] /\ isVar(type) /\ spec(type).is \in Patterns
             /\ isVar(rule) => spec(rule) # NoTerm
             /\ value(rule).is \notin Patterns ->
                CheckValueAgainstPattern(value(rule), spec(type), kb)
          [] OTHER -> CheckValueParam(value(rule), value(type))

\* rule_params_match: the first error, or whether all of them match.
RuleParamsMatch(rule, type, kb) ==
    IF Len(rule.params) # Len(type.params) THEN "differ" ELSE
    LET results == [i \in DOMAIN rule.params |->
                        CheckParam(rule.params[i], type.params[i], kb)]
        errors == {i \in DOMAIN results : IsError(results[i])}
    IN  IF errors # {} THEN results[CHOOSE i \in errors : \A j \in errors : i <= j]
        ELSE Bool(\A i \in DOMAIN results : results[i] = "match")

(***************************************************************************)
(* The validation of a policy                                              *)
(*                                                                         *)
(* A rule has a name, parameters, a body (the calls in it that are not     *)
(* inside a dot or a new), the source it comes from, and lint: what the    *)
(* checks of its variables and of its and/or have to say.  A rule type has *)
(* a name, parameters, a source, and whether it is required.  A diagnostic *)
(* is its kind and the source of its context, or NoSource.                 *)
(***************************************************************************)

NoSource == "no source"

Diagnostic(kind, source) == [kind |-> kind, at |-> source]

Type(name, params, required, at) ==
    [name |-> name, params |-> params, required |-> required, at |-> at]

\* add_default_rule_types.
DefaultTypes ==
    LET any(n) == [i \in 1 .. n |-> Bound("any", NoTerm)]
        isA(tag) == Bound("any", Instance(tag, {}))
    IN  {Type("has_permission", <<isA("Actor"), isA("String"), isA("Resource")>>,
              FALSE, NoSource),
         Type("allow", any(3), FALSE, NoSource),
         Type("allow_field", any(4), FALSE, NoSource),
         Type("allow_request", any(2), FALSE, NoSource)}

Named(name, S) == {r \in S : r.name = name}

\* What the types of its name say of a rule.  Each of them is compared, and
\* an error about one counts even if another matches.
RuleResult(rule, kb) ==
    LET types == Named(rule.name, kb.types)
        results == {RuleParamsMatch(rule, type, kb) : type \in types}
    IN  IF types = {} THEN {}
        ELSE IF \E r \in results : IsError(r) THEN {r \in results : IsError(r)}
        ELSE IF "match" \in results THEN {} ELSE {"InvalidRule"}

\* The source of the context of an error about a rule.  A class that is not
\* registered is reported with a term made on the spot, which has no source.
SourceOf(kind, rule) == IF kind = "UnregisteredClass" THEN NoSource ELSE rule.at

Implemented(type, kb) ==
    \E rule \in Named(type.name, kb.rules) : RuleParamsMatch(rule, type, kb) = "match"

\* validate_rule_types.  It returns one error, and the rules and types are
\* visited in the order of hash maps: any of these may be the one.  A
\* required type is looked at when no rule was in error (no comparison then
\* ends in an error), and only has_relation has a context.
RuleTypeErrors(kb) ==
    LET ofRules == UNION {{Diagnostic(kind, SourceOf(kind, rule)) :
                                kind \in RuleResult(rule, kb)} : rule \in kb.rules}
        missing == {type \in kb.types : type.required /\ ~Implemented(type, kb)}
    IN  IF ofRules # {} THEN ofRules
        ELSE {Diagnostic("MissingRequiredRule",
                         IF type.name = "has_relation" THEN type.at ELSE NoSource) :
                    type \in missing}

Defined(kb) == {rule.name : rule \in kb.rules}

\* check_undefined_rule_calls.
CallErrors(kb) ==
    UNION {{Diagnostic("UndefinedRuleCall", rule.at) :
                i \in {j \in DOMAIN rule.body : rule.body[j].name \notin Defined(kb)}} :
           rule \in kb.rules}

\* check_no_allow_rule, and check_resource_blocks_missing_has_permission.
PolicyWarnings(kb) ==
    LET calls == UNION {{rule.body[i].name : i \in DOMAIN rule.body} : rule \in kb.rules}
        warnIf(condition, kind) == IF condition THEN {Diagnostic(kind, NoSource)} ELSE {}
    IN  warnIf(Defined(kb) \cap {"allow", "allow_field", "allow_request"} = {},
               "MissingAllowRule")
        \cup
        warnIf(kb.resources # {} /\ "has_permission" \notin calls,
               "MissingHasPermissionRule")

\* The tags of a rule that no constant and no union has, and that occur once.
UnknownSpecializers(rule, kb) ==
    LET tagged == {i \in DOMAIN rule.params : rule.params[i].specializer.is = "Instance"}
        tag(i) == rule.params[i].specializer.name
    IN  {i \in tagged : /\ tag(i) \notin DOMAIN kb.constants
                        /\ ~IsUnion(tag(i))
                        /\ \A j \in tagged : tag(j) = tag(i) => j = i}

\* check_singletons and check_ambiguous_precedence, when a rule is loaded.
RuleWarnings(rule, kb) ==
    {Diagnostic(kind, rule.at) : kind \in rule.lint} \cup
    {Diagnostic("UnknownSpecializer", rule.at) : i \in UnknownSpecializers(rule, kb)}
================================================================================
